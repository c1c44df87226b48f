SPECIFICATION Spec
CONSTANTS
    Sales = {s1, s2, s3}
    NoSale = NoSale
    Requests = {r1}
    Ops <- AllOps
    Quantities <- TwoSizes
    Price = 2
    InitStock = 4
    Tolerance = 1
    CreditLimit = 4
    MayOverride = FALSE
    MaxRequests = 5
SYMMETRY Interchangeable
INVARIANTS
    
    GoodsAgree
PROPERTIES
    CeilingRespected
\* A bounded number of requests: the shop may close.
CHECK_DEADLOCK FALSE
