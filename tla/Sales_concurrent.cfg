SPECIFICATION Spec
CONSTANTS
    Sales = {s1, s2}
    NoSale = NoSale
    Requests = {r1, r2}
    Ops <- AllOps
    Quantities <- OneSize
    Price = 1
    InitStock = 3
    Tolerance = 0
    CreditLimit = 2
    MayOverride = TRUE
    MaxRequests = 5
SYMMETRY Interchangeable
INVARIANTS
    StockNeverNegative
    InvoiceNumbersUnique
    NoPhantomCash
\* A bounded number of requests: the shop may close.
CHECK_DEADLOCK FALSE
