SPECIFICATION FairSpec
CONSTANTS
    Warehouses <- TwoWarehouses
    Connections = {c1, c2}
    Nobody = Nobody
    Transfers = {t1}
    NoTransfer = NoTransfer
    Ops <- AllOps
    Quantities <- OneUnit
    Opening = 1
    OpeningLayers = 1
    MayOverdraw = FALSE
    MaxRequests = 3
INVARIANTS
    LocksSuffice
    
PROPERTIES
    PostsAtomically
    EveryTransactionEnds
\* A bounded number of requests: the shop may close.
CHECK_DEADLOCK FALSE
