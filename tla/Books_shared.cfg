SPECIFICATION Spec
CONSTANTS
    Periods = {p1, p2}
    NoPeriod = NoPeriod
    Docs = {d1}
    NoDoc = NoDoc
    Entries = {e1, e2, e3}
    Failures = {f1, f2}
    NoId = NoId
    Requests = {r1, r2}
    Kinds <- AllKinds
    Amounts <- TwoSizes
    MaxRequests = 5
SYMMETRY Interchangeable
INVARIANTS
    PeriodsReliable
    VoucherMirrorsExpense
    
    
PROPERTIES
    ClosedForGood
\* A bounded number of requests: the shop may close.
CHECK_DEADLOCK FALSE
