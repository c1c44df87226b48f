SPECIFICATION Spec
CONSTANTS
    Attempts = {r1, r2}
    Keys = {k1}
    NoKey = NoKey
    MaxCount = 3
    Totals = {4}
    Amounts = {1, 2}
    Tolerance = 1
    MaxRequests = 3
SYMMETRY Interchangeable
INVARIANTS
    CollectionsAgree
    RemindersFollowDebt
    RunsOnce
\* A bounded number of requests: the invoice may be settled.
CHECK_DEADLOCK FALSE
