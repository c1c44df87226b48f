SPECIFICATION Spec
CONSTANTS
    Rows = {n1, n2}
    NoRow = NoRow
    Keys = {k1}
    Workers = {w1, w2}
    Requests = {q1, q2}
    Preferences <- AutoOrSms
    Configurations <- SomeSettings
    BatchSize = 1
    MaxAttempts = 2
    Deployments <- OneOrTwoWorkers
INVARIANTS
    SendsExplained
    OneLivePerKey
PROPERTIES
    EverythingSettles
\* No more messages than rows: in the end the queue is empty.
CHECK_DEADLOCK FALSE
