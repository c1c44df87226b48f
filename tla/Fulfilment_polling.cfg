SPECIFICATION FairSpec
CONSTANTS
    StaffRequests = {c1}
    Dispatchers = {d1}
    Shipments = {k1}
    NoShipment = NoShipment
    Parcels = {p1}
    NoParcel = NoParcel
    Hooks = {h1}
    Polls = {s1}
    Attempts = 2
    MaxRestarts = 1
INVARIANTS
    ReportsAreTrue
PROPERTIES
    MissedDeliveriesCaught
    DeliveryReachesOrder
\* An order that is finished or deleted asks for nothing more.
CHECK_DEADLOCK FALSE
