SPECIFICATION Spec
CONSTANTS
    Entries = {"src", "migrations"}
    Bundles = {"b1", "b2"}
    Payload <- MCPayload
    Releases = {"r1", "r2"}
    First = "r1"
    MaxUpdates = 2
    Nobody = Nobody
    MaxFaults = 1
    Clicks = {"c1", "c2"}
    BackupRequired = TRUE
    BackupProduced = TRUE
    ServerMode = TRUE
    MaxChecks = 1
INVARIANTS
    
    PayloadRecoverable
    AllOrNothing
    
PROPERTIES
    RanBeforeDiscard
    EverySwapEnds
