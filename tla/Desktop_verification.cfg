SPECIFICATION Spec
CONSTANTS
    Entries = {"src", "migrations"}
    Bundles = {"b1", "b2"}
    Payload <- MCPayload
    Releases = {"r1", "r2"}
    First = "r1"
    MaxUpdates = 0
    Nobody = Nobody
    MaxFaults = 0
    Clicks = {"c1"}
    BackupRequired = FALSE
    BackupProduced = TRUE
    ServerMode = TRUE
    MaxChecks = 1
PROPERTIES
    VerificationEnds
