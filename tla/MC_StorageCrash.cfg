SPECIFICATION FairStorageSpec
CONSTANTS
    Jobs = {j1}
    Slots = {s1}
    Clients = {c1}
    NoJob = NoJob
    Orphans = {o1}
    QueueCap = 2
    Gens <- MCStorageGens
    MaxAttempts = 2
    MaxRestarts = 1
    MaxRequests = 1
    Ops = {"submit"}
    Plans = {"direct", "media", "page"}
INVARIANTS
    ReadyHasOutput
    ReadyMediaHasFiles
PROPERTIES
    CleanupSparesUntilCrash
    ExpiredAreSwept
CHECK_DEADLOCK FALSE
