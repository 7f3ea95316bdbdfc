SPECIFICATION StorageSpec
CONSTANTS
    Jobs = {j1}
    Slots = {s1, s2}
    Clients = {c1}
    NoJob = NoJob
    Orphans = {}
    QueueCap = 2
    Gens <- MCStorageGens
    MaxAttempts = 1
    MaxRestarts = 0
    MaxRequests = 2
    Ops = {"submit", "select", "resume", "force", "login"}
    Plans = {"media"}
INVARIANTS
    ReadyMediaHasFiles
    ActiveHasDriver
    ReadyMediaHasArtifact
SYMMETRY SymmetricStorage
CHECK_DEADLOCK FALSE
