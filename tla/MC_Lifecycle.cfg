SPECIFICATION FairSpec
CONSTANTS
    Jobs = {j1}
    Slots = {s1}
    Clients = {c1, c2}
    NoJob = NoJob
    QueueCap = 2
    Gens <- MCGens
    MaxAttempts = 1
    MaxRestarts = 1
    MaxRequests = 3
    Ops = {"submit", "select", "resume", "force", "login"}
    Plans = {"direct", "media", "page"}
PROPERTIES
    ImplementsLifecycle
CHECK_DEADLOCK FALSE
