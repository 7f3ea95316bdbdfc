SPECIFICATION Spec
CONSTANTS
    Jobs = {j1, j2, j3}
    Slots = {s1}
    Clients = {c1, c2}
    NoJob = NoJob
    QueueCap = 1
    Gens <- MCGens
    MaxAttempts = 1
    MaxRestarts = 1
    MaxRequests = 3
    Ops = {"submit"}
    Plans = {"direct", "media", "page"}
INVARIANTS
    TypeOK
    SingleDriver
    SelectionCurrent
PROPERTIES
    ResolvingFollowsQueued
    WedgeIsPermanent
SYMMETRY Symmetric
CHECK_DEADLOCK FALSE
