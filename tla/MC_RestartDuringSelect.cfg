SPECIFICATION Spec
CONSTANTS
    Jobs = {j1}
    Slots = {s1}
    Clients = {c1}
    NoJob = NoJob
    QueueCap = 2
    Gens <- MCGens
    MaxAttempts = 1
    MaxRestarts = 1
    MaxRequests = 1
    Ops = {"submit"}
    Plans = {"media"}
PROPERTIES
    RestartRecoversRunning
CHECK_DEADLOCK FALSE
