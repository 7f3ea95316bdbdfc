SPECIFICATION Spec
CONSTANTS
    Jobs = {j1}
    Slots = {s1, s2}
    Clients = {c1}
    NoJob = NoJob
    QueueCap = 2
    Gens <- MCGens
    MaxAttempts = 1
    MaxRestarts = 0
    MaxRequests = 2
    Ops = {"submit", "select"}
    Plans = {"media"}
PROPERTIES
    ResolvingFollowsQueued
CHECK_DEADLOCK FALSE
