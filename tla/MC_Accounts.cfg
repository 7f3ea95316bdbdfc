SPECIFICATION HistorySpec
CONSTANTS
    k1 = k1  k2 = k2  k3 = k3  
    j1 = j1 
    c1 = c1  c2 = c2
    s1 = s1  s2 = s2  s3 = s3
    KeyIds = {k1, k2, k3}
    NoKey = NoKey
    Secrets = {s1, s2, s3}
    NoSecret = NoSecret
    Callers = {c1, c2}
    Jobs = {j1}
    MaxBatches = 3
    MaxSweeps = 1
INVARIANTS
    OneAdmin
    AdminRemains
    HiddenOnce
PROPERTIES
    OwnJobsOnly
SYMMETRY AccountSymmetry
CHECK_DEADLOCK FALSE
