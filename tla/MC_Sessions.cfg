SPECIFICATION ContextsSpec
CONSTANTS
    l1 = l1  l2 = l2
    r1 = r1  r2 = r2
    b1 = b1  b2 = b2
    admin = admin  user = user
    j1 = j1
    Sessions = {l1}
    NoSession = NoSession
    Calls = {r1, r2}
    Keys = {admin, user}
    Admins = {admin}
    NoKey = NoKey
    Jobs = {j1}
    NoJob = NoJob
    Profiles = {"default"}
    NoProfile = NoProfile
    Browsers = {b1, b2}
    NoBrowser = NoBrowser
    JobOwner <- MCJobOwner
INVARIANTS
    OneBrowser
    SharedContext
    MapsAgree
    StarterOnly
SYMMETRY SessionSymmetry
CHECK_DEADLOCK FALSE
CONSTRAINT Unraced
