SPECIFICATION LiveSpec
CONSTANTS
    Proc = {p1, p2}
    NoPid = NoPid
    Stamp = {1, 2, 3, 4, 5}
    NoStamp = 0
    RaceAttempts = 2
    MaxCrashes = 1
    MaxFailures = 1
    MayAge = TRUE
    Windows = TRUE
INVARIANTS
    TypeOK
    MutualExclusion
    NoStrandedLock
PROPERTIES
    SelfHeals
