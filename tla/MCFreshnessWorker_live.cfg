SPECIFICATION LiveSpec
CONSTANTS
    Worker = {w1, w2}
    Project = {p1}
    MaxHead = 2
    MaxEnqueues = 2
    MaxCancels = 0
    MaxCrashes = 1
    MaxStops = 0
    MaxStalls = 1
    MaxAttempts = 2
    CrashWindows = {"claim", "activate"}
    NoPid = NoPid
    DeadPid = DeadPid
    NoTask = NoTask
INVARIANTS
    NoTaskLost
PROPERTIES
    EventuallySettled
CHECK_DEADLOCK FALSE
