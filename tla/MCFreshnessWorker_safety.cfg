SPECIFICATION Spec
CONSTANTS
    Worker = {w1, w2}
    Project = {p1}
    MaxHead = 2
    MaxEnqueues = 1
    MaxCancels = 1
    MaxCrashes = 1
    MaxStops = 1
    MaxStalls = 1
    MaxAttempts = 2
    CrashWindows = {"claim", "activate", "requeue"}
    NoPid = NoPid
    DeadPid = DeadPid
    NoTask = NoTask
SYMMETRY Workers
INVARIANTS
    TypeOK
    ClaimMatchesRun
    LastKnownGoodBacked
PROPERTIES
    NeverRegresses
    PublishesItsClaim
    CancelledNotPublished
CHECK_DEADLOCK FALSE
