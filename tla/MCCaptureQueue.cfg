SPECIFICATION Spec
CONSTANTS
    c1 = c1
    c2 = c2
    w1 = w1
    w2 = w2
    Capture = {c1}
    Rank <- ById
    Drain = {w1, w2}
    MaxAttempts = 2
    BatchSize = 1
    Shaky = {c1}
    MaxFailures = 4
    Managed = {c1}
    Mortal = {w1, w2}
    Faulty = TRUE
INVARIANTS TypeOK NothingLost AttemptsHonest TerminalStays
CHECK_DEADLOCK FALSE
