SPECIFICATION LiveSpec
CONSTANTS
    c1 = c1
    c2 = c2
    w1 = w1
    w2 = w2
    Capture = {c1, c2}
    Rank <- ById
    Drain = {w1}
    MaxAttempts = 2
    BatchSize = 2
    Shaky = {c1}
    MaxFailures = 3
    Managed = {c1}
    Mortal = {w1}
    Faulty = FALSE
PROPERTY NoWedge
CHECK_DEADLOCK FALSE
