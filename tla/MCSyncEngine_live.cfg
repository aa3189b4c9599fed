SPECIFICATION LiveSpec
CONSTANTS
    d1 = d1
    d2 = d2
    r1 = r1
    r2 = r2
    r3 = r3
    Device = {d1, d2}
    Runner = {r1, r2}
    Home <- OnePerDevice
    Entry <- Versions2
    Hash <- Order
    Decisions = {}
    Restricted = {}
    Baseline <- Nobody
    MaxKey = 1
    MaxEpoch = 1
    NoManifest = NoManifest
    Ops = {"push", "skip", "compact"}
    Mortal = {}
    Faults = {"lose"}
    Disciplined = FALSE
    Authors <- OneEach
    Flags <- SecondRefuses
PROPERTY Converges
CHECK_DEADLOCK FALSE
