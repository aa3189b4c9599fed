SPECIFICATION Spec
CONSTANTS
    d1 = d1
    d2 = d2
    r1 = r1
    r2 = r2
    r3 = r3
    Device = {d1, d2}
    Runner = {r1, r2, r3}
    Home <- TwoOnTheFirst
    Entry <- Versions2
    Hash <- Order
    Decisions = {}
    Restricted = {}
    Baseline <- Nobody
    MaxKey = 1
    MaxEpoch = 1
    NoManifest = NoManifest
    Ops = {"push", "pull"}
    Mortal = {}
    Faults = {}
    Disciplined = FALSE
    Authors <- OneEach
    Flags <- Nobody
SYMMETRY SameHome
INVARIANTS TypeOK CursorHonest
PROPERTIES LedgersGrow ImplementsReplicaSet
CHECK_DEADLOCK FALSE
