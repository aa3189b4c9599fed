SPECIFICATION Spec
CONSTANTS
    d1 = d1
    d2 = d2
    r1 = r1
    r2 = r2
    r3 = r3
    Device = {d1, d2}
    Runner = {r1, r2}
    Home <- OnePerDevice
    Entry <- Versions2
    Hash <- Order
    Decisions <- FirstVersion
    Restricted = {}
    Baseline <- Nobody
    MaxKey = 2
    MaxEpoch = 3
    NoManifest = NoManifest
    Ops = {"push", "backfill", "pull", "rotate", "purge", "cap"}
    Mortal = {r1}
    Faults = {"late"}
    Disciplined = TRUE
    Authors <- OnlyTheFirst
    Flags <- Nobody
INVARIANTS AckedIsDurable RosterCurrent
CHECK_DEADLOCK FALSE
