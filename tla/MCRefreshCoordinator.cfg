SPECIFICATION LiveSpec
CONSTANTS
    Request = {r1, r2}
    Bundle = {b1, b2, b3}
    None = None
    MaxCode = 1
    MaxCanon = 1
    MaxLedger = 1
    MaxFails = 1
    MaxReverts = 1
INVARIANTS
    TypeOK
    ServingOpen
    EveryBundleOwned
    NoTornRequest
    PublishedFaithful
    HonestFreshness
PROPERTIES
    Converges
CHECK_DEADLOCK FALSE
