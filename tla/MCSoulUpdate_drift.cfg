SPECIFICATION Spec
CONSTANTS
    a = a
    b = b
    sa = sa
    sb = sb
    u1 = u1
    u2 = u2
    r1 = r1
    Proc = {u1}
    Reader = {}
    File = {a, b}
    MaxContent = 2
    Last <- Twice
    Text <- TwoFiles
    Gone <- OnceGone
    Shard = {sa, sb}
    ShardOf <- Apart
    Packages <- Whole
    Ops = {"update"}
    MaxStamp = 3
    Deaths = {"shards", "index"}
    Reverts = FALSE
    Races = FALSE
    Nobody = Nobody
INVARIANT NoDrift
CHECK_DEADLOCK FALSE
