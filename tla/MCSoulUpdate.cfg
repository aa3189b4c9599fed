SPECIFICATION Spec
CONSTANTS
    a = a
    b = b
    sa = sa
    sb = sb
    u1 = u1
    u2 = u2
    r1 = r1
    Proc = {u1}
    Reader = {r1}
    File = {a, b}
    MaxContent = 2
    Last <- Twice
    Text <- TwoFiles
    Gone <- OnceGone
    Shard = {sa, sb}
    ShardOf <- Apart
    Packages <- Each
    Ops = {"update", "dirty", "index"}
    MaxStamp = 3
    Deaths = {"shards"}
    Reverts = FALSE
    Races = FALSE
    Nobody = Nobody
INVARIANTS TypeOK NothingSkipped NoPhantoms StaleReadersNotice
PROPERTY EdgesKept
CHECK_DEADLOCK FALSE
