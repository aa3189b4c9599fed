SPECIFICATION Spec
CONSTANTS
    p1 = p1
    p2 = p2
    i1 = i1
    i2 = i2
    i3 = i3
    s1 = s1
    s2 = s2
    m1 = m1
    m2 = m2
    Proc = {p1, p2}
    Id = {i1, i2, i3}
    Shard = {s1, s2}
    ShardOf <- Places
    Graph = {s2}
    Mark = {m1, m2}
    Body <- Singles
    Lanes = {"upsert", "remove", "update", "submit"}
    MaxGen = 3
    Mortal = {p1, p2}
    Torn = {}
    Nobody = Nobody
SYMMETRY Symmetry
INVARIANTS TypeOK CacheHonest AckedKept
PROPERTY OnlyOwnEntries
