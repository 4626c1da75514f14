SPECIFICATION FairSpec
CONSTANTS
    x1 = x1
    c1 = c1
    c2 = c2
    Xorbs = {x1}
    Shards = {s1, s2}
    Files = {f1}
    Owners = {o1, o2}
    NoShard = NoShard
    Chunks <- MCChunks
    Removers = {t1, t2}
PROPERTIES
    KeepsPromise
    RemovalsEnd
