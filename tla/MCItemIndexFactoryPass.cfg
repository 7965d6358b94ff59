SPECIFICATION FairSpec
CONSTANTS
    e = e
    a = a
    b = b
    t1 = t1
    t2 = t2
    NoThread = NoThread
    Threads = {t1, t2}
    Contents = {e, a, b}
    Empty = e
    Bytes <- MCBytes
    Items <- MCItems
    SourceSize = 3
    GrowSize = 2
    AuxGrow = 1
    Dedup = {TRUE, FALSE}
    MaxRecalcs <- MCRecalcs
INVARIANTS TypeOK DataIntact NoRangeError IdsUnique FlushedFaithful
PROPERTY InsertEnds
