SPECIFICATION Spec
CONSTANTS
    Configs <- MCConfigs
    ChunkSize = 2
    QueueDepth = 2
    PreSize = 1
    FlushSize = 2
    Wrap = 64
INVARIANTS TypeOK ResultSorted ChunksHoldSource WritesDisjoint SomeoneAwake
CHECK_DEADLOCK FALSE
