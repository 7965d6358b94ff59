SPECIFICATION Spec
CONSTANTS
    Configs <- MCSubmit
    ChunkSize = 2
    QueueDepth = 2
    PreSize = 1
    FlushSize = 2
    Wrap = 64
PROPERTY SubmitContinues
CHECK_DEADLOCK FALSE
