SPECIFICATION Spec
CONSTANTS
    CellItems <- MCCellItems
    Store <- MCStore
    CellItemsPtr <- MCCellItemsPtr
    Mem <- MCMem
    Bases <- MCBases
    Ops <- MCOps
    Threads <- MCThreads
    BlocksPerThread = 1
    ParallelCells = 1
    MaxLeaves = 3
    MaxUnary = 2
    MaxThreadedLeaves = 2
INVARIANTS DirectRight TreedRight ParallelRight FlattenRight
CHECK_DEADLOCK FALSE
