SPECIFICATION Spec
CONSTANTS
    CellItems <- MCCellItems
    Store <- MCStore
    CellItemsPtr <- MCCellItemsPtr
    Mem <- MCMem
    Bases <- MCEmptyBases
    Ops <- MCEmptyOps
    Threads <- MCThreads
    BlocksPerThread = 1
    ParallelCells = 1
    MaxLeaves = 5
    MaxUnary = 1
    MaxThreadedLeaves = 0
INVARIANT SequentialAlwaysRight
CHECK_DEADLOCK FALSE
