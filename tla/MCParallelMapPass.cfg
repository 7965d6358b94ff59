SPECIFICATION FairSpec
CONSTANTS
    Length = 3
    ThreadCounts = {0, 1, 3}
    HardwareConcurrency = 2
    MaxThreads = 3
INVARIANTS TypeOK ExactlyOnce NoneLeft
PROPERTIES MapReturns
