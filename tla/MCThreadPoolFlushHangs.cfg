SPECIFICATION FairSpec
CONSTANTS
    Clients = {c1, c2}
    c2 = c2
    Tasks = {t1}
    c1 = c1
    t1 = t1
    MaxWorkers = 2
    InitialThreads = 1
    ResizeTo = {}
    MaxResizes = 0
    MaxSpurious = 0
PROPERTY FlushReturns
CHECK_DEADLOCK FALSE
