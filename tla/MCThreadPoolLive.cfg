SPECIFICATION FairSpec
CONSTANTS
    Clients = {c1}
    Tasks = {t1, t2}
    c1 = c1
    t1 = t1
    t2 = t2
    MaxWorkers = 2
    InitialThreads = 0
    ResizeTo = {2}
    MaxResizes = 1
    MaxSpurious = 1
PROPERTIES FlushReturns TasksRun StopReturns StartReturns ImplementsWorkQueue
