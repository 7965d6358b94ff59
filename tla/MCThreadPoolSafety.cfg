SPECIFICATION Spec
CONSTANTS
    Clients = {c1, c2}
    Tasks = {t1, t2, t3}
    c1 = c1
    c2 = c2
    t1 = t1
    t2 = t2
    t3 = t3
    MaxWorkers = 2
    InitialThreads = 0
    ResizeTo = {2}
    MaxResizes = 1
    MaxSpurious = 1
SYMMETRY ClientSymmetry
INVARIANTS TypeOK ExactlyOnce DestroyedQuiescent
PROPERTIES FlushMeansExecuted
CHECK_DEADLOCK FALSE
