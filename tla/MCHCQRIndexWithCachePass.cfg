SPECIFICATION FairSpec
CONSTANTS
    t1 = t1
    t2 = t2
    Threads = {t1, t2}
    NoThread = NoThread
    Queries <- MCQueries
    InitialSize = 2
    Sizes = {2, 3, 4}
    MaxCalls = 6
INVARIANTS TypeOK AnswersRight Bounded
PROPERTIES CallsReturn
CHECK_DEADLOCK FALSE
