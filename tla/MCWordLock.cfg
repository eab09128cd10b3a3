CONSTANTS
    Threads = {t1, t2, t3}
    Null = Null
    SpinLimit = 1
SPECIFICATION FairSpec
INVARIANTS
    QueueWellFormed
    NobodyForgotten
    NodesAlive
PROPERTIES
    ImplementsMutex
    ParkedIsWoken
