SPECIFICATION FairSpec
CONSTANTS
    t1 = t1
    t2 = t2
    t3 = t3
    t4 = t4
    Null = Null
    Threads = {t1, t2, t3, t4}
    SpinLimit = 1
    MaxRetries = 0
PROPERTIES
    ImplementsMutex
    LockReturns
