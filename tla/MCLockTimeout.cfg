SPECIFICATION SpecWithTimeout
CONSTANTS
    t1 = t1
    t2 = t2
    t3 = t3
    t4 = t4
    Null = Null
    Threads = {t1, t2}
    SpinLimit = 0
    MaxRetries = 1
PROPERTIES
    AcquiresLockIfTrue
