SPECIFICATION FairSpec
CONSTANTS
    Threads = {t1, t2}
    Null = Null
    VM = VM
    RunLoop = t2
    MaxScopes = 4
    MaxMicrotasks = 2
INVARIANTS
    HolderHasLock
    VMFollowsHolder
    DropsInOrder
    MicrotasksDrained
PROPERTIES
    OneMicrotask
    LockAndGrabReturn
