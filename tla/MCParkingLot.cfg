SPECIFICATION Spec
CONSTANTS
    t1 = t1
    t2 = t2
    t3 = t3
    a1 = a1
    a2 = a2
    Null = Null
    Threads = {t1, t2, t3}
    Parks <- MCParks
    Notifies <- MCNotifies
    Mortals = {}
    Addresses = {a1, a2}
    Hash <- MCHash
    maxLoadFactor = 1
    growthFactor = 1
SYMMETRY ThreadSymmetry
INVARIANTS
    QueuesInPlace
    TakenStillParked
    NoLostWakeup
    LoadFactorKept
PROPERTIES
    ImplementsParking
