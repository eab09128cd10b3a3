SPECIFICATION Spec
CONSTANTS
    t1 = t1
    t2 = t2
    t3 = t3
    a1 = a1
    a2 = a2
    Null = Null
    Threads = {t1, t2, t3}
    Parks <- FlagParks
    Notifies <- MCNotifies
    Mortals = {t1, t2}
    Addresses = {a1}
    Hash <- MCHashOne
    maxLoadFactor = 1
    growthFactor = 1
INVARIANTS
    NobodyWaiting
