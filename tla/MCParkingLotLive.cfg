SPECIFICATION FairSpec
CONSTANTS
    t1 = t1
    t2 = t2
    t3 = t3
    a1 = a1
    a2 = a2
    Null = Null
    Threads = {t1, t2, t3}
    Parks <- LiveParks
    Notifies <- MCNotifies
    Mortals = {t2}
    Addresses = {a1}
    Hash <- MCHashOne
    maxLoadFactor = 1
    growthFactor = 1
INVARIANTS
    TypeOK
PROPERTIES
    OperationsReturn
    NotifyAllWakes
