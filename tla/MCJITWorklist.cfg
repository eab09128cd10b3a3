SPECIFICATION Spec
CONSTANTS
    v1 = v1
    v2 = v2
    p1 = p1
    p2 = p2
    p3 = p3
    k1 = k1
    k2 = k2
    Null = Null
    VMs = {v1, v2}
    Mortals = {v1}
    Plans = {p1, p2, p3}
    NumberOfThreads = 2
    Maximum <- MCMaximum
    vm <- MCvm
    tier <- MCtier
    key <- MCkey
SYMMETRY PlanSymmetry
INVARIANTS
    PlansInPlace
    CodeOutlivesPlans
    WorkConserved
    BlockedForAPlan
