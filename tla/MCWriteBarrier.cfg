SPECIFICATION Spec
CONSTANTS
    c1 = c1
    c2 = c2
    c3 = c3
    s1 = s1
    k1 = k1
    Null = Null
    Cells = {c1, c2, c3}
    Slots = {s1}
    Markers = {k1}
    CodeBlocks = {c1, c2, c3}
    MaxRoots = 2
    Copies = FALSE
SYMMETRY Symmetry
INVARIANTS
    Wavefront
    AssertionsHold
    GarbageNotMarked
PROPERTIES
    ImplementsManagedHeap
