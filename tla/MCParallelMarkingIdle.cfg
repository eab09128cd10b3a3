SPECIFICATION Spec
CONSTANTS
    Helpers = {h1, h2}
    Cells <- MCCells
    Roots <- MCRoots
    Children <- MCChildren
    Outgrowths <- MCOutgrowths
    MaxCollections = 1
    MaxTimeouts = 1
CHECK_DEADLOCK FALSE
INVARIANTS
    WaitingAreIdle
