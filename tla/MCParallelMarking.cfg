SPECIFICATION FairSpec
CONSTANTS
    Helpers = {h1, h2}
    Cells <- MCCells
    Roots <- MCRoots
    Children <- MCChildren
    Outgrowths <- MCOutgrowths
    MaxCollections = 2
    MaxTimeouts = 1
CHECK_DEADLOCK FALSE
INVARIANTS
    TypeOK
    MarkStacksEmpty
    MarkingComplete
PROPERTIES
    CollectionEnds
