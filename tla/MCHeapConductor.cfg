SPECIFICATION FairSpec
CONSTANTS
    Scopes = {"Eden", "Full", "Any"}
    MaxTickets = 2
INVARIANTS
    ConductorHasConn
    StoppedWorld
    FinalizeBetweenCollections
    ReleaseAsserts
PROPERTIES
    WaitsAreHonest
    CallsReturn
    ServedInBackground
