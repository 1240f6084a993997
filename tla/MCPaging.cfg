SPECIFICATION Spec
CONSTANTS
    FloorFrame = 8
    Half = 50
    WordFrames = 625
    Counts = {2, 8, 9}
    MaxUsed = 31
    Entries = 5
    Ram = 28
    FreeSets <- MCFreeSets
    Requests <- MCRequests
    Watched <- MCWatched
\* A walk that leaves the tables ends the behaviour.
CHECK_DEADLOCK FALSE
INVARIANTS
    TablesAreTree
    TablesAreOwned
    BreakHasCause
PROPERTIES
    MapsOnePage
