SPECIFICATION FairSpec
CONSTANTS
    Base = 4096
    AreaSize = 208
    WordSize = 65536
    Requests <- MCRequests
INVARIANTS
    NodesTileArea
    BlocksAreAllocated
    FullyCoalesced
PROPERTIES
    FailsOnlyWhenFull
    ImplementsAllocator
    WalksEnd
