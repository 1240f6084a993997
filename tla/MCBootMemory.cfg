SPECIFICATION Spec
CONSTANTS
    FloorFrame = 8
    Half = 64
    WordFrames = 256
    Counts = {2, 9, 4096}
    MaxUsed = 23
    Maps <- MCMaps
    KernelEnd = 31000
    DefaultMax = 65536
INVARIANTS
    KernelFramesNeverDealt
    FreeFramesAreRam
    SharedOnlyByRuns
    UsedPagesCountBits
PROPERTIES
    LargeRequestsRefused
