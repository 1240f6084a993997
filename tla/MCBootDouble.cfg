SPECIFICATION Spec
CONSTANTS
    FloorFrame = 8
    Half = 64
    WordFrames = 256
    Counts = {1, 2, 3}
    MaxUsed = 40
    Maps <- MCMaps
    KernelEnd = 31000
    DefaultMax = 65536
INVARIANTS
    FramesExclusive
