SPECIFICATION Spec
CONSTANTS
    Base = 4096
    AreaSize = 344
    WordSize = 65536
    StructSize = 40
    StackSize = 64
    BufferSize = 64
    Task <- MCTask
    Boot = Boot
    LOST = LOST
    TimeSlice = 2
    MaxPid = 4
    SwitchResumes = FALSE
\* The CPU leaves the code of the tasks at the first switch between two.
CHECK_DEADLOCK FALSE
INVARIANTS
    NoLeak
    QueuedTasksHaveMemory
