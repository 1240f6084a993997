SPECIFICATION FairSpec
CONSTANTS
    Task = {t1, t2, t3}
    Boot = Boot
    LOST = LOST
    NULL = NULL
    TimeSlice = 2
    MaxPid = 3
    SwitchResumes = TRUE
INVARIANTS
    RunqueueIsRing
    NoWildAccess
    CurrentTaskSound
PROPERTIES
    LookupComplete
    ImplementsRoundRobin
    CallsReturn
    TurnsComeNearer
