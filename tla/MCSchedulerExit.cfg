SPECIFICATION Spec
CONSTANTS
    Task = {t1, t2}
    Boot = Boot
    LOST = LOST
    NULL = NULL
    TimeSlice = 2
    MaxPid = 2
    SwitchResumes = FALSE
PROPERTIES
    ExitSchedulesNext
