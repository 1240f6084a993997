SPECIFICATION Spec
CONSTANTS
    Tasks = {1, 2}
    Values = {0, 1}
    CallFrame = 16
\* The CPU leaves the code of the tasks at the first switch.
CHECK_DEADLOCK FALSE
INVARIANTS
    RegistersSaved
