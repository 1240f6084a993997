SPECIFICATION Spec
CONSTANTS
    Tasks = {1, 2}
    Values = {0, 1}
    CallFrame = 16
INVARIANTS
    SwitchEntersTask
