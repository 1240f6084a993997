SPECIFICATION Spec
CONSTANTS
    Lines = {0, 1, 3, 8}
    Exceptions = {3, 13, 14}
\* The CPU halts after a page fault.
CHECK_DEADLOCK FALSE
INVARIANTS
    RightStub
    CodeUndisturbed
    NothingInService
    HandlersNeverSpin
    DevicesComeFirst
PROPERTIES
    TicksAreHandled
