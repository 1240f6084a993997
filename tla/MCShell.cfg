SPECIFICATION FairSpec
CONSTANTS
    width = 2
    height = 3
    Codes <- MCCodes
    scancode_to_ascii <- MCAscii
    scancode_to_ascii_shift <- MCAsciiShift
    Shifts <- MCShifts
    MAX_BUFFER = 3
    ARG_SIZE = 1
    PROMPT <- MCPrompt
    Printable <- MCPrintable
    Outputs <- MCOutputs
INVARIANTS
    ShiftNeverStuck
    KeysInOrder
    DisplayShowsLine
    WritesStayOnScreen
PROPERTIES
    KeysAreTaken
    EditsLikeLineEditor
