SPECIFICATION Spec
CONSTANTS
    IntBits = 4
    LongBits = 8
    Formats <- MCFormats
    Args <- MCArgs
\* printf returns.
CHECK_DEADLOCK FALSE
INVARIANTS
    NumbersReadBack
    StaysInFormat
