\* The two lines that are used and one that remap masks.  The system stops when
\* an exception handler has halted and no device has anything left to raise.
SPECIFICATION FairSpec
CONSTANTS
    Lines = {0, 1, 3}
    TIME_SLICE_TICKS = 3
INVARIANTS
    TypeOK
    OnlyHandledLines
    EoiEndsItsOwn
    KeyboardAlive
PROPERTY
    KeysAreRead
CHECK_DEADLOCK FALSE
