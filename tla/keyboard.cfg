\* A ring of four: three characters wait at most, and the indices wrap around.
SPECIFICATION FairSpec
CONSTANTS
    BUF_SIZE = 4
    letter = letter
    lshift = lshift
    rshift = rshift
    Enter = Enter
    Dead = Dead
    NoChar = NoChar
    Keys <- MCKeys
    Shifts <- MCShifts
INVARIANTS
    TypeOK
PROPERTIES
    ImplementsQueue
    WaitingIsTaken
