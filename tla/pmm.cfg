\* Every memory map of nine frames; a page holds two bitmap bytes of two bits,
\* so that the bitmap takes three frames and its last byte is partly past the end.
SPECIFICATION Spec
CONSTANTS
    NFrames = 9
    BITS = 2
    PAGE_SIZE = 2
    LOW = 2
INVARIANTS
    TypeOK
    CountsAgree
    BitmapIsSafe
    NoneMeansExhausted
PROPERTY
    ImplementsAllocator
CHECK_DEADLOCK FALSE
