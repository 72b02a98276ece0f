\* Sizes in units of 8 bytes shrunk to keep HEADER_SIZE = 1.5 * ALIGN and
\* PAGE_SIZE a multiple of ALIGN; from one page the heap can grow to six.
SPECIFICATION Spec
CONSTANTS
    HEAP_START = 8
    HEAP_MAX_SIZE = 48
    HEADER_SIZE = 3
    ALIGN = 2
    PAGE_SIZE = 8
    InitBytes = 7
    Sizes = {1, 5, 9}
INVARIANTS
    TypeOK
    Tiling
    UsedIsHeld
    RetryFinds
PROPERTY
    ImplementsAllocator
CHECK_DEADLOCK FALSE
