\* A heap of one to four pages needs three tables, the device two and every
\* task two frames: the nine frames do for everything but one of them.
SPECIFICATION MemorySpec
CONSTANTS
    TABLE_SIZE = 2
    Pages <- MCPages
    Phys <- MCPhys
    NPages = 9
    Root = 100
    Loader <- MCLoader
    Junk = 3
    None = None
    HEAP_START = 32
    HEAP_MAX_SIZE = 32
    HEADER_SIZE = 3
    ALIGN = 2
    PAGE_SIZE = 8
    InitBytes = 7
    Sizes = {1, 9}
    DevPages = {14}
    DevPhys <- MCDevPhys
    MAX_TASKS = 2
    Opaque = {103, 104}
INVARIANTS
    MemoryTypeOK
    FrameHasOneUse
    HeapIsBacked
PROPERTY
    ImplementsSpace
CHECK_DEADLOCK FALSE
