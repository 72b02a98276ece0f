\* Two neighbours freed in list order are not merged.
SPECIFICATION Spec
CONSTANTS
    HEAP_START = 8
    HEAP_MAX_SIZE = 16
    HEADER_SIZE = 3
    ALIGN = 2
    PAGE_SIZE = 8
    InitBytes = 15
    Sizes = {1, 5, 9}
INVARIANT
    AdjacentHolesMerge
CHECK_DEADLOCK FALSE
