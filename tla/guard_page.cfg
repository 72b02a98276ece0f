\* Stacks are adjacent: there is no guard page.
SPECIFICATION Spec
CONSTANTS
    MAX_TASKS = 4
    TIME_SLICE_TICKS = 3
    TICKS_PER_SECOND = 100
    BootTasks = 3
    Made = 0
    Available <- Unbroken
    Ops <- ShippedOps
    SleepMs <- MCSleepMs
    MaxPid = 0
    None = None
INVARIANT
    GuardPageBelowStack
