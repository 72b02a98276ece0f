\* Task creation with interrupts on loses a wakeup.
SPECIFICATION Spec
CONSTANTS
    MAX_TASKS = 3
    TIME_SLICE_TICKS = 3
    TICKS_PER_SECOND = 100
    BootTasks = 2
    Made = 0
    Available <- TwoStacks
    Ops <- ShippedOps
    SleepMs <- MCSleepMs
    MaxPid = 0
    None = None
INVARIANT
    BlockedIsWakeable
