\* Progress of the shipped tasks once they are created.
SPECIFICATION FairSpec
CONSTANTS
    MAX_TASKS = 4
    TIME_SLICE_TICKS = 3
    TICKS_PER_SECOND = 100
    BootTasks = 3
    Made = 3
    Available <- ThreeStacks
    Ops <- ShippedOps
    SleepMs <- MCSleepMs
    MaxPid = 0
    None = None
PROPERTIES
    ReadyRuns
    SleeperRuns
