\* The whole interface, called by tasks after boot; slots, pages and pids run out.
SPECIFICATION Spec
CONSTANTS
    MAX_TASKS = 4
    TIME_SLICE_TICKS = 3
    TICKS_PER_SECOND = 100
    BootTasks = 2
    Made = 2
    Available <- ThreeStacks
    Ops <- AllOps
    SleepMs <- MCSleepMs
    MaxPid = 4
    None = None
INVARIANTS
    ExitNeverReturns
    BlockedIsWakeable
    WaitReturnsExitCode
    StackPagesOwned
    PageBalance
PROPERTIES
    ImplementsTaskManager
    NeverOvertaken
