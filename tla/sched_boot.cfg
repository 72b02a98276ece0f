\* The shipped configuration: _start creates three tasks with interrupts on.
SPECIFICATION Spec
CONSTANTS
    MAX_TASKS = 4
    TIME_SLICE_TICKS = 3
    TICKS_PER_SECOND = 100
    BootTasks = 3
    Made = 0
    Available <- OddFrame
    Ops <- ShippedOps
    SleepMs <- MCSleepMs
    MaxPid = 0
    None = None
INVARIANTS
    TypeOK
    OnlyIdleIsPreempted
    InterruptsOffInSchedule
    SpinNeverWaits
    RunningIsCurrent
