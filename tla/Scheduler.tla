------------------------------ MODULE Scheduler ------------------------------
(***************************************************************************)
(* The task table and the scheduler of the kernel: src/src/multitask/      *)
(* (scheduler.rs, task.rs, spinlock.rs), with what they use of the         *)
(* interrupt path (interrupt/idt.rs common_handler, pic.rs send_eoi,       *)
(* pit.rs on_tick) and of the page allocator (alloc_page, free_page).      *)
(*                                                                         *)
(* There is one CPU.  A slot of the table owns a stack; cpu is the slot    *)
(* whose stack the CPU executes on, which is not CURRENT while schedule()  *)
(* is between its assignment of CURRENT and switch_to.  What a stack holds *)
(* is, per slot: pc (where the task is in its own code), irq (a timer      *)
(* handler frame lies on top of it), sched (a schedule() frame lies on top *)
(* of that), and the locals of those functions.                            *)
(*                                                                         *)
(* Abstracted: names, ticks_run, serial logging.  TICK_COUNT itself is not *)
(* kept: sleep_until holds the number of ticks left until the deadline.    *)
(***************************************************************************)
EXTENDS Integers, FiniteSets

CONSTANTS
    MAX_TASKS,         \* length of TASKS
    TIME_SLICE_TICKS,  \* ticks before tick() calls schedule()
    TICKS_PER_SECOND,  \* rate of the PIT
    BootTasks,         \* calls of new_kernel_task in _start
    Made,              \* how many of them are complete in the initial state
    Available,         \* page frames that are free when _start creates its tasks: any
                       \* set, with holes where the memory map has some or init_pmm,
                       \* the heap or page tables have taken frames
    Ops,               \* scheduler calls that the bodies of tasks make
    SleepMs,           \* arguments of sleep_ms
    MaxPid,            \* BOUND: tasks call new_kernel_task while NEXT_PID <= MaxPid
    None               \* Option::None, and the value 0 of sleep_until

ASSUME SchedulerAssumption ==
    /\ MAX_TASKS \in Nat \ {0}
    /\ TIME_SLICE_TICKS \in Nat \ {0}
    /\ TICKS_PER_SECOND \in Nat
    /\ BootTasks \in Nat /\ Made \in 0..BootTasks /\ Made < MAX_TASKS
    /\ Available \subseteq Nat \ {0} /\ IsFiniteSet(Available)
    /\ 2 * Made <= Cardinality(Available)
    /\ Ops \subseteq {"yield", "sleep", "exit", "wait", "create"}
    /\ SleepMs \subseteq Nat
    /\ MaxPid \in Nat
    /\ None \notin Int

Slots == 0..(MAX_TASKS - 1)
Frames == {0} \cup Available   \* frame 0 is reserved: never free when a task is created after boot
Idle  == 0

TaskState == {"Empty", "Ready", "Running", "Blocked", "Terminated"}

\* new_kernel_task between its stores: after alloc_slot, after the first
\* alloc_page, ..., after task.wait_for_pid = None.
CreateLocs == {"c_page0", "c_page1", "c_pid", "c_frame", "c_ready", "c_stack",
               "c_sleep", "c_wait", "c_code"}
Locs       == {"boot", "idle", "body", "sleep", "wait", "unreachable", "panic"}
                \cup CreateLocs
SchedLocs  == {"out", "call", "locked", "picked", "dropped", "ret"}

VARIABLES
    \* static mut TASKS, one function per field
    state, pid, sleep_until, wait_for_pid, exit_code, stack_base, stack_top,
    \* the other statics
    CURRENT, TICKS_ON_CURRENT, NEXT_PID, TASK_LOCK,
    \* hardware: the stack in use, RFLAGS.IF, IRQ0 in service in the PIC
    cpu, interrupts, isr,
    \* what is saved on each stack
    pc, irq, sched, target, rflags,
    \* locals: of new_kernel_task; wake_at of sleep_ms or pid of wait_for;
    \* the last value wait_for returned
    new, arg, result,
    \* tasks that _start has still to create; the free page frames
    bootLeft, freePages

table    == <<state, pid, sleep_until, wait_for_pid, exit_code, stack_base, stack_top>>
statics  == <<CURRENT, TICKS_ON_CURRENT, NEXT_PID, TASK_LOCK>>
hardware == <<cpu, interrupts, isr>>
stacks   == <<pc, irq, sched, target, rflags>>
locals   == <<new, arg, result>>
vars     == <<table, statics, hardware, stacks, locals, bootLeft, freePages>>

NoTask == [slot |-> None, phys0 |-> None, phys1 |-> None, pid |-> None]

-----------------------------------------------------------------------------
\* The state in which _start has just executed sti (main.rs), with the first
\* Made of its tasks already created.  Their stacks have taken the lowest frames,
\* two for each, in order.
Init ==
    /\ state = [s \in Slots |-> IF s = Idle THEN "Running"
                                ELSE IF s <= Made THEN "Ready" ELSE "Empty"]
    /\ pid = [s \in Slots |-> IF s <= Made THEN s ELSE 0]
    /\ sleep_until = [s \in Slots |-> None]
    /\ wait_for_pid = [s \in Slots |-> None]
    /\ exit_code = [s \in Slots |-> 0]
    /\ \E frame \in [1..(2 * Made) -> Available] :
        /\ \A i, j \in DOMAIN frame : i < j => frame[i] < frame[j]
        /\ stack_base = [s \in Slots |-> IF s \in 1..Made THEN frame[2 * s - 1] ELSE 0]
        /\ stack_top = [s \in Slots |-> IF s \in 1..Made THEN frame[2 * s] + 1 ELSE 0]
        /\ freePages = Available \ {frame[i] : i \in DOMAIN frame}
        /\ \A i \in DOMAIN frame, p \in freePages : frame[i] < p
    /\ CURRENT = Idle /\ TICKS_ON_CURRENT = 0
    /\ NEXT_PID = Made + 1 /\ TASK_LOCK = FALSE
    /\ cpu = Idle /\ interrupts = TRUE /\ isr = FALSE
    /\ pc = [s \in Slots |-> IF s = Idle THEN "boot" ELSE "body"]
    /\ irq = [s \in Slots |-> FALSE]
    /\ sched = [s \in Slots |-> IF s = Idle THEN "out" ELSE "ret"]
    /\ target = [s \in Slots |-> s]
    /\ rflags = [s \in Slots |-> FALSE]
    /\ new = [s \in Slots |-> NoTask]
    /\ arg = [s \in Slots |-> None]
    /\ result = [s \in Slots |-> None]
    /\ bootLeft = BootTasks - Made

\* The CPU executes the code of slot c at location l, outside schedule().
At(c, l) == c = cpu /\ sched[c] = "out" /\ pc[c] = l

Goto(c, l) == pc' = [pc EXCEPT ![c] = l]
Sched(c, l) == sched' = [sched EXCEPT ![c] = l]

\* A body that makes its next call has no use for the last one's values.
Forget(c) == /\ arg' = [arg EXCEPT ![c] = None]
             /\ result' = [result EXCEPT ![c] = None]

-----------------------------------------------------------------------------
(* The timer interrupt: common_handler -> pit::on_tick -> scheduler::tick    *)

Elapse(d) == IF d = None THEN None ELSE IF d > 0 THEN d - 1 ELSE 0

\* Faulty: without the test of sleep_until against 0.
DueAlways(s) == state[s] = "Blocked" /\ (sleep_until[s] # None => sleep_until[s] <= 1)

Due(s) == state[s] = "Blocked" /\ sleep_until[s] # None /\ sleep_until[s] <= 1

wake_sleeping_tasks ==
    /\ state' = [s \in Slots |-> IF Due(s) THEN "Ready" ELSE state[s]]
    /\ sleep_until' = [s \in Slots |-> IF Due(s) THEN None ELSE Elapse(sleep_until[s])]
    \* wake_at of a task that has read the clock is an absolute time
    /\ arg' = [s \in Slots |-> IF pc[s] = "sleep" THEN Elapse(arg[s]) ELSE arg[s]]

\* The 8259 delivers IRQ0 only while no IRQ0 is in service.
IrqDelivered == interrupts /\ ~isr

\* Faulty: > in place of >=.
SliceOverLate == TICKS_ON_CURRENT + 1 > TIME_SLICE_TICKS

SliceOver == TICKS_ON_CURRENT + 1 >= TIME_SLICE_TICKS

\* The handler returns: end of interrupt and iretq, all with IF clear.
TickQuiet ==
    /\ IrqDelivered
    /\ wake_sleeping_tasks
    /\ ~SliceOver
    /\ TICKS_ON_CURRENT' = TICKS_ON_CURRENT + 1
    /\ UNCHANGED <<pid, wait_for_pid, exit_code, stack_base, stack_top, CURRENT,
                   NEXT_PID, TASK_LOCK, hardware, stacks, new, result, bootLeft,
                   freePages>>

\* Faulty: send_eoi before the handler.
TickPreemptEoiFirst ==
    /\ IrqDelivered
    /\ wake_sleeping_tasks
    /\ SliceOver
    /\ TICKS_ON_CURRENT' = 0
    /\ interrupts' = FALSE /\ isr' = FALSE
    /\ irq' = [irq EXCEPT ![cpu] = TRUE]
    /\ Sched(cpu, "call")
    /\ UNCHANGED <<pid, wait_for_pid, exit_code, stack_base, stack_top, CURRENT,
                   NEXT_PID, TASK_LOCK, cpu, pc, target, rflags, new, result,
                   bootLeft, freePages>>

\* The slice is over: schedule() is called inside the handler, before the
\* end of interrupt.
TickPreempt ==
    /\ IrqDelivered
    /\ wake_sleeping_tasks
    /\ SliceOver
    /\ TICKS_ON_CURRENT' = 0
    /\ interrupts' = FALSE /\ isr' = TRUE
    /\ irq' = [irq EXCEPT ![cpu] = TRUE]
    /\ Sched(cpu, "call")
    /\ UNCHANGED <<pid, wait_for_pid, exit_code, stack_base, stack_top, CURRENT,
                   NEXT_PID, TASK_LOCK, cpu, pc, target, rflags, new, result,
                   bootLeft, freePages>>

Tick == TickQuiet \/ TickPreempt

-----------------------------------------------------------------------------
(* schedule()                                                                *)

\* TASK_LOCK.acquire(): save RFLAGS, cli, spin while the lock is taken.
Acquire ==
    /\ sched[cpu] = "call"
    /\ ~TASK_LOCK
    /\ TASK_LOCK' = TRUE
    /\ rflags' = [rflags EXCEPT ![cpu] = interrupts]
    /\ interrupts' = FALSE
    /\ Sched(cpu, "locked")
    /\ UNCHANGED <<table, CURRENT, TICKS_ON_CURRENT, NEXT_PID, cpu, isr, pc, irq,
                   target, locals, bootLeft, freePages>>

\* Faulty: the caller stays Running.
RequeuedNot == state

\* The table after a Running caller was made Ready.
Requeued == [state EXCEPT ![CURRENT] = IF @ = "Running" THEN "Ready" ELSE @]

\* Faulty: the scan starts at a fixed slot.
ScanFromOne(d) == d % MAX_TASKS

\* The round-robin scan: CURRENT + 1, ..., CURRENT + MAX_TASKS, which is CURRENT.
Scan(d) == (CURRENT + d) % MAX_TASKS

\* Faulty: the scan ends two slots early.
FoundNextShort(st, n) ==
    \E d \in 1..(MAX_TASKS - 2) :
        /\ n = Scan(d)
        /\ st[n] = "Ready"
        /\ \A e \in 1..(d - 1) : st[Scan(e)] # "Ready"

FoundNext(st, n) ==
    \E d \in 1..MAX_TASKS :
        /\ n = Scan(d)
        /\ st[n] = "Ready"
        /\ \A e \in 1..(d - 1) : st[Scan(e)] # "Ready"

PickNext ==
    /\ sched[cpu] = "locked"
    /\ \E n \in Slots \ {CURRENT} :
        /\ FoundNext(Requeued, n)
        /\ CURRENT' = n
        /\ state' = [Requeued EXCEPT ![n] = "Running"]
        /\ target' = [target EXCEPT ![cpu] = n]
    /\ TICKS_ON_CURRENT' = 0
    /\ Sched(cpu, "picked")
    /\ UNCHANGED <<pid, sleep_until, wait_for_pid, exit_code, stack_base, stack_top,
                   NEXT_PID, TASK_LOCK, hardware, pc, irq, rflags, locals, bootLeft,
                   freePages>>

\* The early returns: the scan came back to the caller or found nobody.  The
\* lock guard is dropped on the way out.
PickNobody ==
    /\ sched[cpu] = "locked"
    /\ \A n \in Slots \ {CURRENT} : ~FoundNext(Requeued, n)
    /\ state' = [Requeued EXCEPT ![CURRENT] = "Running"]
    /\ TASK_LOCK' = FALSE
    /\ interrupts' = rflags[cpu]
    /\ Sched(cpu, "ret")
    /\ UNCHANGED <<pid, sleep_until, wait_for_pid, exit_code, stack_base, stack_top,
                   CURRENT, TICKS_ON_CURRENT, NEXT_PID, cpu, isr, pc, irq, target,
                   rflags, locals, bootLeft, freePages>>

\* Faulty: sti in place of restoring RFLAGS.
DropGuardSti ==
    /\ sched[cpu] = "picked"
    /\ TASK_LOCK' = FALSE
    /\ interrupts' = TRUE
    /\ Sched(cpu, "dropped")
    /\ UNCHANGED <<table, CURRENT, TICKS_ON_CURRENT, NEXT_PID, cpu, isr, pc, irq,
                   target, rflags, locals, bootLeft, freePages>>

\* Faulty: the guard lives until schedule() returns, after the switch.
DropGuardLate ==
    /\ sched[cpu] = "picked"
    /\ Sched(cpu, "dropped")
    /\ UNCHANGED <<table, statics, hardware, pc, irq, target, rflags, locals, bootLeft,
                   freePages>>

\* drop(_guard), before the context switch.
DropGuard ==
    /\ sched[cpu] = "picked"
    /\ TASK_LOCK' = FALSE
    /\ interrupts' = rflags[cpu]
    /\ Sched(cpu, "dropped")
    /\ UNCHANGED <<table, CURRENT, TICKS_ON_CURRENT, NEXT_PID, cpu, isr, pc, irq,
                   target, rflags, locals, bootLeft, freePages>>

switch_to ==
    /\ sched[cpu] = "dropped"
    /\ cpu' = target[cpu]
    /\ Sched(cpu, "ret")
    /\ UNCHANGED <<table, statics, interrupts, isr, pc, irq, target, rflags, locals,
                   bootLeft, freePages>>

\* The ret of switch_to and of schedule(): into the task's own code (for the
\* frame of setup_initial_stack: into its entry), or into the timer handler,
\* which then sends the end of interrupt and executes iretq.
Resume ==
    /\ sched[cpu] = "ret"
    /\ Sched(cpu, "out")
    /\ irq' = [irq EXCEPT ![cpu] = FALSE]
    /\ isr' = IF irq[cpu] THEN FALSE ELSE isr
    /\ interrupts' = IF irq[cpu] THEN TRUE ELSE interrupts
    /\ UNCHANGED <<table, statics, cpu, pc, target, rflags, locals, bootLeft, freePages>>

Schedule == Acquire \/ PickNext \/ PickNobody \/ DropGuard \/ switch_to \/ Resume

-----------------------------------------------------------------------------
(* The scheduler calls of a task's body                                      *)

\* cli; state = Ready; schedule().  The caller keeps IF clear afterwards.
yield_cpu(c) ==
    /\ "yield" \in Ops /\ At(c, "body")
    /\ interrupts' = FALSE
    /\ state' = [state EXCEPT ![CURRENT] = "Ready"]
    /\ Sched(c, "call")
    /\ Forget(c)
    /\ UNCHANGED <<pid, sleep_until, wait_for_pid, exit_code, stack_base, stack_top,
                   statics, cpu, isr, pc, irq, target, rflags, new, bootLeft, freePages>>

\* The conversion of sleep_ms: rounded down, at least one tick.
TicksToWait(ms) == LET t == (ms * TICKS_PER_SECOND) \div 1000
                   IN  IF t < 1 THEN 1 ELSE t

\* wake_at is computed from ticks() before cli ...
SleepRead(c) ==
    /\ "sleep" \in Ops /\ At(c, "body")
    /\ \E ms \in SleepMs : arg' = [arg EXCEPT ![c] = TicksToWait(ms)]
    /\ result' = [result EXCEPT ![c] = None]
    /\ Goto(c, "sleep")
    /\ UNCHANGED <<table, statics, hardware, irq, sched, target, rflags, new, bootLeft,
                   freePages>>

\* ... then cli; block_until(CURRENT, wake_at); schedule().
SleepBlock(c) ==
    /\ At(c, "sleep")
    /\ interrupts' = FALSE
    /\ state' = [state EXCEPT ![CURRENT] = "Blocked"]
    /\ sleep_until' = [sleep_until EXCEPT ![CURRENT] = arg[c]]
    /\ Forget(c)
    /\ Goto(c, "body")
    /\ Sched(c, "call")
    /\ UNCHANGED <<pid, wait_for_pid, exit_code, stack_base, stack_top, statics, cpu,
                   isr, irq, target, rflags, new, bootLeft, freePages>>

\* Faulty: only the first waiter.
WaitersFirst(c) == {s \in Slots : /\ state[s] = "Blocked" /\ wait_for_pid[s] = pid[c]
                                  /\ \A r \in Slots : (state[r] = "Blocked"
                                        /\ wait_for_pid[r] = pid[c]) => s <= r}

\* The waiters that exit() of the task in slot c makes ready.
Waiters(c) == {s \in Slots : state[s] = "Blocked" /\ wait_for_pid[s] = pid[c]}

\* Faulty: terminate does not store the code.
CodesAfterExitNot == [s \in Slots |-> IF s \in Waiters(CURRENT) THEN pid[CURRENT]
                                      ELSE exit_code[s]]

\* The code a task exits with is its pid here, so that codes tell tasks apart.
\* It is stored for the task and for each of its waiters.
CodesAfterExit == [s \in Slots |-> IF s = CURRENT \/ s \in Waiters(CURRENT)
                                   THEN pid[CURRENT] ELSE exit_code[s]]

\* Faulty: terminate frees the whole stack that the CPU still runs on.
FreedByExitAll == {stack_base[CURRENT], stack_top[CURRENT] - 1}

\* terminate frees the lower of the two stack pages.
FreedByExit == {stack_base[CURRENT]}

\* exit(code): wake the waiters, terminate (whose free_page asserts that the
\* page was in use), schedule(), unreachable!().
exit(c) ==
    /\ "exit" \in Ops /\ At(c, "body")
    /\ interrupts' = FALSE
    /\ state' = [s \in Slots |-> IF s = CURRENT THEN "Terminated"
                                 ELSE IF s \in Waiters(CURRENT) THEN "Ready" ELSE state[s]]
    /\ wait_for_pid' = [s \in Slots |-> IF s \in Waiters(CURRENT) THEN None
                                        ELSE wait_for_pid[s]]
    /\ exit_code' = CodesAfterExit
    /\ freePages' = freePages \cup FreedByExit
    /\ IF FreedByExit \cap freePages # {}
       THEN Goto(c, "panic") /\ UNCHANGED sched
       ELSE Goto(c, "unreachable") /\ Sched(c, "call")
    /\ Forget(c)
    /\ UNCHANGED <<pid, sleep_until, stack_base, stack_top, statics, cpu, isr, irq,
                   target, rflags, new, bootLeft>>

\* wait_for(p): from here a loop, each turn of which starts with cli.
wait_for(c) ==
    /\ "wait" \in Ops /\ At(c, "body")
    /\ \E p \in 0..MaxPid : arg' = [arg EXCEPT ![c] = p]
    /\ result' = [result EXCEPT ![c] = None]
    /\ Goto(c, "wait")
    /\ UNCHANGED <<table, statics, hardware, irq, sched, target, rflags, new, bootLeft,
                   freePages>>

\* find_pid(p) = Some(s): the first slot in use with that pid.
find_pid(p, s) == /\ state[s] # "Empty" /\ pid[s] = p
                  /\ \A r \in Slots : r < s => state[r] = "Empty" \/ pid[r] # p

\* None: sti, return -1.
WaitNone(c) ==
    /\ At(c, "wait")
    /\ \A s \in Slots : ~find_pid(arg[c], s)
    /\ interrupts' = TRUE
    /\ result' = [result EXCEPT ![c] = -1]
    /\ Goto(c, "body")
    /\ UNCHANGED <<table, statics, cpu, isr, irq, sched, target, rflags, new, arg,
                   bootLeft, freePages>>

\* A terminated task: take its code, free its slot, sti.
WaitReap(c) ==
    /\ At(c, "wait")
    /\ \E s \in Slots :
        /\ find_pid(arg[c], s) /\ state[s] = "Terminated"
        /\ result' = [result EXCEPT ![c] = exit_code[s]]
        /\ state' = [state EXCEPT ![s] = "Empty"]
    /\ interrupts' = TRUE
    /\ Goto(c, "body")
    /\ UNCHANGED <<pid, sleep_until, wait_for_pid, exit_code, stack_base, stack_top,
                   statics, cpu, isr, irq, sched, target, rflags, new, arg, bootLeft,
                   freePages>>

\* A living one: block, schedule(), and look again.
WaitBlock(c) ==
    /\ At(c, "wait")
    /\ \E s \in Slots : find_pid(arg[c], s) /\ state[s] # "Terminated"
    /\ interrupts' = FALSE
    /\ state' = [state EXCEPT ![CURRENT] = "Blocked"]
    /\ wait_for_pid' = [wait_for_pid EXCEPT ![CURRENT] = arg[c]]
    /\ Sched(c, "call")
    /\ UNCHANGED <<pid, sleep_until, exit_code, stack_base, stack_top, statics, cpu,
                   isr, pc, irq, target, rflags, locals, bootLeft, freePages>>

Calls(c) == \/ yield_cpu(c) \/ SleepRead(c) \/ SleepBlock(c) \/ exit(c)
            \/ wait_for(c) \/ WaitNone(c) \/ WaitReap(c) \/ WaitBlock(c)

-----------------------------------------------------------------------------
(* new_kernel_task, one action per store that another context can see.  It   *)
(* takes no lock and leaves IF as it is, so _start runs it with interrupts   *)
(* enabled.                                                                  *)

FirstEmpty(i) == /\ state[i] = "Empty"
                 /\ \A j \in Slots : j < i => state[j] # "Empty"
FirstFree(p)  == p \in freePages /\ \A q \in freePages : p <= q

\* alloc_page() = Some(p).
Take(p) == FirstFree(p) /\ freePages' = freePages \ {p}

\* None: .expect() of _start panics (the panic handler starts with cli and
\* never returns), a task's body goes on.
CreateFails(c) ==
    /\ Goto(c, IF c = Idle THEN "panic" ELSE "body")
    /\ interrupts' = (c # Idle /\ interrupts)
    /\ UNCHANGED <<cpu, isr>>

Creates(c) == \/ c = Idle /\ At(c, "boot") /\ bootLeft > 0
              \/ At(c, "body") /\ "create" \in Ops /\ NEXT_PID <= MaxPid

alloc_slot(c) ==
    /\ Creates(c)
    /\ IF \A i \in Slots : state[i] # "Empty"
       THEN CreateFails(c) /\ UNCHANGED new
       ELSE /\ \E i \in Slots : FirstEmpty(i) /\ new' = [new EXCEPT ![c].slot = i]
            /\ Goto(c, "c_page0") /\ UNCHANGED hardware
    /\ bootLeft' = IF c = Idle THEN bootLeft - 1 ELSE bootLeft
    /\ Forget(c)
    /\ UNCHANGED <<table, statics, irq, sched, target, rflags, freePages>>

AllocPhys0(c) ==
    /\ At(c, "c_page0")
    /\ IF freePages = {}
       THEN CreateFails(c) /\ new' = [new EXCEPT ![c] = NoTask] /\ UNCHANGED freePages
       ELSE /\ \E p \in freePages : Take(p) /\ new' = [new EXCEPT ![c].phys0 = p]
            /\ Goto(c, "c_page1") /\ UNCHANGED hardware
    /\ UNCHANGED <<table, statics, irq, sched, target, rflags, arg, result,
                   bootLeft>>

\* On failure phys0 is given back.
AllocPhys1(c) ==
    /\ At(c, "c_page1")
    /\ IF freePages = {}
       THEN /\ CreateFails(c)
            /\ new' = [new EXCEPT ![c] = NoTask]
            /\ freePages' = freePages \cup {new[c].phys0}
       ELSE /\ \E p \in freePages : Take(p) /\ new' = [new EXCEPT ![c].phys1 = p]
            /\ Goto(c, "c_pid") /\ UNCHANGED hardware
    /\ UNCHANGED <<table, statics, irq, sched, target, rflags, arg, result,
                   bootLeft>>

alloc_pid(c) ==
    /\ At(c, "c_pid")
    /\ new' = [new EXCEPT ![c].pid = NEXT_PID]
    /\ NEXT_PID' = NEXT_PID + 1
    /\ Goto(c, "c_frame")
    /\ UNCHANGED <<table, CURRENT, TICKS_ON_CURRENT, TASK_LOCK, hardware, irq, sched,
                   target, rflags, arg, result, bootLeft, freePages>>

\* setup_initial_stack; task.rsp, task.pid.  The new frame returns into entry,
\* outside any handler.
StoreFrame(c) ==
    /\ At(c, "c_frame")
    /\ LET s == new[c].slot IN
        /\ pc' = [pc EXCEPT ![c] = "c_ready", ![s] = "body"]
        /\ sched' = [sched EXCEPT ![s] = "ret"]
        /\ irq' = [irq EXCEPT ![s] = FALSE]
        /\ pid' = [pid EXCEPT ![s] = new[c].pid]
    /\ UNCHANGED <<state, sleep_until, wait_for_pid, exit_code, stack_base, stack_top,
                   statics, hardware, target, rflags, locals, bootLeft, freePages>>

StoreReady(c) ==
    /\ At(c, "c_ready")
    /\ state' = [state EXCEPT ![new[c].slot] = "Ready"]
    /\ Goto(c, "c_stack")
    /\ UNCHANGED <<pid, sleep_until, wait_for_pid, exit_code, stack_base, stack_top,
                   statics, hardware, irq, sched, target, rflags, locals, bootLeft,
                   freePages>>

StoreStack(c) ==
    /\ At(c, "c_stack")
    /\ stack_base' = [stack_base EXCEPT ![new[c].slot] = new[c].phys0]
    /\ stack_top' = [stack_top EXCEPT ![new[c].slot] = new[c].phys1 + 1]
    /\ Goto(c, "c_sleep")
    /\ UNCHANGED <<state, pid, sleep_until, wait_for_pid, exit_code, statics, hardware,
                   irq, sched, target, rflags, locals, bootLeft, freePages>>

StoreSleepUntil(c) ==
    /\ At(c, "c_sleep")
    /\ sleep_until' = [sleep_until EXCEPT ![new[c].slot] = None]
    /\ Goto(c, "c_wait")
    /\ UNCHANGED <<state, pid, wait_for_pid, exit_code, stack_base, stack_top, statics,
                   hardware, irq, sched, target, rflags, locals, bootLeft, freePages>>

StoreWaitForPid(c) ==
    /\ At(c, "c_wait")
    /\ wait_for_pid' = [wait_for_pid EXCEPT ![new[c].slot] = None]
    /\ Goto(c, "c_code")
    /\ UNCHANGED <<state, pid, sleep_until, exit_code, stack_base, stack_top, statics,
                   hardware, irq, sched, target, rflags, locals, bootLeft, freePages>>

\* The last field, and the return of Some(pid) to _start or to the body.
StoreExitCode(c) ==
    /\ At(c, "c_code")
    /\ exit_code' = [exit_code EXCEPT ![new[c].slot] = 0]
    /\ new' = [new EXCEPT ![c] = NoTask]
    /\ Goto(c, IF c = Idle THEN "boot" ELSE "body")
    /\ UNCHANGED <<state, pid, sleep_until, wait_for_pid, stack_base, stack_top, statics,
                   hardware, irq, sched, target, rflags, arg, result, bootLeft, freePages>>

new_kernel_task(c) ==
    \/ alloc_slot(c) \/ AllocPhys0(c) \/ AllocPhys1(c) \/ alloc_pid(c) \/ StoreFrame(c)
    \/ StoreReady(c) \/ StoreStack(c) \/ StoreSleepUntil(c) \/ StoreWaitForPid(c)
    \/ StoreExitCode(c)

\* _start ends in idle_task, which only waits for interrupts.
idle_task ==
    /\ At(Idle, "boot") /\ bootLeft = 0
    /\ Goto(Idle, "idle")
    /\ UNCHANGED <<table, statics, hardware, irq, sched, target, rflags, locals,
                   bootLeft, freePages>>

-----------------------------------------------------------------------------
CpuStep == Schedule \/ idle_task \/ \E c \in Slots : Calls(c) \/ new_kernel_task(c)

Next == Tick \/ CpuStep

Spec == Init /\ [][Next]_vars

\* The PIT ticks for ever and the CPU executes for ever; every body makes
\* another call (they are loops around sleep_ms or yield_cpu).
Fairness == WF_vars(Tick) /\ WF_vars(CpuStep)
FairSpec == Spec /\ Fairness

-----------------------------------------------------------------------------
(* Properties                                                                *)

FrameOrNone == Frames \cup {None}
SlotOrNone == Slots \cup {None}

\* Every variable keeps its type (static mut TASKS and the other statics of
\* task.rs and scheduler.rs, the registers, and the locals on the stacks).
TypeOK ==
    /\ state \in [Slots -> TaskState]
    /\ pid \in [Slots -> Nat]
    /\ sleep_until \in [Slots -> Nat \cup {None}]
    /\ wait_for_pid \in [Slots -> Nat \cup {None}]
    /\ exit_code \in [Slots -> Nat]
    /\ stack_base \in [Slots -> Frames]
    /\ stack_top \in [Slots -> Nat]
    /\ CURRENT \in Slots /\ TICKS_ON_CURRENT \in 0..(TIME_SLICE_TICKS - 1)
    /\ NEXT_PID \in Nat /\ TASK_LOCK \in BOOLEAN
    /\ cpu \in Slots /\ interrupts \in BOOLEAN /\ isr \in BOOLEAN
    /\ pc \in [Slots -> Locs]
    /\ irq \in [Slots -> BOOLEAN]
    /\ sched \in [Slots -> SchedLocs]
    /\ target \in [Slots -> Slots]
    /\ rflags \in [Slots -> BOOLEAN]
    /\ new \in [Slots -> [slot : SlotOrNone, phys0 : FrameOrNone, phys1 : FrameOrNone,
                          pid : Nat \cup {None}]]
    /\ arg \in [Slots -> Nat \cup {None}]
    /\ result \in [Slots -> Int \cup {None}]
    /\ bootLeft \in Nat
    /\ freePages \subseteq Frames

\* tick() calls schedule() before send_eoi, and a task that was switched to
\* from there runs with IRQ0 still in service: whatever the task does to IF
\* (wait_for executes sti), it is never interrupted by the timer.  Only the
\* idle context is, and the time slice is only ever counted against it.
OnlyIdleIsPreempted ==
    /\ \A s \in Slots \ {Idle} : ~irq[s]
    /\ cpu # Idle => isr
    /\ CURRENT # Idle => TICKS_ON_CURRENT = 0

\* schedule() runs with IF clear from its call to its return, also between
\* drop(_guard) and switch_to, where the lock is already free but CURRENT names
\* a task that does not run yet.
InterruptsOffInSchedule == sched[cpu] # "out" => ~interrupts

\* The spin in Spinlock::acquire is with IF clear on the only CPU: had it to
\* wait once, it would wait for ever.  The lock is free at every call.
SpinNeverWaits == sched[cpu] = "call" => ~TASK_LOCK

\* Outside the switch itself, CURRENT is the task whose stack is in use, and
\* at most this task is Running in the table: yield_cpu, sleep_ms, exit and
\* wait_for all write the state of CURRENT for their own.
RunningIsCurrent ==
    /\ sched[cpu] \notin {"picked", "dropped"} => CURRENT = cpu
    /\ \A s \in Slots : state[s] = "Running" => s = CURRENT

\* How many slots the scan of schedule() looks at until it comes to slot s.
Ahead(s) == IF s > CURRENT THEN s - CURRENT ELSE s + MAX_TASKS - CURRENT

\* A Ready task stays Ready until it is the one that schedule() chooses, and each
\* choice of another brings its turn nearer: with MAX_TASKS slots it is passed
\* over fewer than MAX_TASKS times, whoever yields, wakes, exits or is created
\* meanwhile.
NeverOvertaken ==
    [][\A s \in Slots : state[s] = "Ready" =>
          \/ state'[s] = "Running" /\ CURRENT' = s
          \/ state'[s] = "Ready" /\ (CURRENT' = CURRENT \/ Ahead(s)' < Ahead(s))]_vars

\* unreachable!("exit: schedule() returned") is not reached: schedule() never
\* takes an early return for a terminated task nor switches back to it.
ExitNeverReturns == ~(sched[cpu] = "out" /\ pc[cpu] = "unreachable")

\* A Blocked task has something left to wake it: a deadline, or a task with the
\* pid it waits for that has yet to exit.
BlockedIsWakeable ==
    \A s \in Slots : state[s] = "Blocked" =>
        \/ sleep_until[s] # None
        \/ \E r \in Slots : /\ state[r] \notin {"Empty", "Terminated"}
                            /\ pid[r] = wait_for_pid[s]

\* wait_for returns the code of the task it was called for, or -1, although
\* exit() writes the waiters' exit_code too and slots are reused.
WaitReturnsExitCode == \A s \in Slots : result[s] \in {None, -1, arg[s]}

Live == {s \in Slots \ {Idle} : state[s] \in {"Ready", "Running", "Blocked"}}

\* The stack pages of a live task; none while new_kernel_task has yet to store them.
Stack(s) == IF \E c \in Slots : pc[c] = "c_stack" /\ new[c].slot = s
            THEN {} ELSE {stack_base[s], stack_top[s] - 1}

\* The stacks of live tasks are allocated and disjoint, and the page that the
\* CPU's stack pointer is in is allocated, also after terminate() freed the
\* lower page of the stack it still runs on.
StackPagesOwned ==
    /\ \A s \in Live : Stack(s) \cap freePages = {}
    /\ \A s, t \in Live : s # t => Stack(s) \cap Stack(t) = {}
    /\ cpu # Idle => stack_top[cpu] - 1 \notin freePages

InCreation(locs) == Cardinality({c \in Slots : pc[c] \in locs})

\* Where the page frames are: free, in the two-page stacks of live tasks, held
\* by new_kernel_task in progress, and one for every task that ever exited
\* (terminate frees stack_base only); no path of new_kernel_task loses one.
PageBalance ==
    LET started == NEXT_PID - 1 - InCreation({"c_frame", "c_ready"})
        exited  == started - Cardinality(Live)
    IN  Cardinality(freePages) + 2 * Cardinality(Live) + exited
          + InCreation({"c_page1"}) + 2 * InCreation({"c_pid", "c_frame", "c_ready"})
        = Cardinality(Available)

\* The table, the switch and the calls implement the manager that tasks count
\* on: a blocked task goes on only after its deadline or the exit it waits for,
\* a dead one never does, the CPU never goes to either, and no two tasks have
\* the same pid.  What new_kernel_task has yet to store, and what is left in
\* the fields of a slot from before, is hidden.
WhileIn(st, field) == [s \in Slots |-> IF state[s] \in st THEN field[s] ELSE None]

Status == [s \in Slots |-> CASE state[s] = "Empty" -> "none"
                             [] state[s] \in {"Ready", "Running"} -> "alive"
                             [] state[s] = "Blocked" -> "blocked"
                             [] state[s] = "Terminated" -> "dead"]
Pids   == WhileIn(TaskState \ {"Empty"}, pid)
Left   == WhileIn({"Blocked"}, sleep_until)
Awaits == WhileIn({"Blocked"}, wait_for_pid)
Codes  == WhileIn({"Terminated"}, exit_code)

Manager == INSTANCE TaskManager WITH
    Tasks <- Slots, on <- CURRENT, status <- Status, pid <- Pids, left <- Left,
    awaits <- Awaits, code <- Codes

ImplementsTaskManager == Manager!Spec

\* The comment of recurse_forever in the shell: below a task's stack lies a
\* page that faults, so not one that is another task's stack.
GuardPageBelowStack ==
    \A s, t \in Live : s # t => (stack_base[s] - 1) \notin Stack(t)

\* The round robin reaches every Ready task, the idle context included, although
\* nothing preempts the tasks before it.
ReadyRuns == \A s \in Slots : state[s] = "Ready" ~> cpu = s

\* A task that sleeps runs again, although ticks are only taken in idle.
SleeperRuns == \A s \in Slots : state[s] = "Blocked" ~> state[s] = "Running"
=============================================================================
