-------------------------- MODULE SchedulerProofs ---------------------------
(***************************************************************************)
(* Proofs about Scheduler, for every number of tasks, every time slice and *)
(* every set of calls that tasks make.  Of the scheduler: switches are     *)
(* atomic, one task runs, and exit() does not return once _start has       *)
(* created its tasks.  Of the tasks, from then on: a blocked task can be   *)
(* woken, wait_for returns the code of the task it waits for, stacks are   *)
(* allocated and disjoint, whatever they call, new_kernel_task included;   *)
(* and with that the scheduler implements TaskManager.  While _start still *)
(* creates tasks some of these are false: see the README on the boot race. *)
(***************************************************************************)
EXTENDS Scheduler, FiniteSetTheorems, Arithmetic

\* The stack in use and the parked ones: only the idle stack ever carries a
\* handler frame, and while another stack is in use that frame lies below it,
\* with IRQ0 in service.
StackInv ==
    /\ \A s \in Slots : s # cpu => sched[s] = "ret"
    /\ \A s \in Slots \ {Idle} : ~irq[s]
    /\ irq[Idle] <=> isr
    /\ isr <=> (cpu # Idle \/ sched[Idle] # "out")
    /\ IF pc[Idle] = "panic" THEN ~isr /\ ~interrupts ELSE isr \/ interrupts

\* schedule(): the interrupt flag, the lock, and CURRENT against cpu.
LockInv ==
    /\ sched[cpu] # "out" => ~interrupts
    /\ TASK_LOCK <=> sched[cpu] \in {"locked", "picked"}
    /\ sched[cpu] \in {"locked", "picked"} => ~rflags[cpu]
    /\ sched[cpu] \in {"picked", "dropped"} => CURRENT = target[cpu]
    /\ sched[cpu] \notin {"picked", "dropped"} => CURRENT = cpu

\* The table: the idle context never blocks, and Running means CURRENT.
TableInv ==
    /\ state[Idle] \in {"Ready", "Running"}
    /\ \A s \in Slots : state[s] = "Running" => s = CURRENT
    /\ \/ sched[cpu] \in {"call", "locked"}
       \/ sched[cpu] = "out" /\ pc[cpu] = "panic"
       \/ state[CURRENT] = "Running"
    /\ CURRENT # Idle => TICKS_ON_CURRENT = 0

\* new_kernel_task: its locals are set when they are used, and the slot it
\* fills is neither the creator's nor the idle context's.
CreateInv ==
    /\ pc[Idle] \notin {"body", "sleep", "wait", "unreachable"}
    /\ \A c \in Slots : /\ new[c].slot # c /\ new[c].slot # Idle
                        /\ pc[c] \in CreateLocs => new[c].slot \in Slots
                        /\ pc[c] \in CreateLocs \ {"c_page0"} => new[c].phys0 \in Frames
                        /\ pc[c] \in CreateLocs \ {"c_page0", "c_page1"} =>
                                new[c].phys1 \in Frames
                        /\ pc[c] = "c_frame" => new[c].pid \in Nat

IInv == TypeOK /\ StackInv /\ LockInv /\ TableInv /\ CreateInv

\* The idle context owns a slot.
LEMMA IdleSlot == Idle \in Slots
  BY SchedulerAssumption DEF Idle, Slots

\* A step that leaves new alone keeps CreateInv if it takes no task into
\* new_kernel_task, nor back in it.
LEMMA CreateKept ==
    ASSUME CreateInv, new' = new,
           pc'[Idle] \notin {"body", "sleep", "wait", "unreachable"},
           \A d \in Slots : pc'[d] \in CreateLocs =>
              \/ pc'[d] = pc[d]
              \/ pc'[d] # "c_frame" /\ pc[d] \in CreateLocs \ {"c_page0", "c_page1"}
    PROVE  CreateInv'
  BY DEF CreateInv, CreateLocs

\* The stacks of the tasks that exist already: two frames each, and no frame of
\* one is free or any other's.
LEMMA InitStacks ==
    ASSUME Init
    PROVE  /\ stack_base \in [Slots -> Frames] /\ stack_top \in [Slots -> Nat]
           /\ freePages \subseteq Frames
           /\ \E frame \in [1..(2 * Made) -> Available] :
                /\ \A i, j \in 1..(2 * Made) : frame[i] = frame[j] => i = j
                /\ \A s \in Slots : s \in 1..Made =>
                      stack_base[s] = frame[2 * s - 1] /\ stack_top[s] - 1 = frame[2 * s]
                /\ freePages = Available \ {frame[i] : i \in 1..(2 * Made)}
<1>1. PICK frame \in [1..(2 * Made) -> Available] :
        /\ \A i, j \in DOMAIN frame : i < j => frame[i] < frame[j]
        /\ stack_base = [s \in Slots |-> IF s \in 1..Made THEN frame[2 * s - 1] ELSE 0]
        /\ stack_top = [s \in Slots |-> IF s \in 1..Made THEN frame[2 * s] + 1 ELSE 0]
        /\ freePages = Available \ {frame[i] : i \in DOMAIN frame}
  BY DEF Init
<1>2. DOMAIN frame = 1..(2 * Made) /\ Made \in Nat /\ Available \subseteq Nat
  BY SchedulerAssumption
<1>3. \A i, j \in 1..(2 * Made) : frame[i] = frame[j] => i = j
  <2> SUFFICES ASSUME NEW i \in 1..(2 * Made), NEW j \in 1..(2 * Made), i # j
               PROVE  frame[i] # frame[j]
    OBVIOUS
  <2>1. frame[i] \in Nat /\ frame[j] \in Nat
    BY <1>2
  <2>2. CASE i < j
    <3>1. frame[i] < frame[j]
      BY <1>1, <1>2, <2>2
    <3> QED
      BY <2>1, <3>1
  <2>3. CASE j < i
    <3>1. frame[j] < frame[i]
      BY <1>1, <1>2, <2>3
    <3> QED
      BY <2>1, <3>1
  <2> QED
    BY <1>2, <2>2, <2>3
<1>4. \A s \in 1..Made : /\ 2 * s - 1 \in 1..(2 * Made) /\ 2 * s \in 1..(2 * Made)
                          /\ frame[2 * s - 1] \in Available /\ frame[2 * s] \in Available
                          /\ frame[2 * s] \in Nat
  <2> SUFFICES ASSUME NEW s \in 1..Made
               PROVE  /\ 2 * s - 1 \in 1..(2 * Made) /\ 2 * s \in 1..(2 * Made)
                      /\ frame[2 * s - 1] \in Available /\ frame[2 * s] \in Available
                      /\ frame[2 * s] \in Nat
    OBVIOUS
  <2>1. 2 * s - 1 \in 1..(2 * Made) /\ 2 * s \in 1..(2 * Made)
    BY <1>2
  <2>2. frame[2 * s - 1] \in Available /\ frame[2 * s] \in Available
    BY <2>1
  <2> QED
    BY <1>2, <2>1, <2>2
<1>5. stack_base \in [Slots -> Frames]
  BY <1>1, <1>4 DEF Frames
<1>6. stack_top \in [Slots -> Nat]
  <2>1. ASSUME NEW s \in Slots PROVE (IF s \in 1..Made THEN frame[2 * s] + 1 ELSE 0) \in Nat
    BY <1>4
  <2> QED
    BY <1>1, <2>1
<1>7. freePages \subseteq Frames
  BY <1>1 DEF Frames
<1>8. \A s \in Slots : s \in 1..Made =>
                      stack_base[s] = frame[2 * s - 1] /\ stack_top[s] - 1 = frame[2 * s]
  <2> SUFFICES ASSUME NEW s \in Slots, s \in 1..Made
               PROVE  stack_base[s] = frame[2 * s - 1] /\ stack_top[s] - 1 = frame[2 * s]
    OBVIOUS
  <2>1. stack_base[s] = frame[2 * s - 1] /\ stack_top[s] = frame[2 * s] + 1
    BY <1>1
  <2>2. frame[2 * s] \in Nat
    BY <1>4
  <2> QED
    BY <2>1, <2>2
<1>9. freePages = Available \ {frame[i] : i \in 1..(2 * Made)}
  BY <1>1, <1>2
<1> QED
  BY <1>3, <1>5, <1>6, <1>7, <1>8, <1>9

\* The state _start is in after sti satisfies the invariant.
THEOREM InitInv == Init => IInv
<1> SUFFICES ASSUME Init PROVE IInv
  OBVIOUS
<1>0. stack_base \in [Slots -> Frames] /\ stack_top \in [Slots -> Nat] /\ freePages \subseteq Frames
  BY InitStacks
<1> USE SchedulerAssumption DEF Init, Slots, Idle, NoTask
<1>1. TypeOK
  <2>1. state \in [Slots -> TaskState] /\ pid \in [Slots -> Nat]
    BY DEF TaskState
  <2>2. stack_base \in [Slots -> Frames] /\ stack_top \in [Slots -> Nat]
    BY <1>0
  <2>3. sleep_until \in [Slots -> Nat \cup {None}] /\ wait_for_pid \in [Slots -> Nat \cup {None}]
    OBVIOUS
  <2>4. pc \in [Slots -> Locs] /\ sched \in [Slots -> SchedLocs]
    BY DEF Locs, SchedLocs
  <2>5. new \in [Slots -> [slot : SlotOrNone, phys0 : FrameOrNone, phys1 : FrameOrNone,
                           pid : Nat \cup {None}]]
    BY DEF SlotOrNone, FrameOrNone
  <2>6. freePages \subseteq Frames
    BY <1>0
  <2>7. irq \in [Slots -> BOOLEAN] /\ rflags \in [Slots -> BOOLEAN]
    OBVIOUS
  <2>8. /\ CURRENT \in Slots /\ cpu \in Slots /\ target \in [Slots -> Slots]
        /\ NEXT_PID \in Nat /\ bootLeft \in Nat
        /\ TICKS_ON_CURRENT \in 0..(TIME_SLICE_TICKS - 1)
    OBVIOUS
  <2>9. TASK_LOCK \in BOOLEAN /\ interrupts \in BOOLEAN /\ isr \in BOOLEAN
    OBVIOUS
  <2> QED
    BY <2>1, <2>2, <2>3, <2>4, <2>5, <2>6, <2>7, <2>8, <2>9 DEF TypeOK
<1>2. StackInv
  BY DEF StackInv
<1>3. LockInv
  BY DEF LockInv
<1>4. TableInv
  BY DEF TableInv
<1>5. CreateInv
  BY DEF CreateInv, CreateLocs
<1> QED
  BY <1>1, <1>2, <1>3, <1>4, <1>5 DEF IInv

-----------------------------------------------------------------------------
(* The timer                                                                 *)

\* The timer interrupts the idle context, outside schedule().
LEMMA InTick ==
    ASSUME IInv, IrqDelivered
    PROVE  cpu = Idle /\ sched[Idle] = "out" /\ CURRENT = Idle /\ state[Idle] = "Running"
<1>1. cpu = Idle /\ sched[Idle] = "out" /\ pc[Idle] # "panic"
  BY DEF IInv, StackInv, IrqDelivered
<1> QED
  BY <1>1 DEF IInv, LockInv, TableInv

\* wake_sleeping_tasks keeps the types of what it writes.
LEMMA WakeType ==
    ASSUME TypeOK, wake_sleeping_tasks
    PROVE  /\ state' \in [Slots -> TaskState]
           /\ sleep_until' \in [Slots -> Nat \cup {None}]
           /\ arg' \in [Slots -> Nat \cup {None}]
<1>1. \A d \in Nat \cup {None} : Elapse(d) \in Nat \cup {None}
  BY DEF Elapse
<1> QED
  BY <1>1 DEF TypeOK, wake_sleeping_tasks, TaskState

\* It wakes nobody but Blocked tasks, and makes them Ready.
LEMMA WakeReady ==
    ASSUME wake_sleeping_tasks
    PROVE  \A s \in Slots : state'[s] = state[s] \/ (state[s] = "Blocked" /\ state'[s] = "Ready")
  BY DEF wake_sleeping_tasks, Due

\* A tick inside the time slice keeps the invariant.
LEMMA Step_TickQuiet == ASSUME IInv, TickQuiet PROVE IInv'
<1> USE DEF IInv, TickQuiet, hardware, stacks
<1>0. cpu = Idle /\ sched[Idle] = "out" /\ CURRENT = Idle /\ state[Idle] = "Running"
  BY InTick
<1>1. TypeOK'
  <2>1. TICKS_ON_CURRENT' \in 0..(TIME_SLICE_TICKS - 1)
    BY SchedulerAssumption DEF TypeOK, SliceOver
  <2> QED
    BY <2>1, WakeType DEF TypeOK
<1>2. StackInv'
  BY DEF StackInv
<1>3. LockInv'
  BY DEF LockInv
<1>4. TableInv'
  BY <1>0, WakeReady, IdleSlot DEF TableInv
<1>5. CreateInv'
  BY CreateKept DEF CreateInv
<1> QED
  BY <1>1, <1>2, <1>3, <1>4, <1>5

\* The tick that ends the time slice keeps the invariant.
LEMMA Step_TickPreempt == ASSUME IInv, TickPreempt PROVE IInv'
<1> USE DEF IInv, TickPreempt, Sched
<1>0. cpu = Idle /\ sched[Idle] = "out" /\ CURRENT = Idle /\ state[Idle] = "Running"
  BY InTick
<1>1. TypeOK'
  <2>1. TICKS_ON_CURRENT' \in 0..(TIME_SLICE_TICKS - 1)
    BY SchedulerAssumption
  <2>2. sched' \in [Slots -> SchedLocs]
    BY DEF TypeOK, SchedLocs
  <2>3. irq' \in [Slots -> BOOLEAN]
    BY DEF TypeOK
  <2> QED
    BY <2>1, <2>2, <2>3, WakeType DEF TypeOK
<1>2. StackInv'
  BY <1>0, IdleSlot DEF StackInv, TypeOK, IrqDelivered
<1>3. LockInv'
  BY <1>0, IdleSlot DEF LockInv, TypeOK
<1>4. TableInv'
  BY <1>0, WakeReady, IdleSlot DEF TableInv, TypeOK
<1>5. CreateInv'
  BY CreateKept DEF CreateInv
<1> QED
  BY <1>1, <1>2, <1>3, <1>4, <1>5

-----------------------------------------------------------------------------
(* schedule()                                                                *)

\* Taking TASK_LOCK keeps the invariant.
LEMMA Step_Acquire == ASSUME IInv, Acquire PROVE IInv'
<1> USE DEF IInv, Acquire, Sched, table, locals
<1>1. TypeOK'
  <2>1. sched' \in [Slots -> SchedLocs]
    BY DEF TypeOK, SchedLocs
  <2>2. rflags' \in [Slots -> BOOLEAN]
    BY DEF TypeOK
  <2> QED
    BY <2>1, <2>2 DEF TypeOK
<1>2. StackInv'
  BY IdleSlot DEF StackInv, LockInv, TypeOK
<1>3. LockInv'
  BY DEF LockInv, TypeOK
<1>4. TableInv'
  BY DEF TableInv, TypeOK
<1>5. CreateInv'
  BY CreateKept DEF CreateInv
<1> QED
  BY <1>1, <1>2, <1>3, <1>4, <1>5

\* Choosing another task keeps the invariant.
LEMMA Step_PickNext == ASSUME IInv, PickNext PROVE IInv'
<1> USE DEF IInv, PickNext, Sched, hardware, locals
<1> PICK n \in Slots \ {CURRENT} :
        /\ FoundNext(Requeued, n)
        /\ CURRENT' = n
        /\ state' = [Requeued EXCEPT ![n] = "Running"]
        /\ target' = [target EXCEPT ![cpu] = n]
  OBVIOUS
<1>0. Requeued \in [Slots -> TaskState]
  BY DEF TypeOK, TaskState, Requeued
<1>1. TypeOK'
  <2>1. state' \in [Slots -> TaskState]
    BY <1>0 DEF TaskState
  <2>2. target' \in [Slots -> Slots] /\ sched' \in [Slots -> SchedLocs]
    BY DEF TypeOK, SchedLocs
  <2>3. TICKS_ON_CURRENT' \in 0..(TIME_SLICE_TICKS - 1)
    BY SchedulerAssumption
  <2> QED
    BY <2>1, <2>2, <2>3 DEF TypeOK
<1>2. StackInv'
  BY IdleSlot DEF StackInv, TypeOK
<1>3. LockInv'
  BY DEF LockInv, TypeOK
<1>4. TableInv'
  <2>1. \A s \in Slots : Requeued[s] = IF s = CURRENT /\ state[s] = "Running"
                                       THEN "Ready" ELSE state[s]
    BY DEF TypeOK, Requeued
  <2>2. \A s \in Slots : Requeued[s] # "Running"
    BY <2>1 DEF TableInv
  <2>3. state'[n] = "Running" /\ \A s \in Slots \ {n} : state'[s] = Requeued[s]
    BY <1>0
  <2>4. state'[Idle] \in {"Ready", "Running"}
    BY <2>1, <2>3, IdleSlot DEF TableInv
  <2>5. TICKS_ON_CURRENT' = 0
    OBVIOUS
  <2> QED
    BY <2>2, <2>3, <2>4, <2>5 DEF TableInv
<1>5. CreateInv'
  BY CreateKept DEF CreateInv
<1> QED
  BY <1>1, <1>2, <1>3, <1>4, <1>5

\* The early returns of schedule() keeps the invariant.
LEMMA Step_PickNobody == ASSUME IInv, PickNobody PROVE IInv'
<1> USE DEF IInv, PickNobody, Sched, locals
<1>0. cpu \in Slots /\ CURRENT = cpu
  BY DEF TypeOK, LockInv
<1>1. TypeOK'
  <2>1. state' \in [Slots -> TaskState]
    BY DEF TypeOK, TaskState, Requeued
  <2>2. sched' \in [Slots -> SchedLocs]
    BY DEF TypeOK, SchedLocs
  <2>3. interrupts' \in BOOLEAN
    BY <1>0 DEF TypeOK
  <2> QED
    BY <2>1, <2>2, <2>3 DEF TypeOK
<1>2. StackInv'
  BY IdleSlot DEF StackInv, LockInv, TypeOK
<1>3. LockInv'
  BY DEF LockInv, TypeOK
<1>4. TableInv'
  BY <1>0, IdleSlot DEF TableInv, TypeOK, Requeued
<1>5. CreateInv'
  BY CreateKept DEF CreateInv
<1> QED
  BY <1>1, <1>2, <1>3, <1>4, <1>5

\* Releasing TASK_LOCK before the switch keeps the invariant.
LEMMA Step_DropGuard == ASSUME IInv, DropGuard PROVE IInv'
<1> USE DEF IInv, DropGuard, Sched, table, locals
<1>1. TypeOK'
  <2>1. sched' \in [Slots -> SchedLocs]
    BY DEF TypeOK, SchedLocs
  <2>2. interrupts' \in BOOLEAN
    BY DEF TypeOK
  <2> QED
    BY <2>1, <2>2 DEF TypeOK
<1>2. StackInv'
  BY IdleSlot DEF StackInv, LockInv, TypeOK
<1>3. LockInv'
  BY DEF LockInv, TypeOK
<1>4. TableInv'
  BY DEF TableInv, TypeOK
<1>5. CreateInv'
  BY CreateKept DEF CreateInv
<1> QED
  BY <1>1, <1>2, <1>3, <1>4, <1>5

\* The context switch keeps the invariant.
LEMMA Step_switch_to == ASSUME IInv, switch_to PROVE IInv'
<1> USE DEF IInv, switch_to, Sched, table, statics, locals
<1>0. cpu \in Slots /\ target[cpu] \in Slots /\ sched \in [Slots -> SchedLocs]
  BY DEF TypeOK
<1>1. cpu' = target[cpu] /\ sched'[cpu] = "ret" /\ sched'[cpu'] = "ret"
  BY <1>0 DEF StackInv
<1>2. TypeOK'
  BY DEF TypeOK, SchedLocs
<1>3. StackInv'
  BY <1>0, <1>1, IdleSlot DEF StackInv
<1>4. LockInv'
  BY <1>0, <1>1 DEF LockInv
<1>5. TableInv'
  BY <1>0, <1>1 DEF TableInv
<1>6. CreateInv'
  BY CreateKept DEF CreateInv
<1> QED
  BY <1>2, <1>3, <1>4, <1>5, <1>6

\* The return from schedule(), with the end of interrupt and iretq under a handler keeps the invariant.
LEMMA Step_Resume == ASSUME IInv, Resume PROVE IInv'
<1> USE DEF IInv, Resume, Sched, table, statics, locals
<1>0. isr \in BOOLEAN /\ interrupts \in BOOLEAN /\ irq \in [Slots -> BOOLEAN]
  BY DEF TypeOK
<1>1. cpu \in Slots /\ sched \in [Slots -> SchedLocs]
  BY DEF TypeOK
<1>2. sched[cpu] = "ret" /\ sched'[cpu] = "out" /\ \A s \in Slots \ {cpu} : sched'[s] = sched[s]
  BY <1>1
<1>3. irq'[cpu] = FALSE /\ \A s \in Slots \ {cpu} : irq'[s] = irq[s]
  BY <1>0, <1>1
<1>4. TypeOK'
  <2>1. sched' \in [Slots -> SchedLocs]
    BY DEF TypeOK, SchedLocs
  <2>2. irq' \in [Slots -> BOOLEAN] /\ isr' \in BOOLEAN /\ interrupts' \in BOOLEAN
    BY <1>0
  <2> QED
    BY <2>1, <2>2 DEF TypeOK
<1>5. StackInv'
  <2>1. CASE cpu = Idle
    BY <1>0, <1>2, <1>3, <2>1, IdleSlot DEF StackInv
  <2>2. CASE cpu # Idle
    BY <1>0, <1>1, <1>2, <1>3, <2>2, IdleSlot DEF StackInv
  <2> QED
    BY <2>1, <2>2
<1>6. LockInv'
  BY <1>1, <1>2 DEF LockInv
<1>7. TableInv'
  BY <1>1, <1>2 DEF TableInv
<1>8. CreateInv'
  BY CreateKept DEF CreateInv
<1> QED
  BY <1>4, <1>5, <1>6, <1>7, <1>8

-----------------------------------------------------------------------------
(* The calls of tasks                                                        *)

\* What is known while the code of a task that is not idle executes.
LEMMA InTask ==
    ASSUME IInv, NEW c \in Slots, NEW l \in {"body", "sleep", "wait"}, At(c, l)
    PROVE  /\ c = cpu /\ c # Idle /\ CURRENT = c /\ isr /\ state[c] = "Running"
           /\ sched[Idle] = "ret" /\ state[Idle] = "Ready" /\ sched[c] = "out"
           /\ TICKS_ON_CURRENT = 0
<1>1. c = cpu /\ sched[c] = "out" /\ c # Idle
  BY DEF IInv, CreateInv, At
<1>2. CURRENT = c /\ isr /\ sched[Idle] = "ret"
  BY <1>1, IdleSlot DEF IInv, StackInv, LockInv
<1> QED
  BY <1>1, <1>2, IdleSlot DEF IInv, TableInv, At

\* sleep_ms waits for at least one tick.
LEMMA AtLeastOneTick == ASSUME NEW ms \in Nat PROVE TicksToWait(ms) \in Nat \ {0}
<1>1. ms * TICKS_PER_SECOND \in Nat
  BY SchedulerAssumption
<1>2. \A x \in Nat : x \div 1000 \in Nat
  OBVIOUS
<1> QED
  BY <1>1, <1>2 DEF TicksToWait

\* yield_cpu keeps the invariant.
LEMMA Step_yield_cpu == ASSUME IInv, NEW c \in Slots, yield_cpu(c) PROVE IInv'
<1> USE DEF IInv, yield_cpu, Sched, Forget, statics
<1>0. /\ c = cpu /\ c # Idle /\ CURRENT = c /\ isr /\ state[c] = "Running"
      /\ sched[Idle] = "ret" /\ state[Idle] = "Ready" /\ sched[c] = "out"
      /\ TICKS_ON_CURRENT = 0
  BY InTask
<1>1. TypeOK'
  <2>1. state' \in [Slots -> TaskState]
    BY DEF TypeOK, TaskState
  <2>2. sched' \in [Slots -> SchedLocs]
    BY DEF TypeOK, SchedLocs
  <2>3. arg' \in [Slots -> Nat \cup {None}] /\ result' \in [Slots -> Int \cup {None}]
    BY DEF TypeOK
  <2> QED
    BY <2>1, <2>2, <2>3 DEF TypeOK
<1>2. StackInv'
  BY <1>0, IdleSlot DEF StackInv, TypeOK
<1>3. LockInv'
  BY <1>0 DEF LockInv, StackInv, TypeOK
<1>4. TableInv'
  BY <1>0, IdleSlot DEF TableInv, TypeOK
<1>5. CreateInv'
  BY <1>0, IdleSlot, CreateKept DEF CreateInv, CreateLocs, TypeOK
<1> QED
  BY <1>1, <1>2, <1>3, <1>4, <1>5

\* sleep_ms reading the clock keeps the invariant.
LEMMA Step_SleepRead == ASSUME IInv, NEW c \in Slots, SleepRead(c) PROVE IInv'
<1> USE DEF IInv, SleepRead, Goto, table, statics, hardware
<1>0. /\ c = cpu /\ c # Idle /\ CURRENT = c /\ isr /\ state[c] = "Running"
      /\ sched[Idle] = "ret" /\ state[Idle] = "Ready" /\ sched[c] = "out"
      /\ TICKS_ON_CURRENT = 0
  BY InTask
<1>1. TypeOK'
  <2>1. arg' \in [Slots -> Nat \cup {None}]
    BY AtLeastOneTick, SchedulerAssumption DEF TypeOK
  <2>2. result' \in [Slots -> Int \cup {None}]
    BY DEF TypeOK
  <2>3. pc' \in [Slots -> Locs]
    BY DEF TypeOK, Locs
  <2> QED
    BY <2>1, <2>2, <2>3 DEF TypeOK
<1>2. StackInv'
  BY <1>0, IdleSlot DEF StackInv, TypeOK
<1>3. LockInv'
  BY <1>0 DEF LockInv, StackInv, TypeOK
<1>4. TableInv'
  BY <1>0, IdleSlot DEF TableInv, TypeOK
<1>5. CreateInv'
  BY <1>0, IdleSlot, CreateKept DEF CreateInv, CreateLocs, TypeOK
<1> QED
  BY <1>1, <1>2, <1>3, <1>4, <1>5

\* sleep_ms blocking its caller keeps the invariant.
LEMMA Step_SleepBlock == ASSUME IInv, NEW c \in Slots, SleepBlock(c) PROVE IInv'
<1> USE DEF IInv, SleepBlock, Goto, Sched, Forget, statics
<1>0. /\ c = cpu /\ c # Idle /\ CURRENT = c /\ isr /\ state[c] = "Running"
      /\ sched[Idle] = "ret" /\ state[Idle] = "Ready" /\ sched[c] = "out"
      /\ TICKS_ON_CURRENT = 0
  BY InTask
<1>1. TypeOK'
  <2>1. state' \in [Slots -> TaskState]
    BY DEF TypeOK, TaskState
  <2>2. pc' \in [Slots -> Locs]
    BY DEF TypeOK, Locs
  <2>3. sched' \in [Slots -> SchedLocs]
    BY DEF TypeOK, SchedLocs
  <2>4. arg' \in [Slots -> Nat \cup {None}] /\ result' \in [Slots -> Int \cup {None}]
    BY DEF TypeOK
  <2>5. sleep_until' \in [Slots -> Nat \cup {None}]
    BY DEF TypeOK
  <2> QED
    BY <2>1, <2>2, <2>3, <2>4, <2>5 DEF TypeOK
<1>2. StackInv'
  BY <1>0, IdleSlot DEF StackInv, TypeOK
<1>3. LockInv'
  BY <1>0 DEF LockInv, StackInv, TypeOK
<1>4. TableInv'
  BY <1>0, IdleSlot DEF TableInv, TypeOK
<1>5. CreateInv'
  BY <1>0, IdleSlot, CreateKept DEF CreateInv, CreateLocs, TypeOK
<1> QED
  BY <1>1, <1>2, <1>3, <1>4, <1>5

\* exit keeps the invariant.
LEMMA Step_exit == ASSUME IInv, NEW c \in Slots, exit(c) PROVE IInv'
<1> USE DEF IInv, exit, Goto, Sched, Forget, statics
<1>0. /\ c = cpu /\ c # Idle /\ CURRENT = c /\ isr /\ state[c] = "Running"
      /\ sched[Idle] = "ret" /\ state[Idle] = "Ready" /\ sched[c] = "out"
      /\ TICKS_ON_CURRENT = 0
  BY InTask
<1>1. TypeOK'
  <2>1. state' \in [Slots -> TaskState]
    BY DEF TypeOK, TaskState
  <2>2. wait_for_pid' \in [Slots -> Nat \cup {None}]
    BY DEF TypeOK
  <2>3. exit_code' \in [Slots -> Nat]
    BY DEF TypeOK, CodesAfterExit
  <2>4. freePages' \subseteq Frames
    BY DEF TypeOK, FreedByExit
  <2>5. pc' \in [Slots -> Locs]
    BY DEF TypeOK, Locs
  <2>6. sched' \in [Slots -> SchedLocs]
    BY DEF TypeOK, SchedLocs
  <2>7. arg' \in [Slots -> Nat \cup {None}] /\ result' \in [Slots -> Int \cup {None}]
    BY DEF TypeOK
  <2> QED
    BY <2>1, <2>2, <2>3, <2>4, <2>5, <2>6, <2>7 DEF TypeOK
<1>2. StackInv'
  BY <1>0, IdleSlot DEF StackInv, TypeOK
<1>3. LockInv'
  BY <1>0 DEF LockInv, StackInv, TypeOK
<1>4. TableInv'
  <2>1. \A s \in Slots : state'[s] # "Running"
    BY <1>0 DEF TableInv
  <2>2. state'[Idle] = "Ready"
    BY <1>0, IdleSlot
  <2>3. sched'[cpu] = "call" \/ (sched'[cpu] = "out" /\ pc'[cpu] = "panic")
    BY <1>0 DEF TypeOK
  <2> QED
    BY <1>0, <2>1, <2>2, <2>3 DEF TableInv
<1>5. CreateInv'
  <2>1. pc' = [pc EXCEPT ![c] = "panic"] \/ pc' = [pc EXCEPT ![c] = "unreachable"]
    OBVIOUS
  <2>2. pc \in [Slots -> Locs]
    BY DEF TypeOK
  <2>3. pc'[Idle] = pc[Idle] /\ \A d \in Slots : pc'[d] \in CreateLocs => pc'[d] = pc[d]
    BY <1>0, <2>1, <2>2, IdleSlot DEF CreateLocs
  <2> QED
    BY <2>3, CreateKept DEF CreateInv
<1> QED
  BY <1>1, <1>2, <1>3, <1>4, <1>5

\* Entering wait_for keeps the invariant.
LEMMA Step_wait_for == ASSUME IInv, NEW c \in Slots, wait_for(c) PROVE IInv'
<1> USE DEF IInv, wait_for, Goto, table, statics, hardware
<1>0. /\ c = cpu /\ c # Idle /\ CURRENT = c /\ isr /\ state[c] = "Running"
      /\ sched[Idle] = "ret" /\ state[Idle] = "Ready" /\ sched[c] = "out"
      /\ TICKS_ON_CURRENT = 0
  BY InTask
<1>1. TypeOK'
  <2>1. arg' \in [Slots -> Nat \cup {None}]
    BY SchedulerAssumption DEF TypeOK
  <2>2. result' \in [Slots -> Int \cup {None}]
    BY DEF TypeOK
  <2>3. pc' \in [Slots -> Locs]
    BY DEF TypeOK, Locs
  <2> QED
    BY <2>1, <2>2, <2>3 DEF TypeOK
<1>2. StackInv'
  BY <1>0, IdleSlot DEF StackInv, TypeOK
<1>3. LockInv'
  BY <1>0 DEF LockInv, StackInv, TypeOK
<1>4. TableInv'
  BY <1>0, IdleSlot DEF TableInv, TypeOK
<1>5. CreateInv'
  BY <1>0, IdleSlot, CreateKept DEF CreateInv, CreateLocs, TypeOK
<1> QED
  BY <1>1, <1>2, <1>3, <1>4, <1>5

\* wait_for of an unknown pid keeps the invariant.
LEMMA Step_WaitNone == ASSUME IInv, NEW c \in Slots, WaitNone(c) PROVE IInv'
<1> USE DEF IInv, WaitNone, Goto, table, statics
<1>0. /\ c = cpu /\ c # Idle /\ CURRENT = c /\ isr /\ state[c] = "Running"
      /\ sched[Idle] = "ret" /\ state[Idle] = "Ready" /\ sched[c] = "out"
      /\ TICKS_ON_CURRENT = 0
  BY InTask
<1>1. TypeOK'
  <2>1. result' \in [Slots -> Int \cup {None}]
    BY DEF TypeOK
  <2>2. pc' \in [Slots -> Locs]
    BY DEF TypeOK, Locs
  <2> QED
    BY <2>1, <2>2 DEF TypeOK
<1>2. StackInv'
  BY <1>0, IdleSlot DEF StackInv, TypeOK
<1>3. LockInv'
  BY <1>0 DEF LockInv, StackInv, TypeOK
<1>4. TableInv'
  BY <1>0, IdleSlot DEF TableInv, TypeOK
<1>5. CreateInv'
  BY <1>0, IdleSlot, CreateKept DEF CreateInv, CreateLocs, TypeOK
<1> QED
  BY <1>1, <1>2, <1>3, <1>4, <1>5

\* wait_for of a terminated task keeps the invariant.
LEMMA Step_WaitReap == ASSUME IInv, NEW c \in Slots, WaitReap(c) PROVE IInv'
<1> USE DEF IInv, WaitReap, Goto, statics
<1>0. /\ c = cpu /\ c # Idle /\ CURRENT = c /\ isr /\ state[c] = "Running"
      /\ sched[Idle] = "ret" /\ state[Idle] = "Ready" /\ sched[c] = "out"
      /\ TICKS_ON_CURRENT = 0
  BY InTask
<1> PICK s \in Slots : /\ state[s] = "Terminated"
                       /\ result' = [result EXCEPT ![c] = exit_code[s]]
                       /\ state' = [state EXCEPT ![s] = "Empty"]
  OBVIOUS
<1>1. TypeOK'
  <2>1. state' \in [Slots -> TaskState]
    BY DEF TypeOK, TaskState
  <2>2. result' \in [Slots -> Int \cup {None}]
    BY DEF TypeOK
  <2>3. pc' \in [Slots -> Locs]
    BY DEF TypeOK, Locs
  <2> QED
    BY <2>1, <2>2, <2>3 DEF TypeOK
<1>2. StackInv'
  BY <1>0, IdleSlot DEF StackInv, TypeOK
<1>3. LockInv'
  BY <1>0 DEF LockInv, StackInv, TypeOK
<1>4. TableInv'
  BY <1>0, IdleSlot DEF TableInv, TypeOK
<1>5. CreateInv'
  BY <1>0, IdleSlot, CreateKept DEF CreateInv, CreateLocs, TypeOK
<1> QED
  BY <1>1, <1>2, <1>3, <1>4, <1>5

\* wait_for of a living task keeps the invariant.
LEMMA Step_WaitBlock == ASSUME IInv, NEW c \in Slots, WaitBlock(c) PROVE IInv'
<1> USE DEF IInv, WaitBlock, Sched, statics, locals
<1>0. /\ c = cpu /\ c # Idle /\ CURRENT = c /\ isr /\ state[c] = "Running"
      /\ sched[Idle] = "ret" /\ state[Idle] = "Ready" /\ sched[c] = "out"
      /\ TICKS_ON_CURRENT = 0
  BY InTask
<1>1. TypeOK'
  <2>1. state' \in [Slots -> TaskState]
    BY DEF TypeOK, TaskState
  <2>2. sched' \in [Slots -> SchedLocs]
    BY DEF TypeOK, SchedLocs
  <2>3. wait_for_pid' \in [Slots -> Nat \cup {None}]
    BY DEF TypeOK
  <2> QED
    BY <2>1, <2>2, <2>3 DEF TypeOK
<1>2. StackInv'
  BY <1>0, IdleSlot DEF StackInv, TypeOK
<1>3. LockInv'
  BY <1>0 DEF LockInv, StackInv, TypeOK
<1>4. TableInv'
  BY <1>0, IdleSlot DEF TableInv, TypeOK
<1>5. CreateInv'
  BY <1>0, IdleSlot, CreateKept DEF CreateInv, CreateLocs, TypeOK
<1> QED
  BY <1>1, <1>2, <1>3, <1>4, <1>5

-----------------------------------------------------------------------------
(* new_kernel_task and the end of _start                                    *)

\* What is known while new_kernel_task executes, in any context.
LEMMA InCreate ==
    ASSUME IInv, NEW c \in Slots, NEW l \in CreateLocs \cup {"boot", "body"}, At(c, l)
    PROVE  /\ c = cpu /\ CURRENT = c /\ sched[c] = "out" /\ state[c] = "Running"
           /\ new[c].slot # c /\ new[c].slot # Idle
           /\ pc[c] = l
<1>1. c = cpu /\ sched[c] = "out" /\ pc[c] = l /\ l # "panic"
  BY DEF At, CreateLocs
<1> QED
  BY <1>1 DEF IInv, LockInv, TableInv, CreateInv

\* What new may be set to, one field at a time.
LEMMA NewType ==
    ASSUME TypeOK, NEW c \in Slots
    PROVE  /\ \A p \in Slots : [new EXCEPT ![c].slot = p] \in
                [Slots -> [slot : SlotOrNone, phys0 : FrameOrNone, phys1 : FrameOrNone,
                           pid : Nat \cup {None}]]
           /\ \A p \in Frames : [new EXCEPT ![c].phys0 = p] \in
                [Slots -> [slot : SlotOrNone, phys0 : FrameOrNone, phys1 : FrameOrNone,
                           pid : Nat \cup {None}]]
           /\ \A p \in Frames : [new EXCEPT ![c].phys1 = p] \in
                [Slots -> [slot : SlotOrNone, phys0 : FrameOrNone, phys1 : FrameOrNone,
                           pid : Nat \cup {None}]]
           /\ \A p \in Nat : [new EXCEPT ![c].pid = p] \in
                [Slots -> [slot : SlotOrNone, phys0 : FrameOrNone, phys1 : FrameOrNone,
                           pid : Nat \cup {None}]]
           /\ [new EXCEPT ![c] = NoTask] \in
                [Slots -> [slot : SlotOrNone, phys0 : FrameOrNone, phys1 : FrameOrNone,
                           pid : Nat \cup {None}]]
<1> DEFINE T == [slot : SlotOrNone, phys0 : FrameOrNone, phys1 : FrameOrNone, pid : Nat \cup {None}]
<1>1. new \in [Slots -> T]
  BY DEF TypeOK
<1>2. new[c] \in T
  BY <1>1
<1>3. None \in SlotOrNone /\ None \in FrameOrNone /\ Slots \subseteq SlotOrNone
      /\ Frames \subseteq FrameOrNone
  BY DEF SlotOrNone, FrameOrNone
<1>4. NoTask \in T
  BY <1>3 DEF NoTask
<1>5. \A t \in T : [new EXCEPT ![c] = t] \in [Slots -> T]
  BY <1>1
<1>6. /\ \A p \in Slots : [new[c] EXCEPT !.slot = p] \in T
      /\ \A p \in Frames : [new[c] EXCEPT !.phys0 = p] \in T
      /\ \A p \in Frames : [new[c] EXCEPT !.phys1 = p] \in T
      /\ \A p \in Nat : [new[c] EXCEPT !.pid = p] \in T
  BY <1>2, <1>3
<1> QED
  BY <1>1, <1>4, <1>5, <1>6

\* alloc_slot, found or not keeps the invariant.
LEMMA Step_alloc_slot == ASSUME IInv, NEW c \in Slots, alloc_slot(c) PROVE IInv'
<1> USE DEF IInv, alloc_slot, Goto, Forget, table, statics, hardware
<1>0. /\ c = cpu /\ CURRENT = c /\ sched[c] = "out" /\ state[c] = "Running"
      /\ pc[c] = IF c = Idle THEN "boot" ELSE "body"
      /\ c = Idle => bootLeft > 0
  <2>1. CASE c = Idle /\ At(c, "boot") /\ bootLeft > 0
    BY <2>1, InCreate DEF CreateInv
  <2>2. CASE At(c, "body")
    BY <2>2, InCreate DEF CreateInv
  <2> QED
    BY <2>1, <2>2 DEF Creates
<1>1. cpu' = cpu /\ isr' = isr
  BY DEF CreateFails
<1>2. CASE \A i \in Slots : state[i] # "Empty"
  <2>1. /\ pc' = [pc EXCEPT ![c] = IF c = Idle THEN "panic" ELSE "body"]
        /\ interrupts' = (c # Idle /\ interrupts) /\ new' = new
    BY <1>2 DEF CreateFails
  <2>2. TypeOK'
    <3>1. pc' \in [Slots -> Locs] /\ bootLeft' \in Nat
      BY <1>0, <2>1 DEF TypeOK, Locs
    <3>2. arg' \in [Slots -> Nat \cup {None}] /\ result' \in [Slots -> Int \cup {None}]
      BY DEF TypeOK
    <3>3. interrupts' \in BOOLEAN
      BY <2>1 DEF TypeOK
    <3> QED
      BY <1>1, <2>1, <3>1, <3>2, <3>3 DEF TypeOK
  <2>3. StackInv'
    BY <1>0, <1>1, <2>1, IdleSlot DEF StackInv, TypeOK
  <2>4. LockInv'
    BY <1>0, <1>1, <2>1, IdleSlot DEF LockInv, TypeOK
  <2>5. TableInv'
    BY <1>0, <1>1, <2>1, IdleSlot DEF TableInv, TypeOK
  <2>6. CreateInv'
    BY <1>0, <2>1, IdleSlot, CreateKept DEF TypeOK, CreateInv, CreateLocs
  <2> QED
    BY <2>2, <2>3, <2>4, <2>5, <2>6
<1>3. CASE ~ \A i \in Slots : state[i] # "Empty"
  <2>1. PICK i \in Slots : state[i] = "Empty" /\ new' = [new EXCEPT ![c].slot = i]
    BY <1>3 DEF FirstEmpty
  <2>2. pc' = [pc EXCEPT ![c] = "c_page0"] /\ interrupts' = interrupts
    BY <1>3
  <2>3. TypeOK'
    <3>1. pc' \in [Slots -> Locs] /\ bootLeft' \in Nat
      BY <1>0, <2>2 DEF TypeOK, Locs, CreateLocs
    <3>2. arg' \in [Slots -> Nat \cup {None}] /\ result' \in [Slots -> Int \cup {None}]
      BY DEF TypeOK
    <3> QED
      BY <1>1, <2>1, <2>2, <3>1, <3>2, NewType DEF TypeOK
  <2>4. StackInv'
    BY <1>0, <1>1, <2>2, IdleSlot DEF StackInv, TypeOK
  <2>5. LockInv'
    BY <1>0, <1>1, <2>2, IdleSlot DEF LockInv, TypeOK
  <2>6. TableInv'
    BY <1>0, <1>1, <2>2, IdleSlot DEF TableInv, TypeOK
  <2>7. CreateInv'
    <3>1. i # c /\ i # Idle
      BY <1>0, <2>1 DEF TableInv
    <3>2. new'[c].slot = i /\ \A d \in Slots \ {c} : new'[d] = new[d] /\ pc'[d] = pc[d]
      BY <2>1, <2>2 DEF TypeOK
    <3>3. pc'[c] = "c_page0"
      BY <2>2 DEF TypeOK
    <3>4. pc'[Idle] \notin {"body", "sleep", "wait", "unreachable"}
      BY <3>2, <3>3, IdleSlot DEF CreateInv
    <3> QED
      BY <2>1, <3>1, <3>2, <3>3, <3>4 DEF CreateInv
  <2> QED
    BY <2>3, <2>4, <2>5, <2>6, <2>7
<1> QED
  BY <1>2, <1>3

\* The first alloc_page of new_kernel_task keeps the invariant.
LEMMA Step_AllocPhys0 == ASSUME IInv, NEW c \in Slots, AllocPhys0(c) PROVE IInv'
<1> USE DEF IInv, AllocPhys0, Goto, table, statics, hardware
<1>0. /\ c = cpu /\ CURRENT = c /\ sched[c] = "out" /\ state[c] = "Running"
      /\ pc[c] = "c_page0" /\ new[c].slot # c /\ new[c].slot # Idle
  BY InCreate DEF CreateLocs
<1>1. cpu' = cpu /\ isr' = isr
  BY DEF CreateFails
<1>2. CASE freePages = {}
  <2>1. /\ pc' = [pc EXCEPT ![c] = IF c = Idle THEN "panic" ELSE "body"]
        /\ interrupts' = (c # Idle /\ interrupts)
        /\ new' = [new EXCEPT ![c] = NoTask]
    BY <1>2 DEF CreateFails
  <2>2. TypeOK'
    <3>1. pc' \in [Slots -> Locs]
      BY <2>1 DEF TypeOK, Locs
    <3>2. interrupts' \in BOOLEAN
      BY <2>1 DEF TypeOK
    <3>3. freePages' \subseteq Frames
      BY <1>2 DEF TypeOK
    <3> QED
      BY <1>1, <2>1, <3>1, <3>2, <3>3, NewType DEF TypeOK
  <2>3. StackInv'
    BY <1>0, <1>1, <2>1, IdleSlot DEF StackInv, TypeOK
  <2>4. LockInv'
    BY <1>0, <1>1, <2>1, IdleSlot DEF LockInv, TypeOK
  <2>5. TableInv'
    BY <1>0, <1>1, <2>1, IdleSlot DEF TableInv, TypeOK
  <2>6. CreateInv'
    <3>1. new'[c].slot = None /\ \A d \in Slots \ {c} : new'[d] = new[d] /\ pc'[d] = pc[d]
      BY <2>1 DEF TypeOK, NoTask
    <3>2. pc'[c] \in {"panic", "body"} /\ (c = Idle => pc'[c] = "panic")
      BY <2>1 DEF TypeOK
    <3>3. pc'[Idle] \notin {"body", "sleep", "wait", "unreachable"}
      BY <3>1, <3>2, IdleSlot DEF CreateInv
    <3>4. None # c /\ None # Idle
      BY SchedulerAssumption DEF Slots, Idle
    <3> QED
      BY <3>1, <3>2, <3>3, <3>4 DEF CreateInv, CreateLocs
  <2> QED
    BY <2>2, <2>3, <2>4, <2>5, <2>6
<1>3. CASE freePages # {}
  <2>1. PICK p \in freePages : Take(p) /\ new' = [new EXCEPT ![c].phys0 = p]
    BY <1>3
  <2>2. /\ pc' = [pc EXCEPT ![c] = "c_page1"] /\ interrupts' = interrupts
        /\ freePages' = freePages \ {p} /\ p \in Frames
    BY <1>3, <2>1 DEF Take, TypeOK
  <2>3. TypeOK'
    <3>1. pc' \in [Slots -> Locs] /\ freePages' \subseteq Frames
      BY <2>2 DEF TypeOK, Locs, CreateLocs
    <3> QED
      BY <1>1, <2>1, <2>2, <3>1, NewType DEF TypeOK
  <2>4. StackInv'
    BY <1>0, <1>1, <2>2, IdleSlot DEF StackInv, TypeOK
  <2>5. LockInv'
    BY <1>0, <1>1, <2>2, IdleSlot DEF LockInv, TypeOK
  <2>6. TableInv'
    BY <1>0, <1>1, <2>2, IdleSlot DEF TableInv, TypeOK
  <2>7. CreateInv'
    <3>1. /\ new'[c].slot = new[c].slot /\ new'[c].phys0 = p
          /\ \A d \in Slots \ {c} : new'[d] = new[d] /\ pc'[d] = pc[d]
      BY <2>1, <2>2 DEF TypeOK
    <3>2. pc'[c] = "c_page1"
      BY <2>2 DEF TypeOK
    <3>3. pc'[Idle] \notin {"body", "sleep", "wait", "unreachable"}
      BY <3>1, <3>2, IdleSlot DEF CreateInv
    <3> QED
      BY <1>0, <2>2, <3>1, <3>2, <3>3 DEF CreateInv, CreateLocs
  <2> QED
    BY <2>3, <2>4, <2>5, <2>6, <2>7
<1> QED
  BY <1>2, <1>3

\* The second alloc_page, with the give-back of the first on failure keeps the invariant.
LEMMA Step_AllocPhys1 == ASSUME IInv, NEW c \in Slots, AllocPhys1(c) PROVE IInv'
<1> USE DEF IInv, AllocPhys1, Goto, table, statics, hardware
<1>0. /\ c = cpu /\ CURRENT = c /\ sched[c] = "out" /\ state[c] = "Running"
      /\ pc[c] = "c_page1" /\ new[c].slot # c /\ new[c].slot # Idle
  BY InCreate DEF CreateLocs
<1>1. cpu' = cpu /\ isr' = isr
  BY DEF CreateFails
<1>2. CASE freePages = {}
  <2>1. /\ pc' = [pc EXCEPT ![c] = IF c = Idle THEN "panic" ELSE "body"]
        /\ interrupts' = (c # Idle /\ interrupts)
        /\ new' = [new EXCEPT ![c] = NoTask]
    BY <1>2 DEF CreateFails
  <2>2. TypeOK'
    <3>1. pc' \in [Slots -> Locs]
      BY <2>1 DEF TypeOK, Locs
    <3>2. interrupts' \in BOOLEAN
      BY <2>1 DEF TypeOK
    <3>3. freePages' \subseteq Frames
      BY <1>0, <1>2 DEF TypeOK, CreateInv, CreateLocs
    <3> QED
      BY <1>1, <2>1, <3>1, <3>2, <3>3, NewType DEF TypeOK
  <2>3. StackInv'
    BY <1>0, <1>1, <2>1, IdleSlot DEF StackInv, TypeOK
  <2>4. LockInv'
    BY <1>0, <1>1, <2>1, IdleSlot DEF LockInv, TypeOK
  <2>5. TableInv'
    BY <1>0, <1>1, <2>1, IdleSlot DEF TableInv, TypeOK
  <2>6. CreateInv'
    <3>1. new'[c].slot = None /\ \A d \in Slots \ {c} : new'[d] = new[d] /\ pc'[d] = pc[d]
      BY <2>1 DEF TypeOK, NoTask
    <3>2. pc'[c] \in {"panic", "body"} /\ (c = Idle => pc'[c] = "panic")
      BY <2>1 DEF TypeOK
    <3>3. pc'[Idle] \notin {"body", "sleep", "wait", "unreachable"}
      BY <3>1, <3>2, IdleSlot DEF CreateInv
    <3>4. None # c /\ None # Idle
      BY SchedulerAssumption DEF Slots, Idle
    <3> QED
      BY <3>1, <3>2, <3>3, <3>4 DEF CreateInv, CreateLocs
  <2> QED
    BY <2>2, <2>3, <2>4, <2>5, <2>6
<1>3. CASE freePages # {}
  <2>1. PICK p \in freePages : Take(p) /\ new' = [new EXCEPT ![c].phys1 = p]
    BY <1>3
  <2>2. /\ pc' = [pc EXCEPT ![c] = "c_pid"] /\ interrupts' = interrupts
        /\ freePages' = freePages \ {p} /\ p \in Frames
    BY <1>3, <2>1 DEF Take, TypeOK
  <2>3. TypeOK'
    <3>1. pc' \in [Slots -> Locs] /\ freePages' \subseteq Frames
      BY <2>2 DEF TypeOK, Locs, CreateLocs
    <3> QED
      BY <1>1, <2>1, <2>2, <3>1, NewType DEF TypeOK
  <2>4. StackInv'
    BY <1>0, <1>1, <2>2, IdleSlot DEF StackInv, TypeOK
  <2>5. LockInv'
    BY <1>0, <1>1, <2>2, IdleSlot DEF LockInv, TypeOK
  <2>6. TableInv'
    BY <1>0, <1>1, <2>2, IdleSlot DEF TableInv, TypeOK
  <2>7. CreateInv'
    <3>1. /\ new'[c].slot = new[c].slot /\ new'[c].phys1 = p /\ new'[c].phys0 = new[c].phys0
          /\ \A d \in Slots \ {c} : new'[d] = new[d] /\ pc'[d] = pc[d]
      BY <2>1, <2>2 DEF TypeOK
    <3>2. pc'[c] = "c_pid"
      BY <2>2 DEF TypeOK
    <3>3. pc'[Idle] \notin {"body", "sleep", "wait", "unreachable"}
      BY <3>1, <3>2, IdleSlot DEF CreateInv
    <3> QED
      BY <1>0, <2>2, <3>1, <3>2, <3>3 DEF CreateInv, CreateLocs
  <2> QED
    BY <2>3, <2>4, <2>5, <2>6, <2>7
<1> QED
  BY <1>2, <1>3

\* alloc_pid keeps the invariant.
LEMMA Step_alloc_pid == ASSUME IInv, NEW c \in Slots, alloc_pid(c) PROVE IInv'
<1> USE DEF IInv, alloc_pid, Goto, table, hardware
<1>0. /\ c = cpu /\ CURRENT = c /\ sched[c] = "out" /\ state[c] = "Running"
      /\ pc[c] = "c_pid" /\ new[c].slot # c /\ new[c].slot # Idle
  BY InCreate DEF CreateLocs
<1>1. TypeOK'
  <2>1. pc' \in [Slots -> Locs] /\ NEXT_PID' \in Nat
    BY DEF TypeOK, Locs, CreateLocs
  <2>2. NEXT_PID \in Nat
    BY DEF TypeOK
  <2> QED
    BY <2>1, <2>2, NewType DEF TypeOK
<1>2. StackInv'
  BY <1>0, IdleSlot DEF StackInv, TypeOK
<1>3. LockInv'
  BY <1>0 DEF LockInv, TypeOK
<1>4. TableInv'
  BY <1>0 DEF TableInv, TypeOK
<1>5. CreateInv'
  <2>1. /\ new'[c].slot = new[c].slot /\ new'[c].phys0 = new[c].phys0
        /\ new'[c].phys1 = new[c].phys1 /\ new'[c].pid = NEXT_PID
        /\ \A d \in Slots \ {c} : new'[d] = new[d] /\ pc'[d] = pc[d]
    BY DEF TypeOK
  <2>2. pc'[c] = "c_frame" /\ NEXT_PID \in Nat
    BY DEF TypeOK
  <2>3. pc'[Idle] \notin {"body", "sleep", "wait", "unreachable"}
    BY <2>1, <2>2, IdleSlot DEF CreateInv
  <2> QED
    BY <1>0, <2>1, <2>2, <2>3 DEF CreateInv, CreateLocs
<1> QED
  BY <1>1, <1>2, <1>3, <1>4, <1>5

\* setup_initial_stack, for a slot that is not in use keeps the invariant.
LEMMA Step_StoreFrame == ASSUME IInv, NEW c \in Slots, StoreFrame(c) PROVE IInv'
<1> USE DEF IInv, statics, hardware, locals
<1> DEFINE s == new[c].slot
<1>0. /\ c = cpu /\ CURRENT = c /\ sched[c] = "out" /\ state[c] = "Running"
      /\ pc[c] = "c_frame" /\ s # c /\ s # Idle
  BY InCreate DEF CreateLocs, StoreFrame
<1>1. s \in Slots /\ new[c].pid \in Nat
  BY <1>0 DEF CreateInv, CreateLocs
<1>2. /\ pc' = [pc EXCEPT ![c] = "c_ready", ![s] = "body"]
      /\ sched' = [sched EXCEPT ![s] = "ret"]
      /\ irq' = [irq EXCEPT ![s] = FALSE]
      /\ pid' = [pid EXCEPT ![s] = new[c].pid]
      /\ UNCHANGED <<state, sleep_until, wait_for_pid, exit_code, stack_base, stack_top,
                     statics, hardware, target, rflags, locals, bootLeft, freePages>>
  BY DEF StoreFrame
<1> HIDE DEF s
<1>3. TypeOK'
  <2>1. pc' \in [Slots -> Locs] /\ sched' \in [Slots -> SchedLocs] /\ pid' \in [Slots -> Nat]
    BY <1>1, <1>2 DEF TypeOK, Locs, CreateLocs, SchedLocs
  <2>2. irq' \in [Slots -> BOOLEAN]
    BY <1>2 DEF TypeOK
  <2> QED
    BY <1>2, <2>1, <2>2 DEF TypeOK
<1>4. /\ sched'[s] = "ret" /\ \A d \in Slots \ {s} : sched'[d] = sched[d]
      /\ ~irq'[s] /\ \A d \in Slots \ {s} : irq'[d] = irq[d]
  BY <1>1, <1>2 DEF TypeOK
<1>5. /\ pc'[s] = "body" /\ pc'[c] = "c_ready"
      /\ \A d \in Slots \ {s, c} : pc'[d] = pc[d]
  BY <1>0, <1>1, <1>2 DEF TypeOK
<1>6. \/ pc'[Idle] = "c_ready" /\ c = Idle
      \/ pc'[Idle] = pc[Idle] /\ Idle # c
  BY <1>0, <1>5, IdleSlot
<1>7. StackInv'
  BY <1>0, <1>2, <1>4, <1>6, IdleSlot DEF StackInv
<1>8. LockInv'
  BY <1>0, <1>2, <1>4 DEF LockInv
<1>9. TableInv'
  BY <1>0, <1>2, <1>4 DEF TableInv
<1>10. CreateInv'
  <2>1. pc'[Idle] \notin {"body", "sleep", "wait", "unreachable"}
    BY <1>6 DEF CreateInv
  <2>2. \A d \in Slots : pc'[d] \in CreateLocs => pc'[d] = pc[d] \/ (d = c)
    BY <1>5 DEF CreateLocs
  <2> QED
    BY <1>0, <1>2, <1>5, <2>1, <2>2, CreateKept DEF CreateLocs
<1> QED
  BY <1>3, <1>7, <1>8, <1>9, <1>10

\* The store of state = Ready keeps the invariant.
LEMMA Step_StoreReady == ASSUME IInv, NEW c \in Slots, StoreReady(c) PROVE IInv'
<1> USE DEF IInv, StoreReady, Goto, statics, hardware, locals
<1>0. /\ c = cpu /\ CURRENT = c /\ sched[c] = "out" /\ state[c] = "Running"
      /\ pc[c] = "c_ready" /\ new[c].slot # c /\ new[c].slot # Idle
  BY InCreate DEF CreateLocs
<1>1. TypeOK'
  BY DEF TypeOK, TaskState, Locs, CreateLocs
<1>2. StackInv'
  BY <1>0, IdleSlot DEF StackInv, TypeOK
<1>3. LockInv'
  BY <1>0 DEF LockInv, TypeOK
<1>4. TableInv'
  BY <1>0, IdleSlot DEF TableInv, TypeOK
<1>5. CreateInv'
  BY <1>0, IdleSlot, CreateKept DEF CreateInv, CreateLocs, TypeOK
<1> QED
  BY <1>1, <1>2, <1>3, <1>4, <1>5

\* The stores of stack_base and stack_top keeps the invariant.
LEMMA Step_StoreStack == ASSUME IInv, NEW c \in Slots, StoreStack(c) PROVE IInv'
<1> USE DEF IInv, StoreStack, Goto, statics, hardware, locals
<1>0. /\ c = cpu /\ CURRENT = c /\ sched[c] = "out" /\ state[c] = "Running"
      /\ pc[c] = "c_stack" /\ new[c].slot # c /\ new[c].slot # Idle
  BY InCreate DEF CreateLocs
<1>1. TypeOK'
  <2>1. new[c].phys0 \in Frames /\ new[c].phys1 + 1 \in Nat
    <3>1. new[c].phys0 \in Frames /\ new[c].phys1 \in Frames
      BY <1>0 DEF CreateInv, CreateLocs
    <3>2. \A f \in Frames : f \in Nat /\ f + 1 \in Nat
      BY SchedulerAssumption DEF Frames
    <3> QED
      BY ONLY <3>1, <3>2, Zenon
  <2>2. stack_base' \in [Slots -> Frames] /\ stack_top' \in [Slots -> Nat]
    BY <2>1 DEF TypeOK
  <2>3. pc' \in [Slots -> Locs]
    BY DEF TypeOK, Locs, CreateLocs
  <2> QED
    BY <2>2, <2>3 DEF TypeOK
<1>2. StackInv'
  BY <1>0, IdleSlot DEF StackInv, TypeOK
<1>3. LockInv'
  BY <1>0 DEF LockInv, TypeOK
<1>4. TableInv'
  BY <1>0, IdleSlot DEF TableInv, TypeOK
<1>5. CreateInv'
  BY <1>0, IdleSlot, CreateKept DEF CreateInv, CreateLocs, TypeOK
<1> QED
  BY <1>1, <1>2, <1>3, <1>4, <1>5

\* The store of sleep_until = 0 keeps the invariant.
LEMMA Step_StoreSleepUntil == ASSUME IInv, NEW c \in Slots, StoreSleepUntil(c) PROVE IInv'
<1> USE DEF IInv, StoreSleepUntil, Goto, statics, hardware, locals
<1>0. /\ c = cpu /\ CURRENT = c /\ sched[c] = "out" /\ state[c] = "Running"
      /\ pc[c] = "c_sleep" /\ new[c].slot # c /\ new[c].slot # Idle
  BY InCreate DEF CreateLocs
<1>1. TypeOK'
  <2>1. sleep_until' \in [Slots -> Nat \cup {None}]
    BY DEF TypeOK
  <2>2. pc' \in [Slots -> Locs]
    BY DEF TypeOK, Locs, CreateLocs
  <2> QED
    BY <2>1, <2>2 DEF TypeOK
<1>2. StackInv'
  BY <1>0, IdleSlot DEF StackInv, TypeOK
<1>3. LockInv'
  BY <1>0 DEF LockInv, TypeOK
<1>4. TableInv'
  BY <1>0 DEF TableInv, TypeOK
<1>5. CreateInv'
  BY <1>0, IdleSlot, CreateKept DEF CreateInv, CreateLocs, TypeOK
<1> QED
  BY <1>1, <1>2, <1>3, <1>4, <1>5

\* The store of wait_for_pid = None keeps the invariant.
LEMMA Step_StoreWaitForPid == ASSUME IInv, NEW c \in Slots, StoreWaitForPid(c) PROVE IInv'
<1> USE DEF IInv, StoreWaitForPid, Goto, statics, hardware, locals
<1>0. /\ c = cpu /\ CURRENT = c /\ sched[c] = "out" /\ state[c] = "Running"
      /\ pc[c] = "c_wait" /\ new[c].slot # c /\ new[c].slot # Idle
  BY InCreate DEF CreateLocs
<1>1. TypeOK'
  <2>1. wait_for_pid' \in [Slots -> Nat \cup {None}]
    BY DEF TypeOK
  <2>2. pc' \in [Slots -> Locs]
    BY DEF TypeOK, Locs, CreateLocs
  <2> QED
    BY <2>1, <2>2 DEF TypeOK
<1>2. StackInv'
  BY <1>0, IdleSlot DEF StackInv, TypeOK
<1>3. LockInv'
  BY <1>0 DEF LockInv, TypeOK
<1>4. TableInv'
  BY <1>0 DEF TableInv, TypeOK
<1>5. CreateInv'
  BY <1>0, IdleSlot, CreateKept DEF CreateInv, CreateLocs, TypeOK
<1> QED
  BY <1>1, <1>2, <1>3, <1>4, <1>5

\* The store of exit_code = 0 keeps the invariant.
LEMMA Step_StoreExitCode == ASSUME IInv, NEW c \in Slots, StoreExitCode(c) PROVE IInv'
<1> USE DEF IInv, StoreExitCode, Goto, statics, hardware
<1>0. /\ c = cpu /\ CURRENT = c /\ sched[c] = "out" /\ state[c] = "Running"
      /\ pc[c] = "c_code" /\ new[c].slot # c /\ new[c].slot # Idle
  BY InCreate DEF CreateLocs
<1>1. TypeOK'
  <2>1. exit_code' \in [Slots -> Nat]
    BY DEF TypeOK
  <2>2. pc' \in [Slots -> Locs]
    BY DEF TypeOK, Locs
  <2> QED
    BY <2>1, <2>2, NewType DEF TypeOK
<1>2. StackInv'
  BY <1>0, IdleSlot DEF StackInv, TypeOK
<1>3. LockInv'
  BY <1>0 DEF LockInv, TypeOK
<1>4. TableInv'
  BY <1>0 DEF TableInv, TypeOK
<1>5. CreateInv'
  <2>1. new'[c].slot = None /\ \A d \in Slots \ {c} : new'[d] = new[d] /\ pc'[d] = pc[d]
    BY DEF TypeOK, NoTask
  <2>2. pc'[c] = IF c = Idle THEN "boot" ELSE "body"
    BY DEF TypeOK
  <2>3. pc'[Idle] \notin {"body", "sleep", "wait", "unreachable"}
    BY <2>1, <2>2, IdleSlot DEF CreateInv
  <2>4. None # c /\ None # Idle
    BY SchedulerAssumption DEF Slots, Idle
  <2> QED
    BY <2>1, <2>2, <2>3, <2>4 DEF CreateInv, CreateLocs
<1> QED
  BY <1>1, <1>2, <1>3, <1>4, <1>5

\* Entering idle_task keeps the invariant.
LEMMA Step_idle_task == ASSUME IInv, idle_task PROVE IInv'
<1> USE DEF IInv, idle_task, At, Goto, table, statics, hardware, locals
<1>1. TypeOK'
  BY DEF TypeOK, Locs
<1>2. StackInv'
  BY IdleSlot DEF StackInv, TypeOK
<1>3. LockInv'
  BY DEF LockInv, TypeOK
<1>4. TableInv'
  BY IdleSlot DEF TableInv, TypeOK
<1>5. CreateInv'
  BY IdleSlot, CreateKept DEF CreateInv, CreateLocs, TypeOK
<1> QED
  BY <1>1, <1>2, <1>3, <1>4, <1>5

-----------------------------------------------------------------------------
(* The theorems                                                              *)

\* Every step keeps the invariant.
LEMMA Step == ASSUME IInv, [Next]_vars PROVE IInv'
<1>1. CASE Tick
  BY <1>1, Step_TickQuiet, Step_TickPreempt DEF Tick
<1>2. CASE Schedule
  BY <1>2, Step_Acquire, Step_PickNext, Step_PickNobody, Step_DropGuard, Step_switch_to,
     Step_Resume DEF Schedule
<1>3. CASE idle_task
  BY <1>3, Step_idle_task
<1>4. ASSUME NEW c \in Slots, Calls(c) PROVE IInv'
  BY <1>4, Step_yield_cpu, Step_SleepRead, Step_SleepBlock, Step_exit, Step_wait_for,
     Step_WaitNone, Step_WaitReap, Step_WaitBlock DEF Calls
<1>5. ASSUME NEW c \in Slots, new_kernel_task(c) PROVE IInv'
  BY <1>5, Step_alloc_slot, Step_AllocPhys0, Step_AllocPhys1, Step_alloc_pid,
     Step_StoreFrame, Step_StoreReady, Step_StoreStack, Step_StoreSleepUntil,
     Step_StoreWaitForPid, Step_StoreExitCode DEF new_kernel_task
<1>6. CASE UNCHANGED vars
  BY <1>6 DEF vars, table, statics, hardware, stacks, locals, IInv, TypeOK, StackInv,
     LockInv, TableInv, CreateInv
<1> QED
  BY <1>1, <1>2, <1>3, <1>4, <1>5, <1>6 DEF Next, CpuStep

\* The invariant of the scheduler holds in every behaviour, whichever calls
\* tasks make and even when _start creates tasks that create tasks.
THEOREM Invariance == Spec => []IInv
<1>1. Init => IInv
  BY InitInv
<1>2. IInv /\ [Next]_vars => IInv'
  BY Step
<1> QED
  BY <1>1, <1>2, PTL DEF Spec

\* Type correctness of the task table, the statics and the stacks.
THEOREM TypeCorrect == Spec => []TypeOK
<1>1. IInv => TypeOK
  BY DEF IInv
<1> QED
  BY <1>1, Invariance, PTL

\* Tasks are never interrupted by the timer: only the idle context is.
THEOREM Preemption == Spec => []OnlyIdleIsPreempted
<1>1. IInv => OnlyIdleIsPreempted
  BY DEF IInv, StackInv, TableInv, OnlyIdleIsPreempted
<1> QED
  BY <1>1, Invariance, PTL

\* schedule() is not interrupted, also after it gave up the lock.
THEOREM ScheduleAtomic == Spec => []InterruptsOffInSchedule
<1>1. IInv => InterruptsOffInSchedule
  BY DEF IInv, LockInv, InterruptsOffInSchedule
<1> QED
  BY <1>1, Invariance, PTL

\* Spinlock::acquire finds TASK_LOCK free, so its spin with IF clear on the
\* only CPU is no deadlock.
THEOREM LockFree == Spec => []SpinNeverWaits
<1>1. IInv => SpinNeverWaits
  BY DEF IInv, LockInv, SpinNeverWaits
<1> QED
  BY <1>1, Invariance, PTL

\* CURRENT is the context that executes, and nobody else is Running.
THEOREM OneRunning == Spec => []RunningIsCurrent
<1>1. IInv => RunningIsCurrent
  BY DEF IInv, LockInv, TableInv, RunningIsCurrent
<1> QED
  BY <1>1, Invariance, PTL

-----------------------------------------------------------------------------
(* The round-robin scan                                                      *)

\* Scan(d) walks through the slots after CURRENT and then those before it.
LEMMA ScanValue ==
    ASSUME CURRENT \in Slots, NEW d \in 1..(MAX_TASKS - 1)
    PROVE  /\ Scan(d) \in Slots \ {CURRENT}
           /\ Scan(d) = IF CURRENT + d < MAX_TASKS THEN CURRENT + d ELSE CURRENT + d - MAX_TASKS
<1>1. \A x \in 0..(MAX_TASKS - 1) : x % MAX_TASKS = x
  BY SchedulerAssumption
<1>2. \A x \in MAX_TASKS..(2 * MAX_TASKS - 1) : x % MAX_TASKS = x - MAX_TASKS
  BY SchedulerAssumption
<1>3. MAX_TASKS \in Nat /\ CURRENT \in 0..(MAX_TASKS - 1)
  BY SchedulerAssumption DEF Slots
<1>4. Scan(d) = IF CURRENT + d < MAX_TASKS THEN CURRENT + d ELSE CURRENT + d - MAX_TASKS
  BY <1>1, <1>2, <1>3 DEF Scan
<1> QED
  BY <1>3, <1>4 DEF Slots

\* The scan finds somebody if anybody but the caller is Ready.
LEMMA ScanFinds ==
    ASSUME CURRENT \in Slots, NEW st, NEW r \in Slots \ {CURRENT}, st[r] = "Ready"
    PROVE  \E n \in Slots \ {CURRENT} : FoundNext(st, n)
<1> DEFINE D == {d \in 1..(MAX_TASKS - 1) : st[Scan(d)] = "Ready"}
<1>0. MAX_TASKS \in Nat /\ CURRENT \in 0..(MAX_TASKS - 1) /\ r \in 0..(MAX_TASKS - 1) /\ r # CURRENT
  BY SchedulerAssumption DEF Slots
<1>1. \E d \in 1..(MAX_TASKS - 1) : Scan(d) = r
  <2> DEFINE e == IF r > CURRENT THEN r - CURRENT ELSE r + MAX_TASKS - CURRENT
  <2>1. e \in 1..(MAX_TASKS - 1)
    BY <1>0
  <2>2. (IF CURRENT + e < MAX_TASKS THEN CURRENT + e ELSE CURRENT + e - MAX_TASKS) = r
    BY <1>0
  <2>3. Scan(e) = r
    BY <2>1, <2>2, ScanValue
  <2> QED
    BY <2>1, <2>3
<1>2. D # {} /\ D \in SUBSET Nat
  BY <1>0, <1>1
<1>3. PICK m \in D : \A x \in D : m <= x
  BY <1>2, Least
<1>4. \A e \in 1..(m - 1) : st[Scan(e)] # "Ready"
  BY <1>0, <1>3
<1>5. FoundNext(st, Scan(m))
  BY <1>0, <1>3, <1>4 DEF FoundNext
<1> QED
  BY <1>3, <1>5, ScanValue

-----------------------------------------------------------------------------
(* Nobody is overtaken                                                       *)

\* The scan comes to slot s at its distance, CURRENT itself last.
LEMMA AheadIs ==
    ASSUME CURRENT \in Slots, NEW s \in Slots
    PROVE  Ahead(s) \in 1..MAX_TASKS /\ Scan(Ahead(s)) = s
<1>1. /\ MAX_TASKS \in Nat \ {0} /\ CURRENT \in 0..(MAX_TASKS - 1)
      /\ s \in 0..(MAX_TASKS - 1)
  BY SchedulerAssumption DEF Slots
<1>2. Ahead(s) \in 1..MAX_TASKS
  BY <1>1 DEF Ahead
<1>3. CASE s = CURRENT
  <2>1. Ahead(s) = MAX_TASKS
    BY <1>1, <1>3 DEF Ahead
  <2>2. \A x \in 0..(MAX_TASKS - 1) : (x + MAX_TASKS) % MAX_TASKS = x
    BY <1>1
  <2> QED
    BY <1>1, <1>2, <1>3, <2>1, <2>2 DEF Scan
<1>4. CASE s # CURRENT
  <2>1. Ahead(s) \in 1..(MAX_TASKS - 1)
    BY <1>1, <1>4 DEF Ahead
  <2>2. Scan(Ahead(s)) = IF CURRENT + Ahead(s) < MAX_TASKS THEN CURRENT + Ahead(s)
                         ELSE CURRENT + Ahead(s) - MAX_TASKS
    BY <2>1, ScanValue
  <2>3. (IF CURRENT + Ahead(s) < MAX_TASKS THEN CURRENT + Ahead(s)
         ELSE CURRENT + Ahead(s) - MAX_TASKS) = s
    BY <1>1, <1>4 DEF Ahead
  <2> QED
    BY <1>2, <2>2, <2>3
<1> QED
  BY <1>3, <1>4

\* A choice of the scan: the chosen slot becomes CURRENT, and the Ready ones
\* behind it come nearer.
LEMMA ChoiceNears ==
    ASSUME IInv, PickNext, NEW s \in Slots, state[s] = "Ready"
    PROVE  \/ state'[s] = "Running" /\ CURRENT' = s
           \/ state'[s] = "Ready" /\ Ahead(s)' < Ahead(s)
<1>1. /\ MAX_TASKS \in Nat \ {0} /\ CURRENT \in 0..(MAX_TASKS - 1)
      /\ s \in 0..(MAX_TASKS - 1) /\ CURRENT \in Slots
  BY SchedulerAssumption DEF Slots, IInv, TypeOK
<1>2. PICK n \in Slots \ {CURRENT} :
        /\ FoundNext(Requeued, n)
        /\ CURRENT' = n
        /\ state' = [Requeued EXCEPT ![n] = "Running"]
  BY DEF PickNext
<1>3. Requeued \in [Slots -> TaskState] /\ Requeued[s] = "Ready"
  BY DEF Requeued, IInv, TypeOK, TaskState
<1>4. CASE s = n
  BY <1>2, <1>3, <1>4
<1>5. CASE s # n
  <2>1. state'[s] = "Ready"
    BY <1>2, <1>3, <1>5
  <2>2. PICK d \in 1..MAX_TASKS :
           /\ n = Scan(d)
           /\ \A e \in 1..(d - 1) : Requeued[Scan(e)] # "Ready"
    BY <1>2 DEF FoundNext
  <2> DEFINE a == Ahead(s)
  <2>3. a \in 1..MAX_TASKS /\ Scan(a) = s
    BY <1>1, AheadIs
  <2>4. a = IF s > CURRENT THEN s - CURRENT ELSE s + MAX_TASKS - CURRENT
    BY DEF Ahead
  <2>5. Ahead(s)' = IF s > n THEN s - n ELSE s + MAX_TASKS - n
    BY <1>2 DEF Ahead
  <2> HIDE DEF a
  <2>6. d < a
    <3>1. ~(a \in 1..(d - 1))
      BY <1>3, <2>2, <2>3
    <3>2. a # d
      BY <1>5, <2>2, <2>3
    <3> QED
      BY <1>1, <2>3, <3>1, <3>2
  <2>7. d \in 1..(MAX_TASKS - 1)
    BY <1>1, <2>3, <2>6
  <2>8. n = IF CURRENT + d < MAX_TASKS THEN CURRENT + d ELSE CURRENT + d - MAX_TASKS
    BY <1>1, <2>2, <2>7, ScanValue
  <2>9. Ahead(s)' = a - d
    BY <1>1, <1>5, <2>3, <2>4, <2>5, <2>6, <2>7, <2>8
  <2>10. a - d < a
    BY <1>1, <2>3, <2>7
  <2> QED
    BY <2>1, <2>9, <2>10 DEF a
<1> QED
  BY <1>4, <1>5

\* The calls of tasks leave every Ready task Ready, since the caller is Running.
LEMMA CallsKeepReady ==
    ASSUME IInv, NEW c \in Slots, Calls(c), NEW s \in Slots, state[s] = "Ready"
    PROVE  state'[s] = "Ready" /\ CURRENT' = CURRENT
<1>1. CURRENT = c /\ state[c] = "Running"
  BY InTask DEF Calls, yield_cpu, SleepRead, SleepBlock, exit, wait_for, WaitNone, WaitReap,
     WaitBlock, At
<1>2. s # CURRENT /\ state \in [Slots -> TaskState]
  BY <1>1 DEF IInv, TypeOK
<1>3. CASE yield_cpu(c) \/ SleepBlock(c) \/ WaitBlock(c)
  BY <1>2, <1>3 DEF yield_cpu, SleepBlock, WaitBlock, statics
<1>4. CASE exit(c)
  BY <1>2, <1>4 DEF exit, statics
<1>5. CASE WaitReap(c)
  <2>1. PICK r \in Slots : state[r] = "Terminated" /\ state' = [state EXCEPT ![r] = "Empty"]
    BY <1>5 DEF WaitReap
  <2> QED
    BY <1>2, <1>5, <2>1 DEF WaitReap, statics
<1>6. CASE SleepRead(c) \/ wait_for(c) \/ WaitNone(c)
  BY <1>6 DEF SleepRead, wait_for, WaitNone, table, statics
<1> QED
  BY <1>3, <1>4, <1>5, <1>6, Zenon DEF Calls

\* So does a creation, which makes a slot Ready.
LEMMA CreateKeepsReady ==
    ASSUME IInv, NEW c \in Slots, new_kernel_task(c), NEW s \in Slots, state[s] = "Ready"
    PROVE  state'[s] = "Ready" /\ CURRENT' = CURRENT
<1>1. CASE StoreReady(c)
  <2>1. state \in [Slots -> TaskState]
    BY DEF IInv, TypeOK
  <2> QED
    BY <1>1, <2>1 DEF StoreReady, statics
<1>2. CASE alloc_slot(c)
  BY <1>2 DEF alloc_slot, table, statics
<1>3. CASE AllocPhys0(c) \/ AllocPhys1(c) \/ alloc_pid(c)
  BY <1>3 DEF AllocPhys0, AllocPhys1, alloc_pid, table, statics
<1>4. CASE \/ StoreFrame(c) \/ StoreStack(c) \/ StoreSleepUntil(c) \/ StoreWaitForPid(c)
           \/ StoreExitCode(c)
  BY <1>4 DEF StoreFrame, StoreStack, StoreSleepUntil, StoreWaitForPid, StoreExitCode, statics
<1> QED
  BY <1>1, <1>2, <1>3, <1>4, Zenon DEF new_kernel_task

\* Round robin: the safety half of "every ready task runs" (schedule()).  It
\* needs no fairness, and holds while _start creates tasks too.
THEOREM RoundRobin == Spec => NeverOvertaken
<1>1. IInv /\ [Next]_vars =>
        [\A s \in Slots : state[s] = "Ready" =>
          \/ state'[s] = "Running" /\ CURRENT' = s
          \/ state'[s] = "Ready" /\ (CURRENT' = CURRENT \/ Ahead(s)' < Ahead(s))]_vars
  <2> SUFFICES ASSUME IInv, Next, NEW s \in Slots, state[s] = "Ready"
               PROVE  \/ state'[s] = "Running" /\ CURRENT' = s
                      \/ state'[s] = "Ready" /\ (CURRENT' = CURRENT \/ Ahead(s)' < Ahead(s))
    OBVIOUS
  <2>1. CASE Tick
    BY <2>1, WakeReady DEF Tick, TickQuiet, TickPreempt
  <2>2. CASE PickNext
    BY <2>2, ChoiceNears
  <2>3. CASE PickNobody
    <3>1. state \in [Slots -> TaskState] /\ CURRENT \in Slots
      BY DEF IInv, TypeOK
    <3> QED
      BY <2>3, <3>1 DEF PickNobody, Requeued
  <2>4. CASE Acquire \/ DropGuard \/ switch_to \/ Resume
    BY <2>4 DEF Acquire, DropGuard, switch_to, Resume, table, statics
  <2>5. CASE idle_task
    BY <2>5 DEF idle_task, table, statics
  <2>6. CASE \E c \in Slots : Calls(c)
    BY <2>6, CallsKeepReady
  <2>7. CASE \E c \in Slots : new_kernel_task(c)
    BY <2>7, CreateKeepsReady
  <2> QED
    BY <2>1, <2>2, <2>3, <2>4, <2>5, <2>6, <2>7 DEF Next, CpuStep, Schedule
<1> QED
  BY <1>1, Invariance, PTL DEF Spec, NeverOvertaken

-----------------------------------------------------------------------------
(* The invariant                                                             *)

\* Once _start is done, creations are not interrupted, and the context of an
\* exited task is in a slot that is terminated or was reaped since.
BootedInv ==
    /\ bootLeft = 0 /\ pc[Idle] \in {"boot", "idle"}
    /\ \A s \in Slots : pc[s] \in CreateLocs => s = cpu /\ sched[s] = "out"
    /\ \A s \in Slots : pc[s] = "unreachable" => state[s] \in {"Terminated", "Empty"}
    /\ pc[cpu] = "c_ready" => pc[new[cpu].slot] = "body"

\* All tasks of _start created: the initial state satisfies it.
LEMMA BootedInit == ASSUME Made = BootTasks, Init PROVE BootedInv
<1>1. bootLeft = 0
  BY SchedulerAssumption DEF Init
<1> QED
  BY <1>1, IdleSlot DEF Init, BootedInv, CreateLocs

\* PickNobody is only for the idle context: the idle task is Ready when any
\* other context calls schedule().
LEMMA NobodyButIdle == ASSUME IInv, PickNobody PROVE CURRENT = Idle
<1>1. SUFFICES ASSUME CURRENT # Idle PROVE FALSE
  OBVIOUS
<1>2. state[Idle] = "Ready" /\ CURRENT \in Slots
  BY <1>1, IdleSlot DEF IInv, TypeOK, TableInv
<1>3. Requeued[Idle] = "Ready"
  BY <1>1, <1>2, IdleSlot DEF IInv, TypeOK, Requeued
<1>4. \E n \in Slots \ {CURRENT} : FoundNext(Requeued, n)
  BY <1>1, <1>2, <1>3, IdleSlot, ScanFinds
<1> QED
  BY <1>4 DEF PickNobody

\* The steps of the timer and of schedule() keep it.
LEMMA BootedKernel == ASSUME IInv, BootedInv, Tick \/ Schedule PROVE BootedInv'
<1>1. CASE Tick
  <2>1. cpu' = cpu /\ pc' = pc /\ new' = new /\ bootLeft' = bootLeft
    BY <1>1 DEF Tick, TickQuiet, TickPreempt, hardware, stacks
  <2>2. \A s \in Slots : pc[s] \notin CreateLocs
    BY <1>1, InTick DEF Tick, TickQuiet, TickPreempt, BootedInv, CreateLocs
  <2>3. \A s \in Slots : state'[s] = state[s] \/ (state[s] = "Blocked" /\ state'[s] = "Ready")
    BY <1>1, WakeReady DEF Tick, TickQuiet, TickPreempt
  <2> QED
    BY <2>1, <2>2, <2>3, IdleSlot DEF BootedInv, IInv, TypeOK, CreateLocs
<1>2. CASE Schedule
  <2>1. pc' = pc /\ new' = new /\ bootLeft' = bootLeft
    BY <1>2 DEF Schedule, Acquire, PickNext, PickNobody, DropGuard, switch_to, Resume, locals
  <2>2. sched[cpu] # "out"
    BY <1>2 DEF Schedule, Acquire, PickNext, PickNobody, DropGuard, switch_to, Resume
  <2>3. \A s \in Slots : pc[s] \notin CreateLocs
    BY <2>2 DEF BootedInv
  <2>4. \A s \in Slots : pc[s] = "unreachable" => state'[s] \in {"Terminated", "Empty"}
    <3>1. CASE PickNext
      <4>1. PICK n \in Slots \ {CURRENT} : Requeued[n] = "Ready" /\ state' = [Requeued EXCEPT ![n] = "Running"]
        BY <3>1 DEF PickNext, FoundNext
      <4>2. \A s \in Slots : Requeued[s] = state[s] \/ (Requeued[s] = "Ready" /\ state[s] \in {"Running", "Ready"})
        BY DEF Requeued, IInv, TypeOK
      <4>3. \A s \in Slots \ {n} : state'[s] = Requeued[s]
        BY <4>1 DEF Requeued, IInv, TypeOK
      <4> QED
        BY <4>1, <4>2, <4>3 DEF BootedInv
    <3>2. CASE PickNobody
      <4>1. CURRENT = Idle
        BY <3>2, NobodyButIdle
      <4>2. \A s \in Slots \ {CURRENT} : state'[s] = state[s]
        BY <3>2 DEF PickNobody, Requeued, IInv, TypeOK
      <4> QED
        BY <4>1, <4>2 DEF BootedInv
    <3>3. CASE state' = state
      BY <3>3 DEF BootedInv
    <3> QED
      BY <1>2, <3>1, <3>2, <3>3 DEF Schedule, Acquire, DropGuard, switch_to, Resume, table
  <2>5. cpu' \in Slots
    <3>1. cpu \in Slots /\ target[cpu] \in Slots
      BY DEF IInv, TypeOK
    <3>2. cpu' = cpu \/ cpu' = target[cpu]
      BY <1>2 DEF Schedule, Acquire, PickNext, PickNobody, DropGuard, switch_to, Resume, hardware
    <3> QED
      BY <3>1, <3>2
  <2> QED
    BY <2>1, <2>3, <2>4, <2>5, IdleSlot DEF BootedInv, CreateLocs
<1> QED
  BY <1>1, <1>2

\* The calls of tasks keep it: whoever calls is Running and not terminated.
LEMMA BootedCalls == ASSUME IInv, BootedInv, NEW c \in Slots, Calls(c) PROVE BootedInv'
<1>0. /\ c = cpu /\ c # Idle /\ CURRENT = c /\ state[c] = "Running" /\ sched[c] = "out"
      /\ pc[c] \in {"body", "sleep", "wait"}
  BY InTask DEF Calls, yield_cpu, SleepRead, SleepBlock, exit, wait_for, WaitNone, WaitReap,
     WaitBlock, At
<1>1. cpu' = cpu /\ new' = new /\ bootLeft' = bootLeft
  BY DEF Calls, yield_cpu, SleepRead, SleepBlock, exit, wait_for, WaitNone, WaitReap,
     WaitBlock, hardware, locals
<1>2. pc \in [Slots -> Locs] /\ state \in [Slots -> TaskState]
  BY DEF IInv, TypeOK
<1>3. \E l \in Locs \ CreateLocs : pc' = [pc EXCEPT ![c] = l]
  <2>1. {"body", "sleep", "wait", "unreachable", "panic"} \subseteq Locs \ CreateLocs
    BY DEF Locs, CreateLocs
  <2>2. pc = [pc EXCEPT ![c] = pc[c]]
    BY <1>2
  <2> QED
    BY <1>0, <2>1, <2>2 DEF Calls, yield_cpu, SleepRead, SleepBlock, exit, wait_for, WaitNone,
       WaitReap, WaitBlock, Goto, table, statics, hardware, stacks, locals
<1>4. \A s \in Slots \ {c} : pc'[s] = pc[s]
  BY <1>2, <1>3
<1>5. pc'[c] \notin CreateLocs
  BY <1>2, <1>3
<1>6. \A s \in Slots \ {c} : state[s] \in {"Terminated", "Empty"} =>
                                  state'[s] \in {"Terminated", "Empty"}
  BY <1>0, <1>2 DEF Calls, yield_cpu, SleepRead, SleepBlock, exit, wait_for, WaitNone,
     WaitReap, WaitBlock, Waiters, table
<1>7. pc'[c] = "unreachable" => state'[c] = "Terminated"
  BY <1>0, <1>2 DEF Calls, yield_cpu, SleepRead, SleepBlock, exit, wait_for, WaitNone,
     WaitReap, WaitBlock, Goto
<1>8. pc'[Idle] = pc[Idle]
  BY <1>0, <1>4, IdleSlot
<1>9. \A s \in Slots : pc[s] \notin CreateLocs
  BY <1>0 DEF BootedInv, CreateLocs
<1> QED
  BY <1>0, <1>1, <1>4, <1>5, <1>6, <1>7, <1>8, <1>9 DEF BootedInv, CreateLocs

\* new_kernel_task, which only tasks still call, keeps it: it writes the frame
\* before it makes the task Ready.
LEMMA BootedCreate == ASSUME IInv, BootedInv, NEW c \in Slots, new_kernel_task(c) PROVE BootedInv'
<1>0. /\ c = cpu /\ sched[c] = "out" /\ c # Idle /\ new[c].slot # c /\ new[c].slot # Idle
      /\ pc[c] \in CreateLocs \cup {"body"}
  <2>1. PICK l \in CreateLocs \cup {"boot", "body"} : At(c, l) /\ (l = "boot" => bootLeft > 0)
    BY DEF new_kernel_task, alloc_slot, Creates, AllocPhys0, AllocPhys1, alloc_pid, StoreFrame,
       StoreReady, StoreStack, StoreSleepUntil, StoreWaitForPid, StoreExitCode, CreateLocs
  <2>2. l # "boot"
    BY <2>1 DEF BootedInv
  <2> QED
    BY <2>1, <2>2, InCreate DEF BootedInv, IInv, CreateInv, CreateLocs
<1>1. cpu' = cpu
  BY DEF new_kernel_task, alloc_slot, CreateFails, AllocPhys0, AllocPhys1, alloc_pid,
     StoreFrame, StoreReady, StoreStack, StoreSleepUntil, StoreWaitForPid, StoreExitCode,
     hardware
<1>2. bootLeft' = bootLeft
  BY <1>0 DEF new_kernel_task, alloc_slot, AllocPhys0, AllocPhys1, alloc_pid,
     StoreFrame, StoreReady, StoreStack, StoreSleepUntil, StoreWaitForPid, StoreExitCode
<1>3. pc \in [Slots -> Locs] /\ state \in [Slots -> TaskState] /\ sched \in [Slots -> SchedLocs]
  BY DEF IInv, TypeOK
<1>4. CASE StoreFrame(c)
  <2>1. new[c].slot \in Slots
    BY <1>4 DEF StoreFrame, At, IInv, CreateInv, CreateLocs
  <2>2. pc'[c] = "c_ready" /\ pc'[new[c].slot] = "body"
    BY <1>0, <1>3, <1>4, <2>1 DEF StoreFrame
  <2>3. \A s \in Slots \ {c, new[c].slot} : pc'[s] = pc[s]
    BY <1>3, <1>4 DEF StoreFrame
  <2>4. state' = state /\ new' = new /\ sched'[c] = sched[c]
    BY <1>0, <1>3, <1>4 DEF StoreFrame, locals
  <2>5. \A s \in Slots \ {c} : pc'[s] \notin CreateLocs
    BY <1>0, <2>2, <2>3 DEF BootedInv, CreateLocs
  <2>6. pc'[Idle] = pc[Idle]
    BY <1>0, <2>3, IdleSlot
  <2> QED
    BY <1>0, <1>1, <1>2, <2>2, <2>3, <2>4, <2>5, <2>6 DEF BootedInv, CreateLocs
<1>5. CASE ~StoreFrame(c)
  <2>1. \E l \in CreateLocs \cup {"body"} : l # "c_ready" /\ pc' = [pc EXCEPT ![c] = l]
    BY <1>0, <1>5 DEF new_kernel_task, alloc_slot, CreateFails, AllocPhys0, AllocPhys1,
       alloc_pid, StoreReady, StoreStack, StoreSleepUntil, StoreWaitForPid, StoreExitCode,
       Goto, CreateLocs
  <2>2. \A s \in Slots \ {c} : pc'[s] = pc[s]
    BY <1>3, <2>1
  <2>3. pc'[c] # "c_ready" /\ pc'[c] # "unreachable"
    BY <1>3, <2>1 DEF CreateLocs
  <2>4. sched' = sched
    BY <1>5 DEF new_kernel_task, alloc_slot, AllocPhys0, AllocPhys1, alloc_pid, StoreReady,
       StoreStack, StoreSleepUntil, StoreWaitForPid, StoreExitCode
  <2>5. state' = state \/ (pc[c] = "c_ready" /\ state' = [state EXCEPT ![new[c].slot] = "Ready"])
    BY <1>5 DEF new_kernel_task, alloc_slot, AllocPhys0, AllocPhys1, alloc_pid, StoreReady,
       StoreStack, StoreSleepUntil, StoreWaitForPid, StoreExitCode, At, table
  <2>6. \A s \in Slots \ {c} : pc[s] = "unreachable" => state'[s] \in {"Terminated", "Empty"}
    BY <1>0, <1>3, <2>5 DEF BootedInv
  <2>7. pc'[Idle] = pc[Idle]
    BY <1>0, <2>2, IdleSlot
  <2> QED
    BY <1>0, <1>1, <1>2, <2>2, <2>3, <2>4, <2>6, <2>7 DEF BootedInv, CreateLocs
<1> QED
  BY <1>4, <1>5

\* With the tasks of _start created, the context of an exited task is never
\* resumed: the unreachable!() of exit is not reached.
THEOREM ExitIsFinal == (Made = BootTasks) /\ Spec => []ExitNeverReturns
<1>1. (Made = BootTasks) /\ Init => BootedInv
  BY BootedInit
<1>2. IInv /\ BootedInv /\ [Next]_vars => BootedInv'
  <2> SUFFICES ASSUME IInv, BootedInv, [Next]_vars PROVE BootedInv'
    OBVIOUS
  <2>1. CASE idle_task
    BY <2>1, IdleSlot DEF idle_task, At, Goto, table, hardware, locals, BootedInv, IInv, TypeOK,
       CreateLocs
  <2>2. CASE UNCHANGED vars
    BY <2>2 DEF vars, table, hardware, stacks, locals, BootedInv
  <2> QED
    BY <2>1, <2>2, BootedKernel, BootedCalls, BootedCreate DEF Next, CpuStep
<1>3. IInv /\ BootedInv => ExitNeverReturns
  BY DEF IInv, TypeOK, LockInv, TableInv, BootedInv, ExitNeverReturns
<1> QED
  BY <1>1, <1>2, <1>3, Invariance, PTL DEF Spec

-----------------------------------------------------------------------------
(* The tasks' side: what tasks rely on once _start has created the first of  *)
(* them, whatever calls they make.                                           *)

Alive(s) == state[s] \notin {"Empty", "Terminated"}

\* The slot that new_kernel_task fills is Empty until the store of state, and
\* nobody takes it up before the last store.
Unborn == {"c_page0", "c_page1", "c_pid", "c_frame", "c_ready"}
Born   == {"c_stack", "c_sleep", "c_wait", "c_code"}

NewInv ==
    /\ pc[cpu] \in Unborn => state[new[cpu].slot] = "Empty"
    /\ pc[cpu] \in Born => state[new[cpu].slot] = "Ready"

\* A pid is given once: tasks in the table, and the one being created, have
\* different pids, all of them below NEXT_PID.
PidInv ==
    /\ NEXT_PID > 0
    /\ \A s \in Slots : state[s] # "Empty" => pid[s] < NEXT_PID
    /\ \A s, t \in Slots :
          state[s] # "Empty" /\ state[t] # "Empty" /\ pid[s] = pid[t] => s = t
    /\ pc[cpu] \in {"c_frame", "c_ready"} =>
          /\ new[cpu].pid < NEXT_PID
          /\ \A s \in Slots : state[s] # "Empty" => pid[s] # new[cpu].pid
    /\ pc[cpu] = "c_ready" => pid[new[cpu].slot] = new[cpu].pid

\* The deadline and the awaited pid are set while their task is Blocked, one
\* of them, and the awaited task is alive; a dead task's code is its own.
WaitInv ==
    \A s \in Slots :
        /\ state[s] # "Blocked" => sleep_until[s] = None /\ wait_for_pid[s] = None
        /\ state[s] = "Blocked" =>
              \/ sleep_until[s] # None /\ wait_for_pid[s] = None
              \/ sleep_until[s] = None /\ \E r \in Slots : Alive(r) /\ pid[r] = wait_for_pid[s]
        /\ state[s] = "Terminated" => exit_code[s] = pid[s]

\* The locals of sleep_ms and wait_for.
ArgInv ==
    \A s \in Slots : /\ pc[s] = "sleep" => arg[s] \in Nat /\ result[s] = None
                     /\ result[s] \in {None, -1, arg[s]}

\* Pages are in one place: free, in a stack, or held by new_kernel_task.  The
\* upper page of the stack in use is not free, even after terminate().
Stored == IF pc[cpu] = "c_stack" THEN Live \ {new[cpu].slot} ELSE Live

Unused(p) == /\ p \notin freePages
             /\ \A s \in Stored : p # stack_base[s] /\ p # stack_top[s] - 1

PageInv ==
    /\ \A s \in Stored : /\ stack_base[s] # stack_top[s] - 1
                         /\ stack_base[s] \notin freePages /\ stack_top[s] - 1 \notin freePages
    /\ \A s, t \in Stored : s # t =>
            /\ stack_base[s] # stack_base[t] /\ stack_base[s] # stack_top[t] - 1
            /\ stack_top[s] # stack_top[t]
    /\ cpu # Idle => stack_top[cpu] - 1 \notin freePages
    /\ pc[cpu] \in {"c_page1", "c_pid", "c_frame", "c_ready", "c_stack"} =>
          Unused(new[cpu].phys0)
    /\ pc[cpu] \in {"c_pid", "c_frame", "c_ready", "c_stack"} =>
          Unused(new[cpu].phys1) /\ new[cpu].phys1 # new[cpu].phys0

TaskInv == NewInv /\ PidInv /\ WaitInv /\ ArgInv /\ PageInv

\* The state in which _start has created its tasks satisfies it.
LEMMA TaskInit == ASSUME Made = BootTasks, Init PROVE TaskInv
<1> USE SchedulerAssumption DEF Init, Slots, Idle
<1>1. NewInv /\ ArgInv
  BY DEF NewInv, ArgInv, Unborn, Born
<1>2. PidInv
  BY DEF PidInv
<1>3. WaitInv
  BY DEF WaitInv
<1>4. Live = 1..Made /\ Stored = Live
  BY DEF Live, Stored
<1> HIDE DEF Init, Slots, Idle
<1>5. PageInv
  <2>1. PICK frame \in [1..(2 * Made) -> Available] :
          /\ \A i, j \in 1..(2 * Made) : frame[i] = frame[j] => i = j
          /\ \A s \in Slots : s \in 1..Made =>
                stack_base[s] = frame[2 * s - 1] /\ stack_top[s] - 1 = frame[2 * s]
          /\ freePages = Available \ {frame[i] : i \in 1..(2 * Made)}
    BY InitStacks
  <2>2. Stored = 1..Made /\ Stored \subseteq Slots /\ Made \in Nat
    BY <1>4, SchedulerAssumption DEF Slots
  <2>3. \A s \in Stored : /\ 2 * s - 1 \in 1..(2 * Made) /\ 2 * s \in 1..(2 * Made)
                           /\ stack_base[s] = frame[2 * s - 1] /\ stack_top[s] - 1 = frame[2 * s]
    BY <2>1, <2>2
  <2>4. ASSUME NEW s \in Stored
        PROVE  /\ stack_base[s] # stack_top[s] - 1
               /\ stack_base[s] \notin freePages /\ stack_top[s] - 1 \notin freePages
    <3>1. 2 * s - 1 # 2 * s
      BY <2>2
    <3>2. \A i \in 1..(2 * Made) : frame[i] \notin freePages
      BY <2>1
    <3> QED
      BY <2>1, <2>3, <3>1, <3>2
  <2>5. ASSUME NEW s \in Stored, NEW t \in Stored, s # t
        PROVE  /\ stack_base[s] # stack_base[t] /\ stack_base[s] # stack_top[t] - 1
               /\ stack_top[s] # stack_top[t]
    <3>1. 2 * s - 1 # 2 * t - 1 /\ 2 * s - 1 # 2 * t /\ 2 * s # 2 * t
      BY <2>2, <2>5
    <3>2. /\ frame[2 * s - 1] # frame[2 * t - 1] /\ frame[2 * s - 1] # frame[2 * t]
          /\ frame[2 * s] # frame[2 * t]
      BY <2>1, <2>3, <3>1
    <3> QED
      BY <2>3, <3>2
  <2>6. cpu = Idle /\ pc[cpu] = "boot"
    BY IdleSlot DEF Init
  <2> QED
    BY <2>4, <2>5, <2>6 DEF PageInv
<1> QED
  BY <1>1, <1>2, <1>3, <1>5 DEF TaskInv

-----------------------------------------------------------------------------
(* The timer and schedule()                                                  *)

\* What schedule() changes: it takes tasks that can run from Ready to Running
\* and back, and the CPU to one of them.
LEMMA ScheduleFrame ==
    ASSUME IInv, Schedule
    PROVE  /\ UNCHANGED <<pid, sleep_until, wait_for_pid, exit_code, stack_base, stack_top>>
           /\ UNCHANGED <<NEXT_PID, pc, new, arg, result, freePages>>
           /\ \A s \in Slots : \/ state'[s] = state[s]
                               \/ state[s] \in {"Ready", "Running"} /\ state'[s] \in {"Ready", "Running"}
           /\ cpu' = cpu \/ (cpu' = CURRENT /\ state[CURRENT] = "Running")
<1>1. /\ UNCHANGED <<pid, sleep_until, wait_for_pid, exit_code, stack_base, stack_top>>
      /\ UNCHANGED <<NEXT_PID, pc, new, arg, result, freePages>>
  BY DEF Schedule, Acquire, PickNext, PickNobody, DropGuard, switch_to, Resume, table, statics,
     locals
<1>2. state \in [Slots -> TaskState]
  BY DEF IInv, TypeOK
<1>3. \A s \in Slots : \/ Requeued[s] = state[s]
                       \/ state[s] = "Running" /\ Requeued[s] = "Ready"
  BY <1>2 DEF Requeued
<1>4. CASE PickNext
  <2>1. PICK n \in Slots \ {CURRENT} : /\ Requeued[n] = "Ready"
                                       /\ state' = [Requeued EXCEPT ![n] = "Running"]
    BY <1>4 DEF PickNext, FoundNext
  <2>2. cpu' = cpu
    BY <1>4 DEF PickNext, hardware
  <2>3. \A s \in Slots \ {n} : state'[s] = Requeued[s]
    BY <1>2, <2>1 DEF Requeued
  <2>4. state'[n] = "Running" /\ state[n] \in {"Ready", "Running"}
    BY <1>2, <1>3, <2>1 DEF Requeued
  <2> QED
    BY <1>1, <1>3, <2>2, <2>3, <2>4
<1>5. CASE PickNobody
  <2>1. CURRENT = Idle /\ state[Idle] \in {"Ready", "Running"}
    BY <1>5, NobodyButIdle DEF IInv, TableInv
  <2>2. state' = [Requeued EXCEPT ![CURRENT] = "Running"] /\ cpu' = cpu
    BY <1>5 DEF PickNobody
  <2>3. \A s \in Slots \ {Idle} : state'[s] = Requeued[s]
    BY <1>2, <2>1, <2>2 DEF Requeued
  <2>4. state'[Idle] = "Running"
    BY <1>2, <2>1, <2>2, IdleSlot DEF Requeued
  <2> QED
    BY <1>1, <1>3, <2>1, <2>2, <2>3, <2>4
<1>6. CASE Acquire \/ DropGuard \/ switch_to \/ Resume
  <2>1. state' = state
    BY <1>6 DEF Acquire, DropGuard, switch_to, Resume, table
  <2>2. cpu' = cpu \/ (sched[cpu] = "dropped" /\ cpu' = target[cpu])
    BY <1>6 DEF Acquire, DropGuard, switch_to, Resume
  <2>3. sched[cpu] = "dropped" => CURRENT = target[cpu] /\ state[CURRENT] = "Running"
    BY DEF IInv, LockInv, TableInv
  <2> QED
    BY <1>1, <2>1, <2>2, <2>3
<1> QED
  BY <1>4, <1>5, <1>6 DEF Schedule

\* After boot no creation is in progress while schedule() runs.
LEMMA ScheduleOutside ==
    ASSUME BootedInv, Schedule
    PROVE  \A s \in Slots : pc[s] \notin CreateLocs
  BY DEF BootedInv, Schedule, Acquire, PickNext, PickNobody, DropGuard, switch_to, Resume

\* The steps of schedule() keep the invariant.
LEMMA TaskSchedule == ASSUME IInv, BootedInv, TaskInv, Schedule PROVE TaskInv'
<1>1. /\ UNCHANGED <<pid, sleep_until, wait_for_pid, exit_code, stack_base, stack_top>>
      /\ UNCHANGED <<NEXT_PID, pc, new, arg, result, freePages>>
  BY ScheduleFrame
<1>2. \A s \in Slots : \/ state'[s] = state[s]
                       \/ state[s] \in {"Ready", "Running"} /\ state'[s] \in {"Ready", "Running"}
  BY ScheduleFrame
<1>3. cpu' = cpu \/ (cpu' = CURRENT /\ state[CURRENT] = "Running")
  BY ScheduleFrame
<1>4. cpu \in Slots /\ CURRENT \in Slots
  BY DEF IInv, TypeOK
<1>5. \A s \in Slots : pc[s] \notin CreateLocs
  BY ScheduleOutside
<1>6. cpu' \in Slots /\ pc[cpu] \notin CreateLocs /\ pc'[cpu'] \notin CreateLocs
  BY <1>1, <1>3, <1>4, <1>5
<1>7. NewInv'
  BY <1>6 DEF NewInv, CreateLocs, Unborn, Born
<1>8. PidInv'
  BY <1>1, <1>2, <1>6 DEF TaskInv, PidInv, CreateLocs
<1>9. WaitInv'
  BY <1>1, <1>2 DEF TaskInv, WaitInv, Alive
<1>10. ArgInv'
  BY <1>1 DEF TaskInv, ArgInv
<1>11. PageInv'
  <2>1. Live' = Live
    BY <1>2 DEF Live
  <2>2. Stored = Live /\ Stored' = Live
    BY <1>6, <2>1 DEF Stored, CreateLocs
  <2>3. cpu' # Idle => stack_top[cpu'] - 1 \notin freePages
    BY <1>3, <1>4, <2>2 DEF TaskInv, PageInv, Live
  <2> QED
    BY <1>1, <1>6, <2>2, <2>3 DEF TaskInv, PageInv, CreateLocs
<1> QED
  BY <1>7, <1>8, <1>9, <1>10, <1>11 DEF TaskInv

\* The timer keeps it: it is taken in the idle context, outside new_kernel_task.
LEMMA TaskTick == ASSUME IInv, BootedInv, TaskInv, Tick PROVE TaskInv'
<1>1. /\ UNCHANGED <<pid, wait_for_pid, exit_code, stack_base, stack_top>>
      /\ UNCHANGED <<NEXT_PID, pc, new, result, freePages, cpu>>
  BY DEF Tick, TickQuiet, TickPreempt, hardware, stacks
<1>2. cpu = Idle /\ pc[cpu] \notin CreateLocs
  BY InTick DEF Tick, TickQuiet, TickPreempt, BootedInv, CreateLocs
<1>3. wake_sleeping_tasks
  BY DEF Tick, TickQuiet, TickPreempt
<1>4. \A s \in Slots : state'[s] = state[s] \/ (state[s] = "Blocked" /\ state'[s] = "Ready")
  BY <1>3, WakeReady
<1>5. NewInv'
  BY <1>1, <1>2 DEF NewInv, CreateLocs, Unborn, Born
<1>6. PidInv'
  BY <1>1, <1>2, <1>4 DEF TaskInv, PidInv, CreateLocs
<1>7. WaitInv'
  <2>1. ASSUME NEW s \in Slots
        PROVE  /\ sleep_until'[s] = IF Due(s) THEN None ELSE Elapse(sleep_until[s])
               /\ state'[s] = IF Due(s) THEN "Ready" ELSE state[s]
    BY <1>3 DEF wake_sleeping_tasks
  <2>2. sleep_until \in [Slots -> Nat \cup {None}] /\ None \notin Int
    BY SchedulerAssumption DEF IInv, TypeOK
  <2>3. \A s \in Slots : Elapse(sleep_until[s]) = None <=> sleep_until[s] = None
    BY <2>2 DEF Elapse
  <2>4. \A s \in Slots : Alive(s) => Alive(s)'
    BY <1>4 DEF Alive
  <2> QED
    BY <1>1, <2>1, <2>3, <2>4 DEF TaskInv, WaitInv, Due
<1>8. ArgInv'
  <2>1. \A s \in Slots : arg'[s] = IF pc[s] = "sleep" THEN Elapse(arg[s]) ELSE arg[s]
    BY <1>3 DEF wake_sleeping_tasks
  <2>2. \A d \in Nat : Elapse(d) \in Nat
    BY SchedulerAssumption DEF Elapse
  <2> QED
    BY <1>1, <2>1, <2>2 DEF TaskInv, ArgInv
<1>9. PageInv'
  <2>1. Live' = Live
    BY <1>4 DEF Live
  <2>2. Stored = Live /\ Stored' = Live
    BY <1>1, <1>2, <2>1 DEF Stored, CreateLocs
  <2> QED
    BY <1>1, <1>2, <2>2 DEF TaskInv, PageInv, CreateLocs
<1> QED
  BY <1>5, <1>6, <1>7, <1>8, <1>9 DEF TaskInv

-----------------------------------------------------------------------------
(* The calls of tasks                                                        *)

\* What all calls have in common: they are made by the running task, which
\* leaves its code for none of new_kernel_task, and no pid or stack changes.
LEMMA CallFrame ==
    ASSUME IInv, BootedInv, NEW c \in Slots, Calls(c)
    PROVE  /\ c = cpu /\ c # Idle /\ CURRENT = c /\ state[c] = "Running"
           /\ UNCHANGED <<pid, stack_base, stack_top, NEXT_PID, new, cpu>>
           /\ pc[c] \notin CreateLocs /\ pc'[c] \notin CreateLocs
           /\ \A s \in Slots \ {c} : pc'[s] = pc[s]
           /\ \A s \in Slots : state[s] = "Empty" => state'[s] = "Empty"
<1>1. /\ c = cpu /\ c # Idle /\ CURRENT = c /\ state[c] = "Running"
      /\ pc[c] \in {"body", "sleep", "wait"}
  BY InTask DEF Calls, yield_cpu, SleepRead, SleepBlock, exit, wait_for, WaitNone, WaitReap,
     WaitBlock, At
<1>2. UNCHANGED <<pid, stack_base, stack_top, NEXT_PID, new, cpu>>
  BY DEF Calls, yield_cpu, SleepRead, SleepBlock, exit, wait_for, WaitNone, WaitReap,
     WaitBlock, table, statics, hardware, locals
<1>3. pc \in [Slots -> Locs] /\ state \in [Slots -> TaskState]
  BY DEF IInv, TypeOK
<1>4. pc' = pc \/ \E l \in {"sleep", "body", "wait", "unreachable", "panic"} :
                        pc' = [pc EXCEPT ![c] = l]
  BY DEF Calls, yield_cpu, SleepRead, SleepBlock, exit, wait_for, WaitNone, WaitReap,
     WaitBlock, Goto
<1>5. pc'[c] \notin CreateLocs /\ \A s \in Slots \ {c} : pc'[s] = pc[s]
  BY <1>1, <1>3, <1>4 DEF CreateLocs
<1>6. \A s \in Slots : state[s] = "Empty" => state'[s] = "Empty"
  BY <1>1, <1>3 DEF Calls, yield_cpu, SleepRead, SleepBlock, exit, wait_for, WaitNone,
     WaitReap, WaitBlock, Waiters, table
<1> QED
  BY <1>1, <1>2, <1>5, <1>6 DEF CreateLocs

\* exit() wakes the tasks that wait for the caller, which are other tasks.
LEMMA ExitStates ==
    ASSUME IInv, TaskInv, NEW c \in Slots, c = CURRENT, state[c] = "Running", exit(c)
    PROVE  /\ state'[c] = "Terminated" /\ exit_code'[c] = pid[c]
           /\ sleep_until' = sleep_until /\ sleep_until[c] = None /\ wait_for_pid'[c] = None
           /\ \A s \in Slots \ {c} :
                IF state[s] = "Blocked" /\ wait_for_pid[s] = pid[c]
                THEN /\ state'[s] = "Ready" /\ wait_for_pid'[s] = None
                     /\ sleep_until[s] = None
                ELSE /\ state'[s] = state[s] /\ wait_for_pid'[s] = wait_for_pid[s]
                     /\ exit_code'[s] = exit_code[s]
<1>1. c \notin Waiters(CURRENT)
  BY DEF Waiters
<1>2. /\ state'[c] = "Terminated" /\ sleep_until' = sleep_until
      /\ exit_code'[c] = pid[c] /\ wait_for_pid'[c] = wait_for_pid[c]
  BY <1>1 DEF exit, CodesAfterExit
<1>3. sleep_until[c] = None /\ wait_for_pid[c] = None
  BY DEF TaskInv, WaitInv
<1>4. ASSUME NEW s \in Slots \ {c}
      PROVE  IF state[s] = "Blocked" /\ wait_for_pid[s] = pid[c]
             THEN /\ state'[s] = "Ready" /\ wait_for_pid'[s] = None
                  /\ sleep_until[s] = None
             ELSE /\ state'[s] = state[s] /\ wait_for_pid'[s] = wait_for_pid[s]
                  /\ exit_code'[s] = exit_code[s]
  <2>1. s \in Waiters(CURRENT) <=> state[s] = "Blocked" /\ wait_for_pid[s] = pid[c]
    BY DEF Waiters
  <2>2. state'[s] = IF s \in Waiters(CURRENT) THEN "Ready" ELSE state[s]
    BY DEF exit
  <2>3. wait_for_pid'[s] = IF s \in Waiters(CURRENT) THEN None ELSE wait_for_pid[s]
    BY DEF exit
  <2>4. s \notin Waiters(CURRENT) => exit_code'[s] = exit_code[s]
    BY DEF exit, CodesAfterExit
  <2>5. pid[c] # None
    BY SchedulerAssumption DEF IInv, TypeOK
  <2>6. s \in Waiters(CURRENT) => sleep_until[s] = None
    BY <2>1, <2>5 DEF TaskInv, WaitInv
  <2> QED
    BY <2>1, <2>2, <2>3, <2>4, <2>6
<1> QED
  BY <1>2, <1>3, <1>4

\* What blocks can be woken, and what is woken has nothing left to wait for.
LEMMA CallWait ==
    ASSUME IInv, BootedInv, TaskInv, NEW c \in Slots, Calls(c)
    PROVE  WaitInv'
<1>1. /\ c = CURRENT /\ state[c] = "Running" /\ pid' = pid /\ None \notin Int
      /\ sleep_until[c] = None /\ wait_for_pid[c] = None
  BY CallFrame, SchedulerAssumption DEF TaskInv, WaitInv
<1>2. WaitInv /\ state \in [Slots -> TaskState] /\ sleep_until \in [Slots -> Nat \cup {None}]
              /\ wait_for_pid \in [Slots -> Nat \cup {None}] /\ pid \in [Slots -> Nat]
  BY DEF TaskInv, IInv, TypeOK
<1>3. CASE yield_cpu(c)
  <2>1. /\ state' = [state EXCEPT ![c] = "Ready"]
        /\ UNCHANGED <<sleep_until, wait_for_pid, exit_code>>
    BY <1>1, <1>3 DEF yield_cpu
  <2>2. \A s \in Slots : Alive(s) => Alive(s)'
    BY <1>2, <2>1 DEF Alive
  <2> QED
    BY <1>1, <1>2, <2>1, <2>2 DEF WaitInv
<1>4. CASE SleepRead(c) \/ wait_for(c) \/ WaitNone(c)
  BY <1>2, <1>4 DEF SleepRead, wait_for, WaitNone, table, WaitInv, Alive
<1>5. CASE SleepBlock(c)
  <2>1. /\ state' = [state EXCEPT ![c] = "Blocked"]
        /\ sleep_until' = [sleep_until EXCEPT ![c] = arg[c]]
        /\ UNCHANGED <<wait_for_pid, exit_code>>
    BY <1>1, <1>5 DEF SleepBlock
  <2>2. arg[c] # None
    BY <1>1, <1>5 DEF SleepBlock, At, TaskInv, ArgInv
  <2>3. \A s \in Slots : Alive(s) => Alive(s)'
    BY <1>2, <2>1 DEF Alive
  <2> QED
    BY <1>1, <1>2, <2>1, <2>2, <2>3 DEF WaitInv
<1>6. CASE exit(c)
  <2>1. /\ state'[c] = "Terminated" /\ exit_code'[c] = pid[c]
        /\ sleep_until' = sleep_until /\ wait_for_pid'[c] = None
    BY <1>1, <1>6, ExitStates
  <2>2. ASSUME NEW s \in Slots \ {c}
        PROVE  IF state[s] = "Blocked" /\ wait_for_pid[s] = pid[c]
               THEN /\ state'[s] = "Ready" /\ wait_for_pid'[s] = None
                    /\ sleep_until[s] = None
               ELSE /\ state'[s] = state[s] /\ wait_for_pid'[s] = wait_for_pid[s]
                    /\ exit_code'[s] = exit_code[s]
    BY <1>1, <1>6, ExitStates
  <2>3. \A s \in Slots : Alive(s) /\ s # c => Alive(s)'
    BY <2>2 DEF Alive
  <2> QED
    BY <1>1, <1>2, <2>1, <2>2, <2>3 DEF WaitInv
<1>7. CASE WaitReap(c)
  <2>1. PICK s \in Slots : state[s] = "Terminated" /\ state' = [state EXCEPT ![s] = "Empty"]
    BY <1>7 DEF WaitReap
  <2>2. UNCHANGED <<sleep_until, wait_for_pid, exit_code>>
    BY <1>7 DEF WaitReap
  <2>3. \A r \in Slots : Alive(r) => Alive(r)'
    BY <1>2, <2>1 DEF Alive
  <2> QED
    BY <1>1, <1>2, <2>1, <2>2, <2>3 DEF WaitInv
<1>8. CASE WaitBlock(c)
  <2>1. PICK r \in Slots : Alive(r) /\ pid[r] = arg[c]
    BY <1>8 DEF WaitBlock, find_pid, Alive
  <2>2. /\ state' = [state EXCEPT ![c] = "Blocked"]
        /\ wait_for_pid' = [wait_for_pid EXCEPT ![c] = arg[c]]
        /\ UNCHANGED <<sleep_until, exit_code>>
    BY <1>1, <1>8 DEF WaitBlock
  <2>3. \A s \in Slots : Alive(s) => Alive(s)'
    BY <1>2, <2>2 DEF Alive
  <2> QED
    BY <1>1, <1>2, <2>1, <2>2, <2>3 DEF WaitInv
<1> QED
  BY <1>3, <1>4, <1>5, <1>6, <1>7, <1>8 DEF Calls

\* wait_for takes its result from the slot whose pid it was called with.
LEMMA CallArg ==
    ASSUME IInv, BootedInv, TaskInv, NEW c \in Slots, Calls(c)
    PROVE  ArgInv'
<1>1. /\ ArgInv /\ pc \in [Slots -> Locs] /\ arg \in [Slots -> Nat \cup {None}]
      /\ result \in [Slots -> Int \cup {None}]
  BY DEF TaskInv, IInv, TypeOK
<1>2. CASE yield_cpu(c) \/ SleepBlock(c) \/ exit(c)
  <2>1. /\ arg' = [arg EXCEPT ![c] = None] /\ result' = [result EXCEPT ![c] = None]
        /\ pc'[c] # "sleep" /\ \A s \in Slots \ {c} : pc'[s] = pc[s]
    BY <1>1, <1>2 DEF yield_cpu, SleepBlock, exit, Forget, Goto, At
  <2> QED
    BY <1>1, <2>1 DEF ArgInv
<1>3. CASE SleepRead(c)
  <2>1. PICK t \in Nat : arg' = [arg EXCEPT ![c] = t]
    BY <1>3, AtLeastOneTick, SchedulerAssumption DEF SleepRead
  <2>2. result' = [result EXCEPT ![c] = None] /\ pc' = [pc EXCEPT ![c] = "sleep"]
    BY <1>3 DEF SleepRead, Goto
  <2> QED
    BY <1>1, <2>1, <2>2 DEF ArgInv
<1>4. CASE wait_for(c)
  <2>1. PICK p \in 0..MaxPid : arg' = [arg EXCEPT ![c] = p]
    BY <1>4 DEF wait_for
  <2>2. result' = [result EXCEPT ![c] = None] /\ pc' = [pc EXCEPT ![c] = "wait"]
    BY <1>4 DEF wait_for, Goto
  <2> QED
    BY <1>1, <2>1, <2>2 DEF ArgInv
<1>5. CASE WaitNone(c)
  <2>1. /\ result' = [result EXCEPT ![c] = -1] /\ pc' = [pc EXCEPT ![c] = "body"]
        /\ arg' = arg
    BY <1>5 DEF WaitNone, Goto
  <2> QED
    BY <1>1, <2>1 DEF ArgInv
<1>6. CASE WaitReap(c)
  <2>1. PICK s \in Slots : /\ find_pid(arg[c], s) /\ state[s] = "Terminated"
                           /\ result' = [result EXCEPT ![c] = exit_code[s]]
    BY <1>6 DEF WaitReap
  <2>2. pc' = [pc EXCEPT ![c] = "body"] /\ arg' = arg
    BY <1>6 DEF WaitReap, Goto
  <2>3. exit_code[s] = arg[c]
    BY <2>1 DEF find_pid, TaskInv, WaitInv
  <2> QED
    BY <1>1, <2>1, <2>2, <2>3 DEF ArgInv
<1>7. CASE WaitBlock(c)
  BY <1>1, <1>7 DEF WaitBlock, locals, ArgInv
<1> QED
  BY <1>2, <1>3, <1>4, <1>5, <1>6, <1>7 DEF Calls

\* Of the stack it still runs on, an exiting task frees the page it is not in.
LEMMA CallPage ==
    ASSUME IInv, BootedInv, TaskInv, NEW c \in Slots, Calls(c)
    PROVE  PageInv'
<1>1. /\ c = cpu /\ c # Idle /\ CURRENT = c /\ state[c] = "Running"
      /\ UNCHANGED <<pid, stack_base, stack_top, NEXT_PID, new, cpu>>
      /\ pc[c] \notin CreateLocs /\ pc'[c] \notin CreateLocs
  BY CallFrame
<1>2. Stored = Live /\ Stored' = Live'
  BY <1>1 DEF Stored, CreateLocs
<1>3. state \in [Slots -> TaskState]
  BY DEF IInv, TypeOK
<1>4. CASE exit(c)
  <2>1. freePages' = freePages \cup {stack_base[c]}
    BY <1>1, <1>4 DEF exit, FreedByExit
  <2>2. Live' \subseteq Live \ {c} /\ c \in Live
    BY <1>1, <1>4 DEF Live, exit, Waiters
  <2> QED
    BY <1>1, <1>2, <2>1, <2>2 DEF TaskInv, PageInv, CreateLocs
<1>5. CASE ~exit(c)
  <2>1. freePages' = freePages
    BY <1>5 DEF Calls, yield_cpu, SleepRead, SleepBlock, wait_for, WaitNone, WaitReap, WaitBlock
  <2>2. Live' \subseteq Live
    BY <1>1, <1>3, <1>5 DEF Live, Calls, yield_cpu, SleepRead, SleepBlock, wait_for, WaitNone,
       WaitReap, WaitBlock, table
  <2> QED
    BY <1>1, <1>2, <2>1, <2>2 DEF TaskInv, PageInv, CreateLocs
<1> QED
  BY <1>4, <1>5

\* The calls of tasks keep the invariant.
LEMMA TaskCalls == ASSUME IInv, BootedInv, TaskInv, NEW c \in Slots, Calls(c) PROVE TaskInv'
<1>1. /\ c = cpu /\ UNCHANGED <<pid, NEXT_PID, cpu>> /\ pc'[cpu'] \notin CreateLocs
      /\ \A s \in Slots : state[s] = "Empty" => state'[s] = "Empty"
  BY CallFrame
<1>2. NewInv'
  BY <1>1 DEF NewInv, CreateLocs, Unborn, Born
<1>3. PidInv'
  BY <1>1 DEF TaskInv, PidInv, CreateLocs
<1> QED
  BY <1>2, <1>3, CallWait, CallArg, CallPage DEF TaskInv

-----------------------------------------------------------------------------
(* new_kernel_task, which only tasks still call                              *)

\* What all its steps have in common.
LEMMA CreateFrame ==
    ASSUME IInv, BootedInv, NEW c \in Slots, new_kernel_task(c)
    PROVE  /\ c = cpu /\ c # Idle /\ CURRENT = c /\ state[c] = "Running" /\ cpu' = cpu
           /\ pc[c] \in CreateLocs \cup {"body"}
           /\ pc[c] \in CreateLocs => new[c].slot \in Slots \ {c, Idle}
           /\ \A s \in Slots \ {c} : pc'[s] = pc[s] \/ pc'[s] = "body"
           /\ pc'[c] \in CreateLocs \cup {"body"}
<1>1. PICK l \in CreateLocs \cup {"boot", "body"} : At(c, l) /\ (l = "boot" => bootLeft > 0)
  BY DEF new_kernel_task, alloc_slot, Creates, AllocPhys0, AllocPhys1, alloc_pid, StoreFrame,
     StoreReady, StoreStack, StoreSleepUntil, StoreWaitForPid, StoreExitCode, CreateLocs
<1>2. l # "boot" /\ l # "idle"
  BY <1>1 DEF BootedInv, CreateLocs
<1>3. /\ c = cpu /\ CURRENT = c /\ state[c] = "Running" /\ pc[c] = l
      /\ new[c].slot # c /\ new[c].slot # Idle
  BY <1>1, InCreate
<1>4. c # Idle
  BY <1>2, <1>3 DEF BootedInv
<1>5. pc[c] \in CreateLocs => new[c].slot \in Slots
  BY DEF IInv, CreateInv
<1>6. cpu' = cpu
  BY DEF new_kernel_task, alloc_slot, CreateFails, AllocPhys0, AllocPhys1, alloc_pid,
     StoreFrame, StoreReady, StoreStack, StoreSleepUntil, StoreWaitForPid, StoreExitCode,
     hardware
<1>7. pc \in [Slots -> Locs]
  BY DEF IInv, TypeOK
<1>8. /\ \A s \in Slots \ {c} : pc'[s] = pc[s] \/ pc'[s] = "body"
      /\ pc'[c] \in CreateLocs \cup {"body"}
  <2>1. CASE StoreFrame(c)
    BY <1>3, <1>5, <1>7, <2>1 DEF StoreFrame, At, CreateLocs
  <2>2. CASE ~StoreFrame(c)
    <3>1. \E k \in CreateLocs \cup {"body"} : pc' = [pc EXCEPT ![c] = k]
      BY <1>4, <2>2 DEF new_kernel_task, alloc_slot, CreateFails, AllocPhys0, AllocPhys1,
         alloc_pid, StoreReady, StoreStack, StoreSleepUntil, StoreWaitForPid, StoreExitCode,
         Goto, CreateLocs
    <3> QED
      BY <1>7, <3>1
  <2> QED
    BY <2>1, <2>2
<1> QED
  BY <1>2, <1>3, <1>4, <1>5, <1>6, <1>8

\* A creation leaves the other tasks' deadlines and awaited pids alone.
LEMMA CreateWait ==
    ASSUME IInv, BootedInv, TaskInv, NEW c \in Slots, new_kernel_task(c)
    PROVE  WaitInv'
<1>1. /\ c = cpu /\ (pc[c] \in CreateLocs => new[c].slot \in Slots)
      /\ WaitInv /\ NewInv /\ PidInv
  BY CreateFrame DEF TaskInv
<1>2. /\ state \in [Slots -> TaskState] /\ sleep_until \in [Slots -> Nat \cup {None}]
      /\ wait_for_pid \in [Slots -> Nat \cup {None}] /\ pid \in [Slots -> Nat]
      /\ exit_code \in [Slots -> Nat]
  BY DEF IInv, TypeOK
<1>3. CASE alloc_slot(c) \/ AllocPhys0(c) \/ AllocPhys1(c) \/ alloc_pid(c)
  <2>1. UNCHANGED table
    BY <1>3 DEF alloc_slot, AllocPhys0, AllocPhys1, alloc_pid
  <2> QED
    BY <1>1, <2>1 DEF table, WaitInv, Alive
<1>4. CASE StoreFrame(c)
  <2>1. /\ pid' = [pid EXCEPT ![new[c].slot] = new[c].pid]
        /\ UNCHANGED <<state, sleep_until, wait_for_pid, exit_code>>
    BY <1>4 DEF StoreFrame
  <2>2. state[new[c].slot] = "Empty"
    BY <1>1, <1>4 DEF StoreFrame, At, NewInv, Unborn
  <2>3. \A s \in Slots : state[s] # "Empty" => pid'[s] = pid[s]
    BY <1>2, <2>1, <2>2
  <2> QED
    BY <1>1, <2>1, <2>3 DEF WaitInv, Alive
<1>5. CASE StoreReady(c)
  <2>1. /\ state' = [state EXCEPT ![new[c].slot] = "Ready"]
        /\ UNCHANGED <<pid, sleep_until, wait_for_pid, exit_code>>
    BY <1>5 DEF StoreReady
  <2>2. state[new[c].slot] = "Empty"
    BY <1>1, <1>5 DEF StoreReady, At, NewInv, Unborn
  <2>3. \A s \in Slots : Alive(s) => Alive(s)'
    BY <1>2, <2>1 DEF Alive
  <2> QED
    BY <1>1, <1>2, <2>1, <2>2, <2>3 DEF WaitInv
<1>6. CASE StoreStack(c) \/ StoreSleepUntil(c) \/ StoreWaitForPid(c) \/ StoreExitCode(c)
  <2>1. new[c].slot \in Slots /\ state[new[c].slot] = "Ready"
    BY <1>1, <1>6 DEF StoreStack, StoreSleepUntil, StoreWaitForPid, StoreExitCode, At, NewInv,
       Born, CreateLocs
  <2>2. UNCHANGED <<state, pid>>
    BY <1>6 DEF StoreStack, StoreSleepUntil, StoreWaitForPid, StoreExitCode
  <2>3. /\ sleep_until' = sleep_until \/ sleep_until' = [sleep_until EXCEPT ![new[c].slot] = None]
        /\ \/ wait_for_pid' = wait_for_pid
           \/ wait_for_pid' = [wait_for_pid EXCEPT ![new[c].slot] = None]
        /\ exit_code' = exit_code \/ exit_code' = [exit_code EXCEPT ![new[c].slot] = 0]
    BY <1>6 DEF StoreStack, StoreSleepUntil, StoreWaitForPid, StoreExitCode
  <2>4. sleep_until[new[c].slot] = None /\ wait_for_pid[new[c].slot] = None
    BY <1>1, <2>1 DEF WaitInv
  <2>5. /\ \A s \in Slots : sleep_until'[s] = sleep_until[s] /\ wait_for_pid'[s] = wait_for_pid[s]
        /\ \A s \in Slots \ {new[c].slot} : exit_code'[s] = exit_code[s]
    BY <1>2, <2>1, <2>3, <2>4
  <2> QED
    BY <1>1, <2>1, <2>2, <2>5 DEF WaitInv, Alive
<1> QED
  BY <1>3, <1>4, <1>5, <1>6 DEF new_kernel_task

\* Nor does it touch the locals of sleep_ms and wait_for.
LEMMA CreateArg ==
    ASSUME IInv, BootedInv, TaskInv, NEW c \in Slots, new_kernel_task(c)
    PROVE  ArgInv'
<1>1. ArgInv /\ arg \in [Slots -> Nat \cup {None}] /\ result \in [Slots -> Int \cup {None}]
  BY DEF TaskInv, IInv, TypeOK
<1>2. \A s \in Slots : pc'[s] = "sleep" => pc[s] = "sleep" /\ s # c
  BY CreateFrame DEF CreateLocs
<1>3. \/ arg' = arg /\ result' = result
      \/ arg' = [arg EXCEPT ![c] = None] /\ result' = [result EXCEPT ![c] = None]
  BY DEF new_kernel_task, alloc_slot, Forget, AllocPhys0, AllocPhys1, alloc_pid,
     StoreFrame, StoreReady, StoreStack, StoreSleepUntil, StoreWaitForPid, StoreExitCode,
     locals
<1> QED
  BY <1>1, <1>2, <1>3 DEF ArgInv

\* The new pid is nobody's: it is NEXT_PID when it is drawn, and no other
\* creation runs before it is stored.
LEMMA CreatePid ==
    ASSUME IInv, BootedInv, TaskInv, NEW c \in Slots, new_kernel_task(c)
    PROVE  PidInv'
<1>1. /\ c = cpu /\ cpu' = cpu /\ (pc[c] \in CreateLocs => new[c].slot \in Slots)
      /\ NewInv /\ PidInv
  BY CreateFrame DEF TaskInv
<1>2. /\ state \in [Slots -> TaskState] /\ pid \in [Slots -> Nat] /\ NEXT_PID \in Nat
      /\ pc \in [Slots -> Locs]
  BY DEF IInv, TypeOK
<1>3. new[c] \in [slot : SlotOrNone, phys0 : FrameOrNone, phys1 : FrameOrNone,
                  pid : Nat \cup {None}]
  BY DEF IInv, TypeOK
<1>4. CASE alloc_slot(c) \/ AllocPhys0(c) \/ AllocPhys1(c)
  <2>1. UNCHANGED <<state, pid, NEXT_PID>>
    BY <1>4 DEF alloc_slot, AllocPhys0, AllocPhys1, table, statics
  <2>2. pc'[c] \in {"c_page0", "c_page1", "c_pid", "panic", "body"}
    BY <1>2, <1>4 DEF alloc_slot, AllocPhys0, AllocPhys1, CreateFails, Goto
  <2> QED
    BY <1>1, <2>1, <2>2 DEF PidInv
<1>5. CASE alloc_pid(c)
  <2>1. UNCHANGED <<state, pid>> /\ NEXT_PID' = NEXT_PID + 1 /\ pc'[c] = "c_frame"
    BY <1>2, <1>5 DEF alloc_pid, table, Goto
  <2>2. new'[c].pid = NEXT_PID
    BY <1>5 DEF alloc_pid, IInv, TypeOK
  <2> QED
    BY <1>1, <1>2, <2>1, <2>2 DEF PidInv
<1>6. CASE StoreFrame(c)
  <2>1. /\ new[c].slot \in Slots /\ state[new[c].slot] = "Empty" /\ pc[c] = "c_frame"
    BY <1>1, <1>6 DEF StoreFrame, At, NewInv, Unborn, CreateLocs
  <2>2. /\ pid' = [pid EXCEPT ![new[c].slot] = new[c].pid] /\ UNCHANGED <<state, NEXT_PID, new>>
    BY <1>6 DEF StoreFrame, statics, locals
  <2>3. \A s \in Slots : state[s] # "Empty" => pid'[s] = pid[s]
    BY <1>2, <2>1, <2>2
  <2>4. pid'[new[c].slot] = new[c].pid
    BY <1>2, <2>1, <2>2
  <2> QED
    BY <1>1, <2>1, <2>2, <2>3, <2>4 DEF PidInv
<1>7. CASE StoreReady(c)
  <2>1. /\ new[c].slot \in Slots /\ state[new[c].slot] = "Empty" /\ pc[c] = "c_ready"
    BY <1>1, <1>7 DEF StoreReady, At, NewInv, Unborn, CreateLocs
  <2>2. /\ state' = [state EXCEPT ![new[c].slot] = "Ready"] /\ UNCHANGED <<pid, NEXT_PID, new>>
        /\ pc'[c] = "c_stack"
    BY <1>2, <1>7 DEF StoreReady, statics, locals, Goto
  <2>3. \A s \in Slots : state'[s] # "Empty" => s = new[c].slot \/ state[s] # "Empty"
    BY <1>2, <2>2
  <2> QED
    BY <1>1, <2>1, <2>2, <2>3 DEF PidInv
<1>8. CASE StoreStack(c) \/ StoreSleepUntil(c) \/ StoreWaitForPid(c) \/ StoreExitCode(c)
  <2>1. UNCHANGED <<state, pid, NEXT_PID>>
    BY <1>8 DEF StoreStack, StoreSleepUntil, StoreWaitForPid, StoreExitCode, statics
  <2>2. pc'[c] \in {"c_sleep", "c_wait", "c_code", "boot", "body"}
    BY <1>2, <1>8 DEF StoreStack, StoreSleepUntil, StoreWaitForPid, StoreExitCode, Goto
  <2> QED
    BY <1>1, <2>1, <2>2 DEF PidInv
<1> QED
  BY <1>4, <1>5, <1>6, <1>7, <1>8 DEF new_kernel_task

\* The slot stays Empty until the store of state, and Ready from there.
LEMMA CreateNew ==
    ASSUME IInv, BootedInv, TaskInv, NEW c \in Slots, new_kernel_task(c)
    PROVE  NewInv'
<1>1. c = cpu /\ cpu' = cpu /\ NewInv /\ (pc[c] \in CreateLocs => new[c].slot \in Slots)
  BY CreateFrame DEF TaskInv
<1>2. /\ state \in [Slots -> TaskState] /\ pc \in [Slots -> Locs]
      /\ new \in [Slots -> [slot : SlotOrNone, phys0 : FrameOrNone, phys1 : FrameOrNone,
                            pid : Nat \cup {None}]]
  BY DEF IInv, TypeOK
<1>3. CASE alloc_slot(c)
  <2>1. CASE \A i \in Slots : state[i] # "Empty"
    BY <1>1, <1>2, <1>3, <2>1 DEF alloc_slot, CreateFails, Goto, NewInv, Unborn, Born
  <2>2. CASE ~ \A i \in Slots : state[i] # "Empty"
    <3>1. PICK i \in Slots : FirstEmpty(i) /\ new' = [new EXCEPT ![c].slot = i]
      BY <1>3, <2>2 DEF alloc_slot
    <3>2. new'[c].slot = i /\ state[i] = "Empty"
      BY <1>2, <3>1 DEF FirstEmpty
    <3>3. pc'[c] = "c_page0" /\ state' = state
      BY <1>2, <1>3, <2>2 DEF alloc_slot, Goto, table
    <3> QED
      BY <1>1, <3>2, <3>3 DEF NewInv, Unborn, Born
  <2> QED
    BY <2>1, <2>2
<1>4. CASE AllocPhys0(c) \/ AllocPhys1(c) \/ alloc_pid(c)
  <2>1. pc[c] \in Unborn /\ state' = state
    BY <1>4 DEF AllocPhys0, AllocPhys1, alloc_pid, At, Unborn, table
  <2>2. CASE pc'[c] \notin CreateLocs
    BY <1>1, <2>2 DEF NewInv, Unborn, Born, CreateLocs
  <2>3. CASE pc'[c] \in CreateLocs
    <3>1. pc'[c] \in {"c_page1", "c_pid", "c_frame"} /\ new'[c].slot = new[c].slot
      BY <1>2, <1>4, <2>3 DEF AllocPhys0, AllocPhys1, alloc_pid, CreateFails, Goto, CreateLocs
    <3> QED
      BY <1>1, <2>1, <3>1 DEF NewInv, Unborn, Born
  <2> QED
    BY <2>2, <2>3
<1>5. CASE StoreFrame(c)
  <2>1. pc'[c] = "c_ready" /\ state' = state /\ new' = new /\ pc[c] = "c_frame"
    <3>1. new[c].slot # c
      BY <1>5, CreateFrame DEF StoreFrame, At, CreateLocs
    <3> QED
      BY <1>2, <1>5, <3>1 DEF StoreFrame, At, locals
  <2> QED
    BY <1>1, <2>1 DEF NewInv, Unborn, Born
<1>6. CASE StoreReady(c)
  <2>1. /\ pc'[c] = "c_stack" /\ state' = [state EXCEPT ![new[c].slot] = "Ready"] /\ new' = new
        /\ new[c].slot \in Slots
    BY <1>1, <1>2, <1>6 DEF StoreReady, At, Goto, locals, CreateLocs
  <2> QED
    BY <1>1, <1>2, <2>1 DEF NewInv, Unborn, Born
<1>7. CASE StoreStack(c) \/ StoreSleepUntil(c) \/ StoreWaitForPid(c)
  <2>1. pc'[c] \in Born /\ state' = state /\ new' = new /\ pc[c] \in Born
    BY <1>2, <1>7 DEF StoreStack, StoreSleepUntil, StoreWaitForPid, At, Goto, locals, Born
  <2> QED
    BY <1>1, <2>1 DEF NewInv, Unborn, Born
<1>8. CASE StoreExitCode(c)
  <2>1. pc'[c] \notin CreateLocs
    BY <1>2, <1>8 DEF StoreExitCode, Goto, CreateLocs
  <2> QED
    BY <1>1, <2>1 DEF NewInv, Unborn, Born, CreateLocs
<1> QED
  BY <1>3, <1>4, <1>5, <1>6, <1>7, <1>8 DEF new_kernel_task

\* Page frames are taken from the free ones and given back once, and a stack
\* counts from the store of stack_base and stack_top on.
LEMMA CreatePage ==
    ASSUME IInv, BootedInv, TaskInv, NEW c \in Slots, new_kernel_task(c)
    PROVE  PageInv'
<1>1. /\ c = cpu /\ cpu' = cpu /\ c # Idle /\ state[c] = "Running" /\ PageInv /\ NewInv
      /\ (pc[c] \in CreateLocs => new[c].slot \in Slots \ {c, Idle})
  BY CreateFrame DEF TaskInv
<1>2. /\ state \in [Slots -> TaskState] /\ pc \in [Slots -> Locs]
      /\ stack_base \in [Slots -> Frames] /\ stack_top \in [Slots -> Nat]
      /\ new \in [Slots -> [slot : SlotOrNone, phys0 : FrameOrNone, phys1 : FrameOrNone,
                            pid : Nat \cup {None}]]
  BY DEF IInv, TypeOK
<1>3. CASE alloc_slot(c)
  <2>1. UNCHANGED <<state, stack_base, stack_top, freePages>>
    BY <1>3 DEF alloc_slot, table
  <2>2. pc[c] \notin CreateLocs /\ pc'[c] \in {"c_page0", "body", "panic"}
    BY <1>2, <1>3 DEF alloc_slot, Creates, At, CreateFails, Goto, CreateLocs
  <2>3. Live' = Live /\ Stored = Live /\ Stored' = Live
    BY <1>1, <2>1, <2>2 DEF Live, Stored, CreateLocs
  <2> QED
    BY <1>1, <2>1, <2>2, <2>3 DEF PageInv, CreateLocs
<1>4. CASE AllocPhys0(c)
  <2>1. UNCHANGED <<state, stack_base, stack_top>> /\ pc[c] = "c_page0"
    BY <1>4 DEF AllocPhys0, At, table
  <2>2. pc'[c] \in {"c_page1", "body", "panic"}
    BY <1>2, <1>4 DEF AllocPhys0, CreateFails, Goto
  <2>3. Live' = Live /\ Stored = Live /\ Stored' = Live
    BY <1>1, <2>1, <2>2 DEF Live, Stored
  <2>4. CASE freePages = {}
    <3>1. freePages' = freePages /\ pc'[c] \in {"body", "panic"}
      BY <1>2, <1>4, <2>4 DEF AllocPhys0, CreateFails, Goto
    <3> QED
      BY <1>1, <2>1, <2>3, <3>1 DEF PageInv
  <2>5. CASE freePages # {}
    <3>1. PICK p \in freePages : Take(p) /\ new' = [new EXCEPT ![c].phys0 = p]
      BY <1>4, <2>5 DEF AllocPhys0
    <3>2. freePages' = freePages \ {p} /\ new'[c].phys0 = p /\ p \in freePages
      BY <1>2, <3>1 DEF Take
    <3>3. Unused(new[c].phys0)'
      BY <1>1, <2>1, <2>3, <3>2 DEF Unused, PageInv
    <3> QED
      BY <1>1, <2>1, <2>2, <2>3, <3>2, <3>3 DEF PageInv, Unused
  <2> QED
    BY <2>4, <2>5
<1>5. CASE AllocPhys1(c)
  <2>1. UNCHANGED <<state, stack_base, stack_top>> /\ pc[c] = "c_page1"
    BY <1>5 DEF AllocPhys1, At, table
  <2>2. pc'[c] \in {"c_pid", "body", "panic"}
    BY <1>2, <1>5 DEF AllocPhys1, CreateFails, Goto
  <2>3. Live' = Live /\ Stored = Live /\ Stored' = Live
    BY <1>1, <2>1, <2>2 DEF Live, Stored
  <2>4. Unused(new[c].phys0) /\ c \in Live
    BY <1>1, <2>1 DEF PageInv, Live
  <2>5. CASE freePages = {}
    <3>1. freePages' = freePages \cup {new[c].phys0} /\ pc'[c] \in {"body", "panic"}
      BY <1>2, <1>5, <2>5 DEF AllocPhys1, CreateFails, Goto
    <3> QED
      BY <1>1, <2>1, <2>3, <2>4, <3>1 DEF PageInv, Unused
  <2>6. CASE freePages # {}
    <3>1. PICK p \in freePages : Take(p) /\ new' = [new EXCEPT ![c].phys1 = p]
      BY <1>5, <2>6 DEF AllocPhys1
    <3>2. /\ freePages' = freePages \ {p} /\ new'[c].phys1 = p /\ new'[c].phys0 = new[c].phys0
          /\ p \in freePages
      BY <1>2, <3>1 DEF Take
    <3>3. Unused(new[c].phys0)' /\ Unused(new[c].phys1)' /\ new'[c].phys1 # new'[c].phys0
      BY <1>1, <2>1, <2>3, <2>4, <3>2 DEF Unused, PageInv
    <3> QED
      BY <1>1, <2>1, <2>2, <2>3, <3>2, <3>3 DEF PageInv, Unused
  <2> QED
    BY <2>5, <2>6
<1>6. CASE alloc_pid(c) \/ StoreFrame(c)
  <2>1. UNCHANGED <<state, stack_base, stack_top, freePages>> /\ pc[c] \in {"c_pid", "c_frame"}
    BY <1>6 DEF alloc_pid, StoreFrame, At, table
  <2>2. new'[c].phys0 = new[c].phys0 /\ new'[c].phys1 = new[c].phys1
    BY <1>2, <1>6 DEF alloc_pid, StoreFrame, locals
  <2>3. pc'[c] \in {"c_frame", "c_ready"}
    BY <1>1, <1>2, <1>6, <2>1 DEF alloc_pid, StoreFrame, Goto, CreateLocs
  <2>4. Live' = Live /\ Stored = Live /\ Stored' = Live
    BY <1>1, <2>1, <2>3 DEF Live, Stored
  <2>5. Unused(new[c].phys0) /\ Unused(new[c].phys1) /\ new[c].phys1 # new[c].phys0
    BY <1>1, <2>1 DEF PageInv, Unused
  <2>6. Unused(new[c].phys0)' /\ Unused(new[c].phys1)'
    BY <2>1, <2>2, <2>4, <2>5 DEF Unused
  <2> QED
    BY <1>1, <2>1, <2>2, <2>4, <2>5, <2>6 DEF PageInv, Unused
<1>7. CASE StoreReady(c)
  <2>1. /\ state' = [state EXCEPT ![new[c].slot] = "Ready"] /\ pc[c] = "c_ready"
        /\ UNCHANGED <<stack_base, stack_top, freePages, new>> /\ pc'[c] = "c_stack"
    BY <1>2, <1>7 DEF StoreReady, At, Goto, locals
  <2>2. new[c].slot \in Slots \ {c, Idle} /\ new[c].slot \notin Live
    BY <1>1, <2>1 DEF NewInv, Unborn, CreateLocs, Live
  <2>3. Live' = Live \cup {new[c].slot}
    BY <1>2, <2>1, <2>2 DEF Live
  <2>4. Stored' = Live /\ Stored = Live
    BY <1>1, <2>1, <2>2, <2>3 DEF Stored
  <2>5. Unused(new[c].phys0) /\ Unused(new[c].phys1) /\ new[c].phys1 # new[c].phys0
    BY <1>1, <2>1 DEF PageInv, Unused
  <2>6. Unused(new[c].phys0)' /\ Unused(new[c].phys1)'
    BY <2>1, <2>4, <2>5 DEF Unused
  <2> QED
    BY <1>1, <2>1, <2>4, <2>5, <2>6 DEF PageInv, Unused
<1>8. CASE StoreStack(c)
  <2> DEFINE s == new[c].slot
  <2>1. /\ stack_base' = [stack_base EXCEPT ![s] = new[c].phys0] /\ pc[c] = "c_stack"
        /\ stack_top' = [stack_top EXCEPT ![s] = new[c].phys1 + 1]
        /\ UNCHANGED <<state, freePages>> /\ pc'[c] = "c_sleep"
    BY <1>2, <1>8 DEF StoreStack, At, Goto
  <2>2. s \in Slots \ {c, Idle} /\ state[s] = "Ready"
    BY <1>1, <2>1 DEF NewInv, Born, CreateLocs
  <2>3. Stored' = Live /\ Stored = Live \ {s}
    BY <1>1, <2>1 DEF Stored, Live
  <2>4. Unused(new[c].phys0) /\ Unused(new[c].phys1) /\ new[c].phys1 # new[c].phys0
    BY <1>1, <2>1 DEF PageInv
  <2>5. new[c].phys1 \in Int
    <3>1. new[c].phys1 \in Frames
      BY <1>1, <2>1 DEF IInv, CreateInv, CreateLocs
    <3>2. \A f \in Frames : f \in Int
      BY SchedulerAssumption DEF Frames
    <3> QED
      BY <3>1, <3>2, Zenon
  <2>6. stack_base'[s] = new[c].phys0 /\ stack_top'[s] = new[c].phys1 + 1
    BY <1>2, <2>1, <2>2
  <2>7. \A t \in Slots \ {s} : stack_base'[t] = stack_base[t] /\ stack_top'[t] = stack_top[t]
    BY <1>2, <2>1
  <2>8. \A t \in Slots : stack_top[t] \in Int
    BY <1>2
  <2>9. Live \subseteq Slots
    BY DEF Live
  <2> HIDE DEF s
  <2>10. /\ new[c].phys0 \notin freePages /\ new[c].phys1 \notin freePages
         /\ \A t \in Live \ {s} : /\ new[c].phys0 # stack_base[t] /\ new[c].phys0 # stack_top[t] - 1
                                  /\ new[c].phys1 # stack_base[t] /\ new[c].phys1 # stack_top[t] - 1
    BY <2>3, <2>4 DEF Unused
  <2>11. \A t \in Live : /\ stack_base'[t] # stack_top'[t] - 1
                         /\ stack_base'[t] \notin freePages' /\ stack_top'[t] - 1 \notin freePages'
    BY <1>1, <2>1, <2>3, <2>4, <2>5, <2>6, <2>7, <2>9, <2>10 DEF PageInv
  <2>12. \A t, u \in Live : t # u =>
            /\ stack_base'[t] # stack_base'[u] /\ stack_base'[t] # stack_top'[u] - 1
            /\ stack_top'[t] # stack_top'[u]
    BY <1>1, <2>3, <2>5, <2>6, <2>7, <2>8, <2>9, <2>10 DEF PageInv
  <2>13. stack_top'[c] - 1 \notin freePages'
    BY <1>1, <2>1, <2>2, <2>7 DEF PageInv
  <2> QED
    BY <1>1, <2>1, <2>3, <2>11, <2>12, <2>13 DEF PageInv
<1>9. CASE StoreSleepUntil(c) \/ StoreWaitForPid(c) \/ StoreExitCode(c)
  <2>1. /\ UNCHANGED <<state, stack_base, stack_top, freePages>>
        /\ pc[c] \in {"c_sleep", "c_wait", "c_code"}
        /\ pc'[c] \in {"c_wait", "c_code", "boot", "body"}
    BY <1>2, <1>9 DEF StoreSleepUntil, StoreWaitForPid, StoreExitCode, At, Goto
  <2>2. Live' = Live /\ Stored = Live /\ Stored' = Live
    BY <1>1, <2>1 DEF Live, Stored
  <2> QED
    BY <1>1, <2>1, <2>2 DEF PageInv
<1> QED
  BY <1>3, <1>4, <1>5, <1>6, <1>7, <1>8, <1>9 DEF new_kernel_task

-----------------------------------------------------------------------------
(* The theorems                                                              *)

\* Every step keeps what BootedInv and TaskInv say.
LEMMA BootedStep == ASSUME IInv, BootedInv, [Next]_vars PROVE BootedInv'
<1>1. CASE idle_task
  BY <1>1, IdleSlot DEF idle_task, At, Goto, table, hardware, locals, BootedInv, IInv, TypeOK,
     CreateLocs
<1>2. CASE UNCHANGED vars
  BY <1>2 DEF vars, table, hardware, stacks, locals, BootedInv
<1> QED
  BY <1>1, <1>2, BootedKernel, BootedCalls, BootedCreate DEF Next, CpuStep

\* Every step after boot keeps TaskInv.
LEMMA TaskStep == ASSUME IInv, BootedInv, TaskInv, [Next]_vars PROVE TaskInv'
<1>1. CASE idle_task
  <2>1. UNCHANGED <<table, NEXT_PID, cpu, new, arg, result, freePages>>
    BY <1>1 DEF idle_task, statics, hardware, locals
  <2>2. pc = [pc EXCEPT ![Idle] = "boot"] /\ pc' = [pc EXCEPT ![Idle] = "idle"]
    BY <1>1 DEF idle_task, At, Goto, IInv, TypeOK
  <2>3. cpu = Idle
    BY <1>1 DEF idle_task, At
  <2>4. pc[cpu] = "boot" /\ pc'[cpu] = "idle" /\ \A s \in Slots \ {cpu} : pc'[s] = pc[s]
    BY <2>2, <2>3, IdleSlot DEF IInv, TypeOK
  <2>5. Stored' = Stored
    BY <2>1, <2>4 DEF table, Stored, Live
  <2>6. NewInv' /\ PidInv' /\ WaitInv'
    BY <2>1, <2>4 DEF table, TaskInv, NewInv, Unborn, Born, PidInv, WaitInv, Alive
  <2>7. ArgInv' /\ PageInv'
    BY <2>1, <2>4, <2>5 DEF table, TaskInv, ArgInv, PageInv
  <2> QED
    BY <2>6, <2>7 DEF TaskInv
<1>2. CASE UNCHANGED vars
  <2>1. UNCHANGED <<table, NEXT_PID, cpu, new, pc, arg, result, freePages>>
    BY <1>2 DEF vars, statics, hardware, stacks, locals
  <2>2. Stored' = Stored
    BY <2>1 DEF table, Stored, Live
  <2>3. NewInv' /\ PidInv' /\ WaitInv'
    BY <2>1 DEF table, TaskInv, NewInv, Unborn, Born, PidInv, WaitInv, Alive
  <2>4. ArgInv' /\ PageInv'
    BY <2>1, <2>2 DEF table, TaskInv, ArgInv, PageInv, Unused
  <2> QED
    BY <2>3, <2>4 DEF TaskInv
<1>3. ASSUME NEW c \in Slots, new_kernel_task(c) PROVE TaskInv'
  BY <1>3, CreateNew, CreatePid, CreateWait, CreateArg, CreatePage DEF TaskInv
<1> QED
  BY <1>1, <1>2, <1>3, TaskSchedule, TaskTick, TaskCalls DEF Next, CpuStep

\* The invariant of the tasks, from the end of _start's creations on.
THEOREM TaskInvariance == (Made = BootTasks) /\ Spec => [](IInv /\ BootedInv /\ TaskInv)
<1>1. (Made = BootTasks) /\ Init => BootedInv /\ TaskInv
  BY BootedInit, TaskInit
<1>2. IInv /\ BootedInv /\ TaskInv /\ [Next]_vars => BootedInv' /\ TaskInv'
  BY BootedStep, TaskStep
<1> QED
  BY <1>1, <1>2, Invariance, PTL DEF Spec

\* A Blocked task always has a deadline, or a task that has yet to exit, to
\* wake it: no wake-up of exit() or of the tick is lost.
THEOREM NoLostWakeup == (Made = BootTasks) /\ Spec => []BlockedIsWakeable
<1>1. IInv /\ BootedInv /\ TaskInv => BlockedIsWakeable
  BY DEF TaskInv, WaitInv, Alive, BlockedIsWakeable
<1> QED
  BY <1>1, TaskInvariance, PTL

\* wait_for returns the exit code of the task it was called for, or -1: pids
\* are not reused although slots are.
THEOREM ExitCodeDelivered == (Made = BootTasks) /\ Spec => []WaitReturnsExitCode
<1>1. IInv /\ BootedInv /\ TaskInv => WaitReturnsExitCode
  BY DEF TaskInv, ArgInv, WaitReturnsExitCode
<1> QED
  BY <1>1, TaskInvariance, PTL

\* No page of a live stack is free or in a second stack, and the CPU never
\* runs on a page that was given back.
THEOREM StacksDisjoint == (Made = BootTasks) /\ Spec => []StackPagesOwned
<1>1. ASSUME IInv, BootedInv, TaskInv PROVE StackPagesOwned
  <2>1. cpu \in Slots /\ Live \subseteq Slots /\ stack_top \in [Slots -> Nat]
    BY <1>1 DEF IInv, TypeOK, Live
  <2>2. ASSUME NEW s \in Live
        PROVE  \/ Stack(s) = {}
               \/ s \in Stored /\ Stack(s) = {stack_base[s], stack_top[s] - 1}
    <3>1. CASE pc[cpu] = "c_stack" /\ new[cpu].slot = s
      BY <2>1, <3>1 DEF Stack
    <3>2. CASE ~ (pc[cpu] = "c_stack" /\ new[cpu].slot = s)
      <4>1. \A c \in Slots : ~ (pc[c] = "c_stack" /\ new[c].slot = s)
        BY <1>1, <3>2 DEF BootedInv, CreateLocs
      <4>2. s \in Stored
        BY <3>2 DEF Stored
      <4> QED
        BY <4>1, <4>2 DEF Stack
    <3> QED
      BY <3>1, <3>2
  <2>3. PageInv
    BY <1>1 DEF TaskInv
  <2>4. \A s \in Live : Stack(s) \cap freePages = {}
    BY <2>2, <2>3 DEF PageInv
  <2>5. ASSUME NEW s \in Live, NEW t \in Live, s # t PROVE Stack(s) \cap Stack(t) = {}
    <3>1. CASE Stack(s) = {} \/ Stack(t) = {}
      BY <3>1
    <3>2. CASE s \in Stored /\ t \in Stored /\ Stack(s) = {stack_base[s], stack_top[s] - 1}
                            /\ Stack(t) = {stack_base[t], stack_top[t] - 1}
      BY <2>1, <2>3, <2>5, <3>2 DEF PageInv
    <3> QED
      BY <2>2, <3>1, <3>2
  <2> QED
    BY <2>3, <2>4, <2>5 DEF StackPagesOwned, PageInv
<1> QED
  BY <1>1, TaskInvariance, PTL

-----------------------------------------------------------------------------
(* Where the page frames are                                                 *)

\* The frames that new_kernel_task in progress holds, and whether it has drawn
\* a pid for a task that is not live yet.
Held  == IF pc[cpu] = "c_page1" THEN 1
         ELSE IF pc[cpu] \in {"c_pid", "c_frame", "c_ready"} THEN 2 ELSE 0
Drawn == IF pc[cpu] \in {"c_frame", "c_ready"} THEN 1 ELSE 0

\* PageBalance without the sets of creators: every task that was started has
\* one frame out of the pool for good, and a live one has a second.
BalanceInv ==
    Cardinality(freePages) + Cardinality(Live) + (NEXT_PID - 1 - Drawn) + Held
        = Cardinality(Available)

\* The sets counted are finite.
LEMMA Counts ==
    ASSUME TypeOK
    PROVE  /\ IsFiniteSet(freePages) /\ IsFiniteSet(Live)
           /\ Cardinality(freePages) \in Nat /\ Cardinality(Live) \in Nat
           /\ NEXT_PID \in Nat /\ Cardinality(Available) \in Nat
<1>1. IsFiniteSet(Slots) /\ IsFiniteSet(Frames)
  <2>1. IsFiniteSet({0} \cup Available)
    BY SchedulerAssumption, FS_Singleton, FS_Union
  <2> QED
    BY <2>1, SchedulerAssumption, FS_Interval DEF Slots, Frames
<1>2. freePages \in SUBSET Frames /\ Live \in SUBSET Slots
  BY DEF TypeOK, Live
<1>3. IsFiniteSet(freePages) /\ IsFiniteSet(Live)
  BY <1>1, <1>2, FS_Subset
<1> QED
  BY <1>3, FS_CardinalityType, SchedulerAssumption DEF TypeOK

\* The page frames add up in the state after _start's creations.
LEMMA BalanceInit == ASSUME Init, Made = BootTasks PROVE BalanceInv
<1>1. Live = 1..Made
  BY SchedulerAssumption DEF Init, Live, Slots, Idle
<1>2. Made \in Nat /\ IsFiniteSet(Available) /\ Cardinality(Available) \in Nat
  BY SchedulerAssumption, FS_CardinalityType
<1>3. PICK frame \in [1..(2 * Made) -> Available] :
        /\ \A i, j \in 1..(2 * Made) : frame[i] = frame[j] => i = j
        /\ freePages = Available \ {frame[i] : i \in 1..(2 * Made)}
  BY InitStacks
<1> DEFINE S == 1..(2 * Made)
           T == {frame[i] : i \in S}
<1>4. IsFiniteSet(S) /\ Cardinality(S) = 2 * Made
  <2>1. 1 \in Int /\ 2 * Made \in Int
    BY <1>2
  <2>2. IsFiniteSet(S) /\ Cardinality(S) = IF 1 > 2 * Made THEN 0 ELSE 2 * Made - 1 + 1
    BY <2>1, FS_Interval
  <2> QED
    BY <1>2, <2>2
<1>5. frame \in Injection(S, T) /\ frame \in Surjection(S, T)
  <2>1. frame \in [S -> T]
    BY <1>3
  <2>2. \A a, b \in S : frame[a] = frame[b] => a = b
    BY <1>3
  <2>3. \A t \in T : \E a \in S : frame[a] = t
    OBVIOUS
  <2> HIDE DEF S, T
  <2> QED
    BY <2>1, <2>2, <2>3 DEF Injection, Surjection, IsInjective
<1>6. Cardinality(T) = 2 * Made /\ T \subseteq Available
  <2>1. Cardinality(T) = Cardinality(S)
    BY <1>4, <1>5, FS_Surjection
  <2> QED
    BY <1>3, <1>4, <2>1
<1>7. Cardinality(freePages) = Cardinality(Available) - 2 * Made
  <2>1. freePages = Available \ T /\ Available \cap T = T
    BY <1>3, <1>6
  <2>2. Cardinality(Available \ T) = Cardinality(Available) - Cardinality(Available \cap T)
    BY <1>2, FS_Difference
  <2> QED
    BY <1>6, <2>1, <2>2
<1>8. Cardinality(Live) = Made
  <2>1. 1 \in Int /\ Made \in Int
    BY <1>2
  <2>2. Cardinality(1..Made) = IF 1 > Made THEN 0 ELSE Made - 1 + 1
    BY <2>1, FS_Interval
  <2> QED
    BY <1>1, <1>2, <2>2
<1>9. NEXT_PID = Made + 1 /\ Held = 0 /\ Drawn = 0
  BY IdleSlot DEF Init, Held, Drawn
<1> QED
  BY <1>2, <1>7, <1>8, <1>9 DEF BalanceInv

\* Calls: exit() takes a task off the live ones and frees one of its frames.
LEMMA BalanceCalls ==
    ASSUME IInv, BootedInv, TaskInv, BalanceInv, NEW c \in Slots, Calls(c)
    PROVE  BalanceInv'
<1>1. /\ c = cpu /\ c # Idle /\ CURRENT = c /\ state[c] = "Running"
      /\ UNCHANGED <<NEXT_PID, cpu>>
      /\ pc[c] \notin CreateLocs /\ pc'[c] \notin CreateLocs
  BY CallFrame
<1>2. Held = 0 /\ Drawn = 0 /\ Held' = 0 /\ Drawn' = 0
  BY <1>1 DEF Held, Drawn, CreateLocs
<1>3. state \in [Slots -> TaskState]
  BY DEF IInv, TypeOK
<1>4. /\ IsFiniteSet(freePages) /\ IsFiniteSet(Live)
      /\ Cardinality(freePages) \in Nat /\ Cardinality(Live) \in Nat
  BY Counts DEF IInv
<1>5. CASE exit(c)
  <2>1. freePages' = freePages \cup {stack_base[c]}
    BY <1>1, <1>5 DEF exit, FreedByExit
  <2>2. c \in Live /\ c \in Stored
    BY <1>1 DEF Live, Stored, CreateLocs
  <2>3. stack_base[c] \notin freePages
    BY <2>2 DEF TaskInv, PageInv
  <2>4. Live' = Live \ {c}
    BY <1>1, <1>3, <1>5 DEF Live, exit, Waiters
  <2>5. Cardinality(freePages') = Cardinality(freePages) + 1
    BY <1>4, <2>1, <2>3, FS_AddElement
  <2>6. Cardinality(Live') = Cardinality(Live) - 1
    BY <1>4, <2>2, <2>4, FS_RemoveElement
  <2> QED
    BY <1>1, <1>2, <1>4, <2>5, <2>6, Counts DEF BalanceInv, IInv
<1>6. CASE ~exit(c)
  <2>1. freePages' = freePages
    BY <1>6 DEF Calls, yield_cpu, SleepRead, SleepBlock, wait_for, WaitNone, WaitReap, WaitBlock
  <2>2. Live' = Live
    BY <1>1, <1>3, <1>6 DEF Live, Calls, yield_cpu, SleepRead, SleepBlock, wait_for, WaitNone,
       WaitReap, WaitBlock, table
  <2> QED
    BY <1>1, <1>2, <2>1, <2>2 DEF BalanceInv
<1> QED
  BY <1>5, <1>6

\* Creations: the frames are taken one by one, given back on the error path,
\* and belong to a live task from the store of state on.
LEMMA BalanceCreate ==
    ASSUME IInv, BootedInv, TaskInv, BalanceInv, NEW c \in Slots, new_kernel_task(c)
    PROVE  BalanceInv'
<1>1. /\ c = cpu /\ cpu' = cpu /\ c # Idle /\ state[c] = "Running" /\ PageInv /\ NewInv
      /\ (pc[c] \in CreateLocs => new[c].slot \in Slots \ {c, Idle})
  BY CreateFrame DEF TaskInv
<1>2. /\ state \in [Slots -> TaskState] /\ pc \in [Slots -> Locs]
  BY DEF IInv, TypeOK
<1>3. /\ IsFiniteSet(freePages) /\ IsFiniteSet(Live)
      /\ Cardinality(freePages) \in Nat /\ Cardinality(Live) \in Nat
      /\ NEXT_PID \in Nat /\ Cardinality(Available) \in Nat
  BY Counts DEF IInv
<1>4. CASE alloc_slot(c)
  <2>1. UNCHANGED <<state, freePages, NEXT_PID>> /\ pc[c] \notin CreateLocs
    BY <1>4 DEF alloc_slot, Creates, At, table, statics, CreateLocs
  <2>2. pc'[c] \in {"c_page0", "body", "panic"}
    BY <1>2, <1>4 DEF alloc_slot, CreateFails, Goto
  <2>3. Live' = Live /\ Held' = 0 /\ Held = 0 /\ Drawn' = 0 /\ Drawn = 0
    BY <1>1, <2>1, <2>2 DEF Live, Held, Drawn, CreateLocs
  <2> QED
    BY <2>1, <2>3 DEF BalanceInv
<1>5. CASE AllocPhys0(c) \/ AllocPhys1(c)
  <2>1. UNCHANGED <<state, NEXT_PID>>
    BY <1>5 DEF AllocPhys0, AllocPhys1, table, statics
  <2>2. Live' = Live /\ Drawn = 0 /\ pc[c] \in {"c_page0", "c_page1"}
    BY <1>1, <1>5, <2>1 DEF AllocPhys0, AllocPhys1, At, Live, Drawn
  <2>3. CASE freePages = {}
    <3>1. pc'[c] \in {"body", "panic"}
      BY <1>2, <1>5, <2>3 DEF AllocPhys0, AllocPhys1, CreateFails, Goto
    <3>2. Held' = 0 /\ Drawn' = 0
      BY <1>1, <3>1 DEF Held, Drawn
    <3>3. Cardinality(freePages') = Cardinality(freePages) + Held
      <4>1. CASE pc[c] = "c_page0"
        <5>1. freePages' = freePages
          BY <1>5, <2>3, <4>1 DEF AllocPhys0, AllocPhys1, At
        <5>2. Held = 0
          BY <1>1, <4>1 DEF Held
        <5> QED
          BY <1>3, <5>1, <5>2
      <4>2. CASE pc[c] = "c_page1"
        <5>1. freePages' = freePages \cup {new[c].phys0}
          BY <1>5, <2>3, <4>2 DEF AllocPhys0, AllocPhys1, At
        <5>2. new[c].phys0 \notin freePages
          BY <2>3
        <5>3. Cardinality(freePages') = Cardinality(freePages) + 1
          BY <1>3, <5>1, <5>2, FS_AddElement
        <5> QED
          BY <1>1, <4>2, <5>3 DEF Held
      <4> QED
        BY <2>2, <4>1, <4>2
    <3> QED
      BY <1>3, <2>1, <2>2, <3>2, <3>3 DEF BalanceInv, Held
  <2>4. CASE freePages # {}
    <3>1. PICK p \in freePages : freePages' = freePages \ {p}
      BY <1>5, <2>4 DEF AllocPhys0, AllocPhys1, Take
    <3>2. Cardinality(freePages') = Cardinality(freePages) - 1
      BY <1>3, <3>1, FS_RemoveElement
    <3>3. \/ pc[c] = "c_page0" /\ pc'[c] = "c_page1"
          \/ pc[c] = "c_page1" /\ pc'[c] = "c_pid"
      BY <1>2, <1>5, <2>4 DEF AllocPhys0, AllocPhys1, At, Goto
    <3>4. Held' = Held + 1 /\ Drawn' = 0 /\ Held \in Nat
      BY <1>1, <3>3 DEF Held, Drawn
    <3> QED
      BY <1>3, <2>1, <2>2, <3>2, <3>4 DEF BalanceInv
  <2> QED
    BY <2>3, <2>4
<1>6. CASE alloc_pid(c)
  <2>1. UNCHANGED <<state, freePages>> /\ NEXT_PID' = NEXT_PID + 1
    BY <1>6 DEF alloc_pid, table
  <2>2. pc[c] = "c_pid" /\ pc'[c] = "c_frame"
    BY <1>2, <1>6 DEF alloc_pid, At, Goto
  <2>3. Live' = Live /\ Held' = 2 /\ Held = 2 /\ Drawn' = 1 /\ Drawn = 0
    BY <1>1, <2>1, <2>2 DEF Live, Held, Drawn
  <2> QED
    BY <1>3, <2>1, <2>3 DEF BalanceInv
<1>7. CASE StoreFrame(c)
  <2>1. UNCHANGED <<state, freePages, NEXT_PID>>
    BY <1>7 DEF StoreFrame, statics
  <2>2. pc[c] = "c_frame" /\ pc'[c] = "c_ready"
    BY <1>1, <1>2, <1>7 DEF StoreFrame, At, CreateLocs
  <2>3. Live' = Live /\ Held' = 2 /\ Held = 2 /\ Drawn' = 1 /\ Drawn = 1
    BY <1>1, <2>1, <2>2 DEF Live, Held, Drawn
  <2> QED
    BY <1>3, <2>1, <2>3 DEF BalanceInv
<1>8. CASE StoreReady(c)
  <2>1. state' = [state EXCEPT ![new[c].slot] = "Ready"] /\ UNCHANGED <<freePages, NEXT_PID>>
    BY <1>8 DEF StoreReady, statics
  <2>2. pc[c] = "c_ready" /\ pc'[c] = "c_stack"
    BY <1>2, <1>8 DEF StoreReady, At, Goto
  <2>3. new[c].slot \in Slots \ {c, Idle} /\ state[new[c].slot] = "Empty"
    BY <1>1, <2>2 DEF NewInv, Unborn, CreateLocs
  <2>4. Live' = Live \cup {new[c].slot} /\ new[c].slot \notin Live
    BY <1>2, <2>1, <2>3 DEF Live
  <2>5. Cardinality(Live') = Cardinality(Live) + 1
    BY <1>3, <2>4, FS_AddElement
  <2>6. Held' = 0 /\ Held = 2 /\ Drawn' = 0 /\ Drawn = 1
    BY <1>1, <2>2 DEF Held, Drawn
  <2> QED
    BY <1>3, <2>1, <2>5, <2>6 DEF BalanceInv
<1>9. CASE StoreStack(c) \/ StoreSleepUntil(c) \/ StoreWaitForPid(c) \/ StoreExitCode(c)
  <2>1. UNCHANGED <<state, freePages, NEXT_PID>>
    BY <1>9 DEF StoreStack, StoreSleepUntil, StoreWaitForPid, StoreExitCode, statics
  <2>2. /\ pc[c] \in {"c_stack", "c_sleep", "c_wait", "c_code"}
        /\ pc'[c] \in {"c_sleep", "c_wait", "c_code", "boot", "body"}
    BY <1>2, <1>9 DEF StoreStack, StoreSleepUntil, StoreWaitForPid, StoreExitCode, At, Goto
  <2>3. Live' = Live /\ Held' = 0 /\ Held = 0 /\ Drawn' = 0 /\ Drawn = 0
    BY <1>1, <2>1, <2>2 DEF Live, Held, Drawn
  <2> QED
    BY <2>1, <2>3 DEF BalanceInv
<1> QED
  BY <1>4, <1>5, <1>6, <1>7, <1>8, <1>9 DEF new_kernel_task

\* Every step keeps the balance.
LEMMA BalanceStep ==
    ASSUME IInv, BootedInv, TaskInv, BalanceInv, [Next]_vars
    PROVE  BalanceInv'
<1>1. CASE Schedule
  <2>1. UNCHANGED <<NEXT_PID, freePages>> /\ Live' = Live
    BY <1>1, ScheduleFrame DEF Live
  <2>2. pc[cpu] \notin CreateLocs /\ pc'[cpu'] \notin CreateLocs
    <3>1. cpu \in Slots /\ CURRENT \in Slots
      BY DEF IInv, TypeOK
    <3>2. cpu' \in Slots /\ pc' = pc
      BY <1>1, <3>1, ScheduleFrame
    <3> QED
      BY <1>1, <3>1, <3>2, ScheduleOutside
  <2> QED
    BY <2>1, <2>2 DEF BalanceInv, Held, Drawn, CreateLocs
<1>2. CASE Tick
  <2>1. UNCHANGED <<NEXT_PID, freePages, cpu, pc>>
    BY <1>2 DEF Tick, TickQuiet, TickPreempt, hardware, stacks
  <2>2. Live' = Live
    BY <1>2, WakeReady DEF Tick, TickQuiet, TickPreempt, Live
  <2> QED
    BY <2>1, <2>2 DEF BalanceInv, Held, Drawn
<1>3. CASE idle_task
  <2>1. UNCHANGED <<NEXT_PID, freePages, cpu, state>>
    BY <1>3 DEF idle_task, table, statics, hardware
  <2>2. cpu = Idle /\ pc[cpu] = "boot" /\ pc'[cpu] = "idle"
    BY <1>3, IdleSlot DEF idle_task, At, Goto, IInv, TypeOK
  <2> QED
    BY <2>1, <2>2 DEF BalanceInv, Held, Drawn, Live
<1>4. CASE UNCHANGED vars
  <2>1. UNCHANGED <<state, freePages, NEXT_PID, pc, cpu>>
    BY <1>4 DEF vars, table, statics, hardware, stacks
  <2> QED
    BY <2>1 DEF BalanceInv, Held, Drawn, Live
<1> QED
  BY <1>1, <1>2, <1>3, <1>4, BalanceCalls, BalanceCreate DEF Next, CpuStep

\* Of the creators there is one at most.
LEMMA OneCreator ==
    ASSUME IInv, BootedInv, NEW locs \in SUBSET CreateLocs
    PROVE  InCreation(locs) = IF pc[cpu] \in locs THEN 1 ELSE 0
<1>1. cpu \in Slots /\ \A s \in Slots : pc[s] \in locs => s = cpu
  BY DEF IInv, TypeOK, BootedInv
<1>2. CASE pc[cpu] \in locs
  <2>1. {c \in Slots : pc[c] \in locs} = {cpu}
    BY <1>1, <1>2
  <2> QED
    BY <1>2, <2>1, FS_Singleton DEF InCreation
<1>3. CASE pc[cpu] \notin locs
  <2>1. {c \in Slots : pc[c] \in locs} = {}
    BY <1>1, <1>3
  <2> QED
    BY <1>3, <2>1, FS_EmptySet DEF InCreation
<1> QED
  BY <1>2, <1>3

\* No page frame is lost but the one that terminate() leaves behind for each
\* task that exits, and none is in two places.
THEOREM FramesAddUp == (Made = BootTasks) /\ Spec => []PageBalance
<1>1. (Made = BootTasks) /\ Init => BalanceInv
  BY BalanceInit
<1>2. IInv /\ BootedInv /\ TaskInv /\ BalanceInv /\ [Next]_vars => BalanceInv'
  BY BalanceStep
<1>3. ASSUME IInv, BootedInv, BalanceInv PROVE PageBalance
  <2>1. /\ InCreation({"c_page1"}) = IF pc[cpu] \in {"c_page1"} THEN 1 ELSE 0
        /\ InCreation({"c_frame", "c_ready"}) = IF pc[cpu] \in {"c_frame", "c_ready"} THEN 1 ELSE 0
        /\ InCreation({"c_pid", "c_frame", "c_ready"}) =
                IF pc[cpu] \in {"c_pid", "c_frame", "c_ready"} THEN 1 ELSE 0
    BY <1>3, OneCreator DEF CreateLocs
  <2>2. /\ InCreation({"c_frame", "c_ready"}) = Drawn /\ Drawn \in {0, 1}
        /\ InCreation({"c_page1"}) + 2 * InCreation({"c_pid", "c_frame", "c_ready"}) = Held
        /\ InCreation({"c_page1"}) \in {0, 1} /\ InCreation({"c_pid", "c_frame", "c_ready"}) \in {0, 1}
    BY <2>1 DEF Held, Drawn
  <2>3. /\ Cardinality(freePages) \in Nat /\ Cardinality(Live) \in Nat
        /\ NEXT_PID \in Nat /\ Cardinality(Available) \in Nat
    BY <1>3, Counts DEF IInv
  <2> QED
    BY <1>3, <2>2, <2>3 DEF BalanceInv, PageBalance
<1> QED
  BY <1>1, <1>2, <1>3, TaskInvariance, PTL DEF Spec

-----------------------------------------------------------------------------
(* The scheduler implements TaskManager                                      *)

\* What TaskManager sees of the state of a slot.
Kind(x) == CASE x = "Empty" -> "none"
             [] x \in {"Ready", "Running"} -> "alive"
             [] x = "Blocked" -> "blocked"
             [] x = "Terminated" -> "dead"

\* The four kinds of states.
LEMMA Kinds ==
    /\ Kind("Empty") = "none" /\ Kind("Ready") = "alive" /\ Kind("Running") = "alive"
    /\ Kind("Blocked") = "blocked" /\ Kind("Terminated") = "dead"
  BY DEF Kind

\* The refinement mapping, slot by slot, in a state and in the next one.
LEMMA Maps ==
    ASSUME TypeOK
    PROVE  /\ Status = [s \in Slots |-> Kind(state[s])]
           /\ Pids = [s \in Slots |-> IF state[s] = "Empty" THEN None ELSE pid[s]]
           /\ Left = [s \in Slots |-> IF state[s] = "Blocked" THEN sleep_until[s] ELSE None]
           /\ Awaits = [s \in Slots |-> IF state[s] = "Blocked" THEN wait_for_pid[s] ELSE None]
           /\ Codes = [s \in Slots |-> IF state[s] = "Terminated" THEN exit_code[s] ELSE None]
<1>1. Status = [s \in Slots |-> Kind(state[s])]
  BY DEF Status, Kind
<1>2. \A s \in Slots : state[s] \in TaskState
  BY DEF TypeOK
<1>3. Pids = [s \in Slots |-> IF state[s] = "Empty" THEN None ELSE pid[s]]
  BY <1>2 DEF Pids, WhileIn
<1>4. /\ Left = [s \in Slots |-> IF state[s] = "Blocked" THEN sleep_until[s] ELSE None]
      /\ Awaits = [s \in Slots |-> IF state[s] = "Blocked" THEN wait_for_pid[s] ELSE None]
      /\ Codes = [s \in Slots |-> IF state[s] = "Terminated" THEN exit_code[s] ELSE None]
  BY DEF Left, Awaits, Codes, WhileIn
<1> QED
  BY <1>1, <1>3, <1>4

\* The same of the next state.
LEMMA MapsNext ==
    ASSUME TypeOK'
    PROVE  /\ Status' = [s \in Slots |-> Kind(state'[s])]
           /\ Pids' = [s \in Slots |-> IF state'[s] = "Empty" THEN None ELSE pid'[s]]
           /\ Left' = [s \in Slots |-> IF state'[s] = "Blocked" THEN sleep_until'[s] ELSE None]
           /\ Awaits' = [s \in Slots |-> IF state'[s] = "Blocked" THEN wait_for_pid'[s] ELSE None]
           /\ Codes' = [s \in Slots |-> IF state'[s] = "Terminated" THEN exit_code'[s] ELSE None]
<1>1. Status' = [s \in Slots |-> Kind(state'[s])]
  BY DEF Status, Kind
<1>2. \A s \in Slots : state'[s] \in TaskState
  BY DEF TypeOK
<1>3. Pids' = [s \in Slots |-> IF state'[s] = "Empty" THEN None ELSE pid'[s]]
  BY <1>2 DEF Pids, WhileIn
<1>4. /\ Left' = [s \in Slots |-> IF state'[s] = "Blocked" THEN sleep_until'[s] ELSE None]
      /\ Awaits' = [s \in Slots |-> IF state'[s] = "Blocked" THEN wait_for_pid'[s] ELSE None]
      /\ Codes' = [s \in Slots |-> IF state'[s] = "Terminated" THEN exit_code'[s] ELSE None]
  BY DEF Left, Awaits, Codes, WhileIn
<1> QED
  BY <1>1, <1>3, <1>4

\* A slot that TaskManager sees no change of.
Unseen(s) ==
    /\ \/ state'[s] = state[s]
       \/ state[s] \in {"Ready", "Running"} /\ state'[s] \in {"Ready", "Running"}
    /\ state[s] # "Empty" => pid'[s] = pid[s]
    /\ state[s] = "Blocked" => sleep_until'[s] = sleep_until[s] /\ wait_for_pid'[s] = wait_for_pid[s]
    /\ state[s] = "Terminated" => exit_code'[s] = exit_code[s]

\* Its image under the mapping is the same before and after.
LEMMA UnseenSlot ==
    ASSUME TypeOK, TypeOK', NEW s \in Slots, Unseen(s)
    PROVE  /\ Status'[s] = Status[s] /\ Pids'[s] = Pids[s] /\ Left'[s] = Left[s]
           /\ Awaits'[s] = Awaits[s] /\ Codes'[s] = Codes[s]
<1>1. Kind(state'[s]) = Kind(state[s])
  BY Kinds DEF Unseen
<1> QED
  BY <1>1, Maps, MapsNext DEF Unseen

\* A step that changes nothing visible is a stuttering step of TaskManager.
LEMMA Stutters ==
    ASSUME TypeOK, TypeOK', CURRENT' = CURRENT, \A s \in Slots : Unseen(s)
    PROVE  UNCHANGED Manager!vars
<1>1. /\ \A s \in Slots : /\ Status'[s] = Status[s] /\ Pids'[s] = Pids[s] /\ Left'[s] = Left[s]
                          /\ Awaits'[s] = Awaits[s] /\ Codes'[s] = Codes[s]
  BY UnseenSlot
<1>2. Status' = Status /\ Pids' = Pids
  BY <1>1, Maps, MapsNext
<1>3. Left' = Left /\ Awaits' = Awaits /\ Codes' = Codes
  BY <1>1, Maps, MapsNext
<1> QED
  BY <1>2, <1>3 DEF Manager!vars

\* Initially the manager has the idle task and those of _start, all alive.
LEMMA ManagerInit == ASSUME Init PROVE Manager!Init
<1>1. TypeOK
  BY InitInv DEF IInv
<1>2. \A s \in Slots : state[s] \in {"Empty", "Ready", "Running"} /\ (state[s] = "Empty" <=> s > Made)
  BY SchedulerAssumption DEF Init, Slots, Idle
<1>3. \A s \in Slots : s <= Made => pid[s] = s /\ s # None
  BY SchedulerAssumption DEF Init, Slots
<1>4. CURRENT = Idle /\ state[Idle] = "Running" /\ None \notin Int
  BY IdleSlot, SchedulerAssumption DEF Init
<1>5. Status \in [Slots -> {"none", "alive"}] /\ Status[CURRENT] = "alive"
  <2>1. \A s \in Slots : Kind(state[s]) \in {"none", "alive"}
    BY <1>2, Kinds
  <2> QED
    BY <1>1, <1>4, <2>1, IdleSlot, Maps, Kinds
<1>6. \A s \in Slots : Pids[s] = (IF s > Made THEN None ELSE s)
  BY <1>1, <1>2, <1>3, Maps, SchedulerAssumption DEF Slots
<1>7. \A s \in Slots : Status[s] = "none" <=> s > Made
  <2>1. \A s \in Slots : Kind(state[s]) = "none" <=> state[s] = "Empty"
    BY <1>2, Kinds
  <2> QED
    BY <1>1, <1>2, <2>1, Maps
<1>8. \A s \in Slots : Pids[s] = None <=> Status[s] = "none"
  BY <1>3, <1>6, <1>7, SchedulerAssumption DEF Slots
<1>9. \A s, t \in Slots : (s # t /\ Pids[s] = Pids[t]) => Pids[s] = None
  BY <1>3, <1>6, SchedulerAssumption DEF Slots
<1>10. Left = [s \in Slots |-> None] /\ Awaits = [s \in Slots |-> None] /\ Codes = [s \in Slots |-> None]
  BY <1>1, <1>2, Maps
<1> QED
  BY <1>4, <1>5, <1>8, <1>9, <1>10, IdleSlot DEF Manager!Init, Manager!Nothing

-----------------------------------------------------------------------------
(* The timer and schedule()                                                  *)

\* The tick wakes the sleepers whose deadline has come.
LEMMA ManagerTick ==
    ASSUME IInv, IInv', BootedInv, TaskInv, Tick
    PROVE  Manager!Tick
<1>1. /\ UNCHANGED <<pid, wait_for_pid, exit_code, CURRENT>> /\ wake_sleeping_tasks
  BY DEF Tick, TickQuiet, TickPreempt
<1>2. TypeOK /\ TypeOK' /\ None \notin Int
  BY SchedulerAssumption DEF IInv
<1>3. \A s \in Slots : /\ state[s] \in TaskState /\ sleep_until[s] \in Nat \cup {None}
                       /\ (state[s] = "Blocked" /\ sleep_until[s] # None => wait_for_pid[s] = None)
  BY <1>2 DEF TypeOK, TaskInv, WaitInv
<1>4. \A s \in Slots : Manager!IsDue(s) <=> Due(s)
  BY <1>2, Maps DEF Manager!IsDue, Due
<1>5. ASSUME NEW s \in Slots
      PROVE  /\ state'[s] = IF Due(s) THEN "Ready" ELSE state[s]
             /\ sleep_until'[s] = IF Due(s) THEN None ELSE Elapse(sleep_until[s])
  BY <1>1 DEF wake_sleeping_tasks
<1>6. \A s \in Slots : Kind(state'[s]) = IF Due(s) THEN "alive" ELSE Kind(state[s])
  BY <1>5, Kinds
<1>7. Status' = [s \in Slots |-> IF Manager!IsDue(s) THEN "alive" ELSE Status[s]]
  BY <1>2, <1>4, <1>6, Maps, MapsNext
<1>8. Pids' = Pids /\ Codes' = Codes /\ Awaits' = Awaits
  <2>1. \A s \in Slots : /\ state'[s] = "Empty" <=> state[s] = "Empty"
                         /\ state'[s] = "Terminated" <=> state[s] = "Terminated"
    BY <1>5 DEF Due
  <2>2. Pids' = Pids /\ Codes' = Codes
    BY <1>1, <1>2, <2>1, Maps, MapsNext
  <2>3. \A s \in Slots : (IF state'[s] = "Blocked" THEN wait_for_pid'[s] ELSE None)
                         = (IF state[s] = "Blocked" THEN wait_for_pid[s] ELSE None)
    BY <1>1, <1>3, <1>5 DEF Due
  <2>4. Awaits' = Awaits
    BY <1>2, <2>3, Maps, MapsNext
  <2> QED
    BY <2>2, <2>4
<1>9. Left' = [s \in Slots |-> IF Left[s] = None \/ Manager!IsDue(s) THEN None ELSE Left[s] - 1]
  <2>1. ASSUME NEW s \in Slots
        PROVE  (IF state'[s] = "Blocked" THEN sleep_until'[s] ELSE None)
               = IF Left[s] = None \/ Due(s) THEN None ELSE Left[s] - 1
    <3>1. CASE Due(s)
      BY <1>5, <3>1
    <3>2. CASE ~Due(s) /\ Left[s] = None
      <4>1. state[s] = "Blocked" => sleep_until[s] = None
        BY <1>2, <3>2, Maps
      <4> QED
        BY <1>5, <3>2, <4>1 DEF Elapse
    <3>3. CASE ~Due(s) /\ Left[s] # None
      <4>1. state[s] = "Blocked" /\ Left[s] = sleep_until[s] /\ sleep_until[s] \in Nat
        BY <1>2, <1>3, <3>3, Maps
      <4>2. sleep_until[s] > 1
        BY <1>2, <3>3, <4>1 DEF Due
      <4> QED
        BY <1>2, <1>5, <3>3, <4>1, <4>2 DEF Elapse
    <3> QED
      BY <3>1, <3>2, <3>3
  <2> QED
    BY <1>2, <1>4, <2>1, MapsNext
<1> QED
  BY <1>1, <1>7, <1>8, <1>9 DEF Manager!Tick

\* schedule() gives the CPU to a task that is alive; all it does otherwise is
\* between Ready and Running, or the manager's task is not concerned.
LEMMA ManagerSchedule ==
    ASSUME IInv, IInv', BootedInv, Schedule
    PROVE  (\E t \in Slots : Manager!Switch(t)) \/ UNCHANGED Manager!vars
<1>1. TypeOK /\ TypeOK'
  BY DEF IInv
<1>2. \A s \in Slots : Unseen(s)
  BY ScheduleFrame DEF Unseen
<1>3. CASE PickNext
  <2>1. PICK n \in Slots \ {CURRENT} : CURRENT' = n /\ Requeued[n] = "Ready"
    BY <1>3 DEF PickNext, FoundNext
  <2>2. state[n] \in {"Ready", "Running"}
    BY <1>1, <2>1 DEF Requeued, TypeOK
  <2>3. Status[n] = "alive"
    BY <1>1, <2>2, Maps, Kinds
  <2>4. \A s \in Slots : /\ Status'[s] = Status[s] /\ Pids'[s] = Pids[s] /\ Left'[s] = Left[s]
                         /\ Awaits'[s] = Awaits[s] /\ Codes'[s] = Codes[s]
    BY <1>1, <1>2, UnseenSlot
  <2>5. Status' = Status /\ Pids' = Pids
    BY <1>1, <2>4, Maps, MapsNext
  <2>6. Left' = Left /\ Awaits' = Awaits /\ Codes' = Codes
    BY <1>1, <2>4, Maps, MapsNext
  <2> QED
    BY <2>1, <2>3, <2>5, <2>6 DEF Manager!Switch
<1>4. CASE ~PickNext
  <2>1. CURRENT' = CURRENT
    BY <1>4 DEF Schedule, Acquire, PickNobody, DropGuard, switch_to, Resume, statics
  <2> QED
    BY <1>1, <1>2, <2>1, Stutters
<1> QED
  BY <1>3, <1>4

-----------------------------------------------------------------------------
(* The calls of tasks                                                        *)

\* Each call is a step of the manager's running task, or invisible.
LEMMA ManagerCalls ==
    ASSUME IInv, IInv', BootedInv, TaskInv, NEW c \in Slots, Calls(c)
    PROVE  Manager!Call \/ UNCHANGED Manager!vars
<1>1. TypeOK /\ TypeOK' /\ None \notin Int
  BY SchedulerAssumption DEF IInv
<1>2. c = CURRENT /\ state[c] = "Running" /\ pid' = pid
  BY CallFrame
<1>3. CURRENT' = CURRENT
  BY DEF Calls, yield_cpu, SleepRead, SleepBlock, exit, wait_for, WaitNone, WaitReap,
     WaitBlock, statics
<1>4. Status[c] = "alive" /\ sleep_until[c] = None /\ wait_for_pid[c] = None /\ pid[c] \in Nat
  BY <1>1, <1>2, Maps, Kinds DEF TaskInv, WaitInv, TypeOK
<1>5. state \in [Slots -> TaskState]
  BY <1>1 DEF TypeOK
<1>6. CASE yield_cpu(c) \/ SleepRead(c) \/ wait_for(c) \/ WaitNone(c)
  <2>1. state' = state \/ state' = [state EXCEPT ![c] = "Ready"]
    BY <1>2, <1>6 DEF yield_cpu, SleepRead, wait_for, WaitNone, table
  <2>2. UNCHANGED <<sleep_until, wait_for_pid, exit_code>>
    BY <1>6 DEF yield_cpu, SleepRead, wait_for, WaitNone, table
  <2>3. \A s \in Slots : Unseen(s)
    BY <1>2, <1>5, <2>1, <2>2 DEF Unseen
  <2> QED
    BY <1>1, <1>3, <2>3, Stutters
<1>7. CASE SleepBlock(c)
  <2>1. /\ state' = [state EXCEPT ![c] = "Blocked"]
        /\ sleep_until' = [sleep_until EXCEPT ![c] = arg[c]]
        /\ UNCHANGED <<wait_for_pid, exit_code>>
    BY <1>2, <1>7 DEF SleepBlock
  <2>2. arg[c] \in Nat
    BY <1>7 DEF SleepBlock, At, TaskInv, ArgInv
  <2>3. \A s \in Slots \ {c} : state'[s] = state[s] /\ sleep_until'[s] = sleep_until[s]
    BY <1>1, <2>1 DEF TypeOK
  <2>4. state'[c] = "Blocked" /\ sleep_until'[c] = arg[c]
    BY <1>1, <2>1 DEF TypeOK
  <2>5. Status' = [Status EXCEPT ![CURRENT] = "blocked"]
    BY <1>1, <1>2, <2>3, <2>4, Maps, MapsNext, Kinds
  <2>6. Left' = [Left EXCEPT ![CURRENT] = Left'[CURRENT]] /\ Left'[CURRENT] \in Nat
    BY <1>1, <1>2, <2>2, <2>3, <2>4, Maps, MapsNext
  <2>7. Pids' = Pids
    BY <1>1, <1>2, <2>3, <2>4, Maps, MapsNext
  <2>8. Awaits' = Awaits /\ Codes' = Codes
    BY <1>1, <1>2, <1>4, <2>1, <2>3, <2>4, Maps, MapsNext
  <2> QED
    BY <1>2, <1>3, <1>4, <2>5, <2>6, <2>7, <2>8 DEF Manager!Call, Manager!Sleep
<1>8. CASE exit(c)
  <2>1. /\ state'[c] = "Terminated" /\ exit_code'[c] = pid[c]
        /\ sleep_until' = sleep_until /\ wait_for_pid'[c] = None
    BY <1>2, <1>8, ExitStates
  <2>2. ASSUME NEW s \in Slots \ {c}
        PROVE  IF state[s] = "Blocked" /\ wait_for_pid[s] = pid[c]
               THEN /\ state'[s] = "Ready" /\ wait_for_pid'[s] = None
                    /\ sleep_until[s] = None
               ELSE /\ state'[s] = state[s] /\ wait_for_pid'[s] = wait_for_pid[s]
                    /\ exit_code'[s] = exit_code[s]
    BY <1>2, <1>8, ExitStates
  <2>3. \A s \in Slots : s \in Manager!Woken <=> state[s] = "Blocked" /\ wait_for_pid[s] = pid[c]
    BY <1>1, <1>2, <1>4, Maps DEF Manager!Woken
  <2>4. c \notin Manager!Woken
    BY <1>2, <2>3
  <2>5. Status' = [t \in Slots |-> IF t = CURRENT THEN "dead"
                                   ELSE IF t \in Manager!Woken THEN "alive" ELSE Status[t]]
    <3>1. \A t \in Slots : Kind(state'[t]) = IF t = CURRENT THEN "dead"
                                   ELSE IF t \in Manager!Woken THEN "alive" ELSE Kind(state[t])
      BY <1>2, <2>1, <2>2, <2>3, Kinds
    <3> QED
      BY <1>1, <3>1, Maps, MapsNext
  <2>6. Awaits' = [t \in Slots |-> IF t \in Manager!Woken THEN None ELSE Awaits[t]]
    <3>1. \A t \in Slots : (IF state'[t] = "Blocked" THEN wait_for_pid'[t] ELSE None)
              = IF t \in Manager!Woken THEN None
                ELSE IF state[t] = "Blocked" THEN wait_for_pid[t] ELSE None
      BY <1>2, <2>1, <2>2, <2>3
    <3> QED
      BY <1>1, <3>1, Maps, MapsNext
  <2>7. Codes' = [Codes EXCEPT ![CURRENT] = Codes'[CURRENT]] /\ Codes'[CURRENT] \in Nat
    BY <1>1, <1>2, <1>4, <2>1, <2>2, Maps, MapsNext
  <2>8. Pids' = Pids
    BY <1>1, <1>2, <2>1, <2>2, Maps, MapsNext
  <2>9. Left' = Left
    BY <1>1, <1>2, <2>1, <2>2, Maps, MapsNext
  <2> QED
    BY <1>2, <1>3, <1>4, <2>5, <2>6, <2>7, <2>8, <2>9 DEF Manager!Call, Manager!Exit
<1>9. CASE WaitReap(c)
  <2>1. PICK s \in Slots : state[s] = "Terminated" /\ state' = [state EXCEPT ![s] = "Empty"]
    BY <1>9 DEF WaitReap
  <2>2. UNCHANGED <<sleep_until, wait_for_pid, exit_code>>
    BY <1>9 DEF WaitReap
  <2>3. state'[s] = "Empty" /\ \A t \in Slots \ {s} : state'[t] = state[t]
    BY <1>5, <2>1
  <2>4. Status[s] = "dead" /\ Status' = [Status EXCEPT ![s] = "none"]
    BY <1>1, <2>1, <2>3, Maps, MapsNext, Kinds
  <2>5. Pids' = [Pids EXCEPT ![s] = None]
    BY <1>1, <1>2, <2>3, Maps, MapsNext
  <2>6. Codes' = [Codes EXCEPT ![s] = None]
    BY <1>1, <2>2, <2>3, Maps, MapsNext
  <2>7. Left' = Left /\ Awaits' = Awaits
    BY <1>1, <2>1, <2>2, <2>3, Maps, MapsNext
  <2> QED
    BY <1>2, <1>3, <1>4, <2>4, <2>5, <2>6, <2>7 DEF Manager!Call, Manager!Reap
<1>10. CASE WaitBlock(c)
  <2>1. PICK r \in Slots : state[r] \notin {"Empty", "Terminated"} /\ pid[r] = arg[c]
    BY <1>10 DEF WaitBlock, find_pid
  <2>2. /\ state' = [state EXCEPT ![c] = "Blocked"]
        /\ wait_for_pid' = [wait_for_pid EXCEPT ![c] = arg[c]]
        /\ UNCHANGED <<sleep_until, exit_code>>
    BY <1>2, <1>10 DEF WaitBlock
  <2>3. \A s \in Slots \ {c} : state'[s] = state[s] /\ wait_for_pid'[s] = wait_for_pid[s]
    BY <1>1, <2>2 DEF TypeOK
  <2>4. state'[c] = "Blocked" /\ wait_for_pid'[c] = pid[r]
    BY <1>1, <2>1, <2>2 DEF TypeOK
  <2>5. Status[r] \in {"alive", "blocked"} /\ Pids[r] = pid[r]
    BY <1>1, <1>5, <2>1, Maps, Kinds DEF TaskState
  <2>6. Status' = [Status EXCEPT ![CURRENT] = "blocked"]
    BY <1>1, <1>2, <2>3, <2>4, Maps, MapsNext, Kinds
  <2>7. Awaits' = [Awaits EXCEPT ![CURRENT] = Pids[r]]
    BY <1>1, <1>2, <2>3, <2>4, <2>5, Maps, MapsNext
  <2>8. Pids' = Pids
    BY <1>1, <1>2, <2>3, <2>4, Maps, MapsNext
  <2>9. Left' = Left /\ Codes' = Codes
    BY <1>1, <1>2, <1>4, <2>2, <2>3, <2>4, Maps, MapsNext
  <2> QED
    BY <1>2, <1>3, <1>4, <2>5, <2>6, <2>7, <2>8, <2>9 DEF Manager!Call, Manager!Wait
<1> QED
  BY <1>6, <1>7, <1>8, <1>9, <1>10 DEF Calls

-----------------------------------------------------------------------------
(* new_kernel_task                                                           *)

\* A task comes into being with the store of state = Ready, with a pid that
\* is nobody else's; what is stored before and after is not visible.
LEMMA ManagerCreate ==
    ASSUME IInv, IInv', BootedInv, TaskInv, NEW c \in Slots, new_kernel_task(c)
    PROVE  Manager!Call \/ UNCHANGED Manager!vars
<1>1. TypeOK /\ TypeOK' /\ None \notin Int
  BY SchedulerAssumption DEF IInv
<1>2. /\ c = cpu /\ c = CURRENT /\ state[c] = "Running" /\ NewInv /\ PidInv
      /\ (pc[c] \in CreateLocs => new[c].slot \in Slots)
  BY CreateFrame DEF TaskInv
<1>3. CURRENT' = CURRENT
  BY DEF new_kernel_task, alloc_slot, AllocPhys0, AllocPhys1, alloc_pid, StoreFrame,
     StoreReady, StoreStack, StoreSleepUntil, StoreWaitForPid, StoreExitCode, statics
<1>4. Status[c] = "alive"
  BY <1>1, <1>2, Maps, Kinds
<1>5. state \in [Slots -> TaskState] /\ pid \in [Slots -> Nat]
  BY <1>1 DEF TypeOK
<1>6. CASE alloc_slot(c) \/ AllocPhys0(c) \/ AllocPhys1(c) \/ alloc_pid(c)
  <2>1. UNCHANGED table
    BY <1>6 DEF alloc_slot, AllocPhys0, AllocPhys1, alloc_pid
  <2>2. \A s \in Slots : Unseen(s)
    BY <2>1 DEF table, Unseen
  <2> QED
    BY <1>1, <1>3, <2>2, Stutters
<1>7. CASE StoreFrame(c)
  <2>1. /\ pid' = [pid EXCEPT ![new[c].slot] = new[c].pid]
        /\ UNCHANGED <<state, sleep_until, wait_for_pid, exit_code>>
    BY <1>7 DEF StoreFrame
  <2>2. state[new[c].slot] = "Empty"
    BY <1>2, <1>7 DEF StoreFrame, At, NewInv, Unborn
  <2>3. \A s \in Slots : Unseen(s)
    BY <1>5, <2>1, <2>2 DEF Unseen
  <2> QED
    BY <1>1, <1>3, <2>3, Stutters
<1>8. CASE StoreReady(c)
  <2> DEFINE s == new[c].slot
  <2>1. /\ state' = [state EXCEPT ![s] = "Ready"] /\ pc[c] = "c_ready"
        /\ UNCHANGED <<pid, sleep_until, wait_for_pid, exit_code>>
    BY <1>8 DEF StoreReady, At
  <2>2. s \in Slots /\ state[s] = "Empty" /\ pid[s] = new[c].pid
    BY <1>2, <2>1 DEF NewInv, PidInv, Unborn, CreateLocs
  <2>3. \A t \in Slots : state[t] # "Empty" => pid[t] # pid[s]
    BY <1>2, <2>1, <2>2 DEF PidInv
  <2> HIDE DEF s
  <2>4. state'[s] = "Ready" /\ \A t \in Slots \ {s} : state'[t] = state[t]
    BY <1>5, <2>1, <2>2
  <2>5. Status[s] = "none" /\ Status' = [Status EXCEPT ![s] = "alive"]
    BY <1>1, <2>2, <2>4, Maps, MapsNext, Kinds
  <2>6. Pids' = [Pids EXCEPT ![s] = Pids'[s]] /\ Pids'[s] = pid[s]
    BY <1>1, <2>1, <2>2, <2>4, Maps, MapsNext
  <2>7. pid[s] \in Nat /\ \A t \in Slots : Pids[t] # pid[s]
    BY <1>1, <1>5, <2>2, <2>3, Maps
  <2>8. Left' = Left /\ Awaits' = Awaits
    BY <1>1, <2>1, <2>2, <2>4, Maps, MapsNext
  <2>9. Codes' = Codes
    BY <1>1, <2>1, <2>2, <2>4, Maps, MapsNext
  <2> QED
    BY <1>2, <1>3, <1>4, <2>2, <2>5, <2>6, <2>7, <2>8, <2>9 DEF Manager!Call, Manager!Create
<1>9. CASE StoreStack(c) \/ StoreSleepUntil(c) \/ StoreWaitForPid(c) \/ StoreExitCode(c)
  <2>1. new[c].slot \in Slots /\ state[new[c].slot] = "Ready"
    BY <1>2, <1>9 DEF StoreStack, StoreSleepUntil, StoreWaitForPid, StoreExitCode, At, NewInv,
       Born, CreateLocs
  <2>2. UNCHANGED <<state, pid>>
    BY <1>9 DEF StoreStack, StoreSleepUntil, StoreWaitForPid, StoreExitCode
  <2>3. /\ sleep_until' = sleep_until \/ sleep_until' = [sleep_until EXCEPT ![new[c].slot] = None]
        /\ \/ wait_for_pid' = wait_for_pid
           \/ wait_for_pid' = [wait_for_pid EXCEPT ![new[c].slot] = None]
        /\ exit_code' = exit_code \/ exit_code' = [exit_code EXCEPT ![new[c].slot] = 0]
    BY <1>9 DEF StoreStack, StoreSleepUntil, StoreWaitForPid, StoreExitCode
  <2>4. \A s \in Slots : Unseen(s)
    BY <1>1, <2>1, <2>2, <2>3 DEF Unseen, TypeOK
  <2> QED
    BY <1>1, <1>3, <2>4, Stutters
<1> QED
  BY <1>6, <1>7, <1>8, <1>9 DEF new_kernel_task

-----------------------------------------------------------------------------
(* The theorem                                                               *)

\* Every step is one of the manager or stutters.
LEMMA ManagerStep ==
    ASSUME IInv, IInv', BootedInv, TaskInv, [Next]_vars
    PROVE  [Manager!Next]_Manager!vars
<1>1. CASE Tick
  BY <1>1, ManagerTick DEF Manager!Next
<1>2. CASE Schedule
  BY <1>2, ManagerSchedule DEF Manager!Next
<1>3. ASSUME NEW c \in Slots, Calls(c) \/ new_kernel_task(c) PROVE [Manager!Next]_Manager!vars
  BY <1>3, ManagerCalls, ManagerCreate DEF Manager!Next
<1>4. CASE idle_task \/ UNCHANGED vars
  <2>1. UNCHANGED table /\ CURRENT' = CURRENT
    BY <1>4 DEF idle_task, vars, statics
  <2>2. \A s \in Slots : Unseen(s)
    BY <2>1 DEF table, Unseen
  <2> QED
    BY <2>1, <2>2, Stutters DEF IInv
<1> QED
  BY <1>1, <1>2, <1>3, <1>4 DEF Next, CpuStep

\* The table scan, the context switch and the calls implement the task
\* manager: the CPU goes to tasks that are alive, a blocked task goes on after
\* its deadline or the exit it waits for only, and pids are given once.
THEOREM SchedulerImplementsManager == (Made = BootTasks) /\ Spec => ImplementsTaskManager
<1>1. Init => Manager!Init
  BY ManagerInit
<1>2. IInv /\ IInv' /\ BootedInv /\ TaskInv /\ [Next]_vars => [Manager!Next]_Manager!vars
  BY ManagerStep
<1> QED
  BY <1>1, <1>2, TaskInvariance, PTL DEF Spec, ImplementsTaskManager, Manager!Spec
=============================================================================
