-------------------------- MODULE InterruptsProofs --------------------------
(***************************************************************************)
(* Proofs about Interrupts, for every set of lines and every time slice.   *)
(***************************************************************************)
EXTENDS Interrupts, TLAPS

\* How far _start has come, by the number of its next step.
BootInv ==
    /\ boot > 2 => remapped /\ imr = Lines \ {0, 1}
    /\ boot > 5 => kbdint
    /\ boot > 6 => 1 \in handlers
    /\ boot > 7 => 0 \in handlers
    /\ boot < 9 => ~interrupts /\ cpu = "idle" /\ stack["idle"] = << >>

\* The handler f is open, in the idle context, and alone in service.
Opened(f) ==
    /\ stack["idle"] = <<f>> /\ isr = {f.line}
    /\ cpu = "idle" => ~interrupts
    /\ cpu = "task" => f = [line |-> 0, at |-> "eoi"]

\* At most one handler is open: none interrupts another, and a task, which may
\* set IF, runs with the timer's line in service, which holds back all others.
StackInv ==
    /\ stack["task"] = << >>
    /\ \/ stack["idle"] = << >> /\ isr = {} /\ cpu = "idle"
       \/ \E f \in [line : {0, 1}, at : {"handler", "eoi"}] : Opened(f)

\* From the moment read_ccb has emptied the buffer, and if the CCB is right.
AliveInv ==
    boot > 4 /\ kbdint =>
        (obf = "empty" \/ 1 \in irr \/ stack["idle"] = <<[line |-> 1, at |-> "handler"]>>)

IInv == TypeOK /\ BootInv /\ StackInv /\ AliveInv

-----------------------------------------------------------------------------
(* Sequences of one handler                                                  *)

\* A stack with one frame.
LEMMA OneFrame ==
    ASSUME NEW f
    PROVE  /\ <<f>> # << >> /\ Append(<< >>, f) = <<f>>
           /\ Front(<<f>>) = << >> /\ Last(<<f>>) = f
           /\ Range(<<f>>) = {f} /\ Range(<< >>) = {}
  BY DEF Front, Last, Range

\* The steps of _start by number.
LEMMA StepsAre ==
    /\ Len(Steps) = 8
    /\ Steps[1] = "init_idt" /\ Steps[2] = "remap" /\ Steps[3] = "ask_ccb"
    /\ Steps[4] = "read_ccb" /\ Steps[5] = "write_ccb" /\ Steps[6] = "on_irq1"
    /\ Steps[7] = "pit" /\ Steps[8] = "sti"
  BY DEF Steps

\* Which step of _start an operation is.
LEMMA StepNumber ==
    ASSUME TypeOK, NEW op, Step(op)
    PROVE  /\ boot \in 1..8 /\ boot' = boot + 1
           /\ ~halted /\ cpu = "idle" /\ stack["idle"] = << >>
           /\ op = Steps[boot]
  BY StepsAre DEF TypeOK, Step, Runs

-----------------------------------------------------------------------------
(* Every step keeps the invariant                                            *)

\* No device touches the processor, and a byte comes with its edge.
LEMMA DevicesKeep == IInv /\ Devices => IInv'
<1> SUFFICES ASSUME IInv, Devices PROVE IInv'
  OBVIOUS
<1> USE DEF IInv
<1>1. UNCHANGED <<boots, processor, isr, imr, kbdint>>
  BY DEF Devices, Period, KeyPress, Answer, OtherLine, Fill, controller
<1>2. irr \subseteq irr' /\ irr' \subseteq Lines
  BY InterruptsAssumption
  DEF Devices, Period, KeyPress, Answer, OtherLine, Fill, TypeOK
<1>3. /\ obf' \in {"empty", "scan", "ccb"} /\ asked' \in BOOLEAN
      /\ obf' # obf /\ kbdint => 1 \in irr'
  BY DEF Devices, Period, KeyPress, Answer, OtherLine, Fill, controller, TypeOK
<1>4. TypeOK'
  BY <1>1, <1>2, <1>3 DEF TypeOK, boots, processor
<1>5. BootInv' /\ StackInv'
  BY <1>1 DEF BootInv, StackInv, Opened, boots, processor
<1>6. AliveInv'
  BY <1>1, <1>2, <1>3 DEF AliveInv, boots, processor
<1> QED
  BY <1>4, <1>5, <1>6

\* The steps of _start come in the order of Steps.
LEMMA BootKeeps == IInv /\ Boot => IInv'
<1> SUFFICES ASSUME IInv, Boot PROVE IInv'
  OBVIOUS
<1> USE DEF IInv
<1>1. CASE init_idt
  <2>1. boot = 1 /\ boot' = 2 /\ UNCHANGED <<remapped, handlers, processor, pic, controller>>
    BY <1>1, StepNumber, StepsAre DEF init_idt
  <2> QED
    BY <2>1, StepsAre DEF TypeOK, BootInv, StackInv, Opened, AliveInv, processor, pic, controller
<1>2. CASE remap
  <2>1. boot = 2 /\ boot' = 3 /\ stack["idle"] = << >> /\ cpu = "idle"
    BY <1>2, StepNumber, StepsAre DEF remap
  <2> QED
    BY <1>2, <2>1, StepsAre DEF remap, TypeOK, BootInv, StackInv, Opened, AliveInv, processor, controller
<1>3. CASE ask_ccb
  <2>1. boot = 3 /\ boot' = 4
    BY <1>3, StepNumber, StepsAre DEF ask_ccb
  <2> QED
    BY <1>3, <2>1, StepsAre DEF ask_ccb, TypeOK, BootInv, StackInv, Opened, AliveInv, processor, pic
<1>4. CASE read_ccb
  <2>1. boot = 4 /\ boot' = 5
    BY <1>4, StepNumber, StepsAre DEF read_ccb
  <2> QED
    BY <1>4, <2>1, StepsAre DEF read_ccb, TypeOK, BootInv, StackInv, Opened, AliveInv, processor, pic
<1>5. CASE write_ccb
  <2>1. boot = 5 /\ boot' = 6
    BY <1>5, StepNumber, StepsAre DEF write_ccb
  <2>2. irr \subseteq irr' /\ irr' \subseteq Lines /\ (obf # "empty" /\ ~kbdint => 1 \in irr')
    BY <1>5, InterruptsAssumption DEF write_ccb, TypeOK
  <2>3. AliveInv'
    BY <1>5, <2>1, <2>2 DEF write_ccb, AliveInv, processor
  <2> QED
    BY <1>5, <2>1, <2>2, <2>3, StepsAre DEF write_ccb, TypeOK, BootInv, StackInv, Opened, processor
<1>6. CASE Register("on_irq1", 1)
  <2>1. boot = 6 /\ boot' = 7
    BY <1>6, StepNumber, StepsAre DEF Register
  <2> QED
    BY <1>6, <2>1, StepsAre, InterruptsAssumption
    DEF Register, TypeOK, BootInv, StackInv, Opened, AliveInv, processor, pic, controller
<1>7. CASE Register("pit", 0)
  <2>1. boot = 7 /\ boot' = 8
    BY <1>7, StepNumber, StepsAre DEF Register
  <2> QED
    BY <1>7, <2>1, StepsAre, InterruptsAssumption
    DEF Register, TypeOK, BootInv, StackInv, Opened, AliveInv, processor, pic, controller
<1>8. CASE sti
  <2>1. boot = 8 /\ boot' = 9 /\ stack["idle"] = << >> /\ cpu = "idle"
    BY <1>8, StepNumber, StepsAre DEF sti
  <2>2. isr = {}
    BY <2>1, OneFrame DEF StackInv, Opened
  <2> QED
    BY <1>8, <2>1, <2>2, StepsAre DEF sti, TypeOK, BootInv, StackInv, Opened, AliveInv, pic, controller
<1> QED
  BY <1>1, <1>2, <1>3, <1>4, <1>5, <1>6, <1>7, <1>8 DEF Boot

\* An interrupt only comes in the idle context, with no handler open.
LEMMA DeliverKeeps ==
    ASSUME IInv, NEW l \in Lines, Deliver(l)
    PROVE  IInv'
<1> DEFINE f == [line |-> l, at |-> "handler"]
<1> USE DEF IInv
<1>1. l \in Nat /\ Lines \subseteq Nat
  BY InterruptsAssumption
<1>2. boot = 9
  BY StepsAre DEF Deliver, BootInv, TypeOK
<1>3. l \in {0, 1}
  BY <1>2 DEF Deliver, BootInv
<1>4. cpu = "idle" /\ stack["idle"] = << >>
  <2>1. ASSUME NEW g \in [line : {0, 1}, at : {"handler", "eoi"}], Opened(g) PROVE FALSE
    <3>1. cpu = "task" /\ g.line = 0
      BY <2>1 DEF Opened, Deliver, TypeOK, Contexts
    <3> QED
      BY <1>1, <2>1, <3>1 DEF Opened, Deliver
  <2> QED
    BY <2>1 DEF StackInv
<1>5. isr = {}
  BY <1>4, OneFrame DEF StackInv, Opened
<1>6. /\ stack' = [stack EXCEPT !["idle"] = <<f>>]
      /\ isr' = {l} /\ irr' = irr \ {l} /\ interrupts' = FALSE
      /\ UNCHANGED <<boots, halted, cpu, TICKS_ON_CURRENT, imr, controller>>
  BY <1>4, <1>5, OneFrame DEF Deliver
<1>7. f \in [line : {0, 1}, at : {"handler", "eoi"}] /\ f \in Frames
  BY <1>3 DEF Frames
<1>8. stack'["idle"] = <<f>> /\ stack'["task"] = << >>
  BY <1>6 DEF TypeOK, StackInv, Contexts
<1>9. stack' \in [Contexts -> Seq(Frames)]
  BY <1>6, <1>7 DEF TypeOK, Contexts
<1>10. TypeOK'
  BY <1>6, <1>9 DEF TypeOK, boots, controller
<1>11. BootInv'
  BY <1>2, <1>6 DEF BootInv, boots, controller
<1>12. StackInv'
  BY <1>4, <1>6, <1>7, <1>8 DEF StackInv, Opened
<1>13. AliveInv'
  BY <1>4, <1>6, <1>8, OneFrame DEF AliveInv, boots, controller
<1> QED
  BY <1>10, <1>11, <1>12, <1>13

\* The handler that is open has run: it waits for its end of interrupt.
LEMMA HandlesStep ==
    ASSUME IInv, NEW l \in Lines, Handles(l)
    PROVE  /\ l \in {0, 1} /\ cpu = "idle" /\ boot = 9
           /\ stack["idle"] = <<[line |-> l, at |-> "handler"]>> /\ isr = {l}
           /\ stack' \in [Contexts -> Seq(Frames)]
           /\ stack'["idle"] = <<[line |-> l, at |-> "eoi"]>> /\ stack'["task"] = << >>
           /\ interrupts = FALSE
<1> DEFINE g == [line |-> l, at |-> "eoi"]
<1> USE DEF IInv
<1>1. cpu = "idle"
  BY OneFrame DEF Handles, InHandler, StackInv, TypeOK, Contexts
<1>2. PICK f \in [line : {0, 1}, at : {"handler", "eoi"}] : Opened(f)
  BY <1>1 DEF Handles, InHandler, StackInv
<1>3. f.line = l /\ f.at = "handler"
  BY <1>1, <1>2, OneFrame DEF Handles, InHandler, Opened
<1>4. f = [line |-> l, at |-> "handler"] /\ l \in {0, 1}
  BY <1>3
<1>5. boot = 9
  BY <1>2, OneFrame, StepsAre DEF Opened, BootInv, TypeOK
<1>6. Append(Front(stack["idle"]), g) = <<g>>
  BY <1>2, OneFrame DEF Opened
<1>7. stack' = [stack EXCEPT !["idle"] = <<g>>]
  BY <1>1, <1>6 DEF Handles
<1>8. g \in Frames
  BY DEF Frames
<1>9. stack' \in [Contexts -> Seq(Frames)]
  BY <1>7, <1>8 DEF TypeOK, Contexts
<1>10. stack'["idle"] = <<g>> /\ stack'["task"] = << >>
  BY <1>7 DEF TypeOK, StackInv, Contexts
<1> QED
  BY <1>1, <1>2, <1>4, <1>5, <1>9, <1>10 DEF Opened, TypeOK

\* A handler that leaves the processor in the idle context.
LEMMA HandlerKeeps == IInv /\ (Quiet \/ Switch \/ on_irq1) => IInv'
<1> SUFFICES ASSUME IInv, Quiet \/ Switch \/ on_irq1 PROVE IInv'
  OBVIOUS
<1>1. \E l \in Lines : /\ Handles(l)
                       /\ (cpu' = cpu \/ l = 0)
                       /\ (obf' = obf \/ obf' = "empty")
                       /\ (l = 1 /\ 1 \in handlers => obf' = "empty")
  <2>1. CASE Quiet \/ Switch
    BY <2>1, InterruptsAssumption DEF Quiet, Switch, controller
  <2>2. CASE on_irq1
    BY <2>2 DEF on_irq1
  <2> QED
    BY <2>1, <2>2
<1>2. PICK l \in Lines : /\ Handles(l)
                        /\ (cpu' = cpu \/ l = 0)
                        /\ (obf' = obf \/ obf' = "empty")
                        /\ (l = 1 /\ 1 \in handlers => obf' = "empty")
  BY <1>1
<1>3. /\ UNCHANGED <<boots, halted, interrupts, pic, asked, kbdint>>
      /\ cpu' \in Contexts
  BY DEF IInv, Quiet, Switch, on_irq1, Handles, pic, controller, TypeOK
<1>4. TICKS_ON_CURRENT' \in 0..(TIME_SLICE_TICKS - 1)
  BY InterruptsAssumption DEF IInv, Quiet, Switch, on_irq1, SliceOver, TypeOK
<1>5. /\ l \in {0, 1} /\ cpu = "idle" /\ boot = 9
      /\ stack["idle"] = <<[line |-> l, at |-> "handler"]>> /\ isr = {l}
      /\ stack' \in [Contexts -> Seq(Frames)]
      /\ stack'["idle"] = <<[line |-> l, at |-> "eoi"]>> /\ stack'["task"] = << >>
      /\ interrupts = FALSE
  <2>1. Handles(l)
    BY <1>2
  <2> QED
    BY <2>1, HandlesStep
<1> USE DEF IInv
<1>6. TypeOK'
  BY <1>2, <1>3, <1>4, <1>5 DEF TypeOK, boots, pic
<1>7. BootInv'
  BY <1>3, <1>5 DEF BootInv, boots, pic
<1>8. StackInv'
  <2> DEFINE g == [line |-> l, at |-> "eoi"]
  <2>1. g \in [line : {0, 1}, at : {"handler", "eoi"}] /\ g.line = l
    BY <1>5
  <2>2. Opened(g)'
    BY <1>2, <1>3, <1>5 DEF Opened, boots, pic, Contexts
  <2> QED
    BY <1>5, <2>1, <2>2 DEF StackInv
<1>9. AliveInv'
  <2>1. CASE l = 1
    BY <1>2, <1>5, <2>1 DEF AliveInv, BootInv
  <2>2. CASE l = 0
    <3>1. stack["idle"] # <<[line |-> 1, at |-> "handler"]>>
      BY <1>5, <2>2
    <3> QED
      BY <1>2, <1>3, <3>1 DEF AliveInv, boots, pic
  <2> QED
    BY <1>5, <2>1, <2>2
<1> QED
  BY <1>6, <1>7, <1>8, <1>9

\* The end of interrupt leaves nothing open and nothing in service.
LEMMA EoiKeeps == IInv /\ send_eoi => IInv'
<1> SUFFICES ASSUME IInv, send_eoi PROVE IInv'
  OBVIOUS
<1> USE DEF IInv
<1>1. cpu = "idle"
  BY DEF send_eoi, StackInv, TypeOK, Contexts
<1>2. PICK f \in [line : {0, 1}, at : {"handler", "eoi"}] : Opened(f)
  BY <1>1 DEF send_eoi, StackInv
<1>3. f.at = "eoi" /\ f.line \in Nat
  BY <1>1, <1>2, OneFrame DEF send_eoi, Opened
<1>4. isr' = {}
  BY <1>2, <1>3 DEF send_eoi, Ended, Opened
<1>5. stack' = [stack EXCEPT !["idle"] = << >>]
  BY <1>1, <1>2, OneFrame DEF send_eoi, Opened
<1>6. stack' \in [Contexts -> Seq(Frames)] /\ stack'["idle"] = << >> /\ stack'["task"] = << >>
  BY <1>5 DEF TypeOK, StackInv, Contexts
<1>7. boot = 9
  BY <1>2, OneFrame, StepsAre DEF Opened, BootInv, TypeOK
<1>8. TypeOK'
  BY <1>4, <1>6 DEF send_eoi, TypeOK, boots, controller
<1>9. BootInv'
  BY <1>7 DEF send_eoi, BootInv, boots, controller
<1>10. StackInv'
  BY <1>1, <1>4, <1>6 DEF send_eoi, StackInv
<1>11. AliveInv'
  <2>1. stack["idle"] # <<[line |-> 1, at |-> "handler"]>>
    BY <1>2, <1>3 DEF Opened
  <2> QED
    BY <2>1 DEF send_eoi, AliveInv, boots, controller
<1> QED
  BY <1>8, <1>9, <1>10, <1>11

\* Tasks and exceptions open and close no handler.
LEMMA OthersKeep == IInv /\ (TaskSti \/ TaskBack \/ Exception) => IInv'
<1> SUFFICES ASSUME IInv, TaskSti \/ TaskBack \/ Exception PROVE IInv'
  OBVIOUS
<1> USE DEF IInv
<1>1. CASE TaskSti
  <2>1. cpu = "task" /\ interrupts' = TRUE
        /\ UNCHANGED <<boots, halted, cpu, stack, TICKS_ON_CURRENT, pic, controller>>
    BY <1>1 DEF TaskSti, Runs
  <2> QED
    BY <2>1 DEF TypeOK, BootInv, StackInv, Opened, AliveInv, boots, pic, controller
<1>2. CASE TaskBack
  <2>1. /\ cpu = "task" /\ cpu' = "idle" /\ interrupts' = FALSE /\ TICKS_ON_CURRENT' = 0
        /\ UNCHANGED <<boots, halted, stack, pic, controller>>
    BY <1>2 DEF TaskBack, Runs
  <2>2. cpu' \in Contexts /\ TICKS_ON_CURRENT' \in 0..(TIME_SLICE_TICKS - 1)
    BY <2>1, InterruptsAssumption DEF Contexts
  <2>3. TypeOK'
    BY <2>1, <2>2 DEF TypeOK, boots, pic, controller
  <2> QED
    BY <2>1, <2>3 DEF BootInv, StackInv, Opened, AliveInv, boots, pic, controller
<1>3. CASE Exception
  <2>1. /\ halted' = TRUE /\ interrupts' = FALSE
        /\ UNCHANGED <<boots, cpu, stack, TICKS_ON_CURRENT, pic, controller>>
    BY <1>3 DEF Exception
  <2>2. TypeOK'
    BY <2>1 DEF TypeOK, boots, pic, controller
  <2>3. BootInv'
    BY <2>1 DEF BootInv, boots, pic, controller
  <2>4. AliveInv'
    BY <2>1 DEF AliveInv, boots, pic, controller
  <2>5. StackInv'
    BY <2>1 DEF StackInv, Opened, boots, pic, controller
  <2> QED
    BY <2>2, <2>3, <2>4, <2>5
<1> QED
  BY <1>1, <1>2, <1>3
-----------------------------------------------------------------------------
(* The theorems                                                              *)

\* IInv holds at the start.
LEMMA InitInv == Init => IInv
<1> SUFFICES ASSUME Init PROVE IInv
  OBVIOUS
<1>1. stack \in [Contexts -> Seq(Frames)] /\ stack["idle"] = << >> /\ stack["task"] = << >>
  BY DEF Init, Contexts
<1>2. TICKS_ON_CURRENT \in 0..(TIME_SLICE_TICKS - 1)
  BY InterruptsAssumption DEF Init
<1>3. TypeOK
  <2>1. cpu \in Contexts /\ boot \in 1..(Len(Steps) + 1)
    BY StepsAre DEF Init, Contexts
  <2> QED
    BY <1>1, <1>2, <2>1 DEF Init, TypeOK
<1> QED
  BY <1>1, <1>3 DEF Init, IInv, BootInv, StackInv, AliveInv

\* Every step keeps it.
LEMMA NextKeeps == IInv /\ [Next]_vars => IInv'
<1> SUFFICES ASSUME IInv, [Next]_vars PROVE IInv'
  OBVIOUS
<1>1. CASE Devices
  BY <1>1, DevicesKeep
<1>2. CASE Boot
  BY <1>2, BootKeeps
<1>3. CASE Handler
  BY <1>3, HandlerKeeps, EoiKeeps DEF Handler
<1>4. CASE TaskSti \/ TaskBack \/ Exception
  BY <1>4, OthersKeep
<1>5. CASE \E l \in Lines : Deliver(l)
  BY <1>5, DeliverKeeps
<1>6. CASE UNCHANGED vars
  BY <1>6 DEF IInv, TypeOK, BootInv, StackInv, Opened, AliveInv, vars, boots, processor, pic,
              controller
<1> QED
  BY <1>1, <1>2, <1>3, <1>4, <1>5, <1>6 DEF Next

\* The inductive invariant holds of every behaviour of boot, the handlers and
\* the devices.
THEOREM InterruptsInvariance == Spec => []IInv
  BY InitInv, NextKeeps, PTL DEF Spec

\* IRQ_HANDLES, TICKS_ON_CURRENT, the registers and the devices keep their types.
THEOREM InterruptsTypeCorrect == Spec => []TypeOK
<1>1. IInv => TypeOK
  BY DEF IInv
<1> QED
  BY <1>1, InterruptsInvariance, PTL

\* What is open, from the shape of the stacks.
LEMMA OpenIs ==
    ASSUME IInv
    PROVE  \/ Open = {} /\ isr = {}
           \/ \E f \in [line : {0, 1}, at : {"handler", "eoi"}] : Opened(f) /\ Open = {f}
<1>1. Open = Range(stack["idle"])
  <2>1. Range(stack["task"]) = {}
    BY OneFrame DEF IInv, StackInv
  <2>2. Open = Range(stack["idle"]) \cup Range(stack["task"])
    BY DEF Open, Contexts
  <2> QED
    BY <2>1, <2>2
<1> QED
  BY <1>1, OneFrame DEF IInv, StackInv, Opened

\* common_handler never prints "NO HANDLER": _start sets IF last, and remap has
\* masked the lines without a handler.
THEOREM EveryLineHandled == Spec => []OnlyHandledLines
<1>1. ASSUME IInv PROVE OnlyHandledLines
  <2> SUFFICES ASSUME NEW f \in Open
               PROVE  f.line \in handlers /\ remapped /\ Done("init_idt")
    BY DEF OnlyHandledLines
  <2>1. f.line \in {0, 1} /\ stack["idle"] = <<f>>
    BY <1>1, OpenIs DEF Opened
  <2>2. boot = 9
    BY <1>1, <2>1, OneFrame, StepsAre DEF IInv, BootInv, TypeOK
  <2>3. Done("init_idt")
    BY <2>2, StepsAre DEF Done
  <2> QED
    BY <1>1, <2>1, <2>2, <2>3 DEF IInv, BootInv
<1>2. IInv => OnlyHandledLines
  BY <1>1
<1> QED
  BY <1>2, InterruptsInvariance, PTL

\* send_eoi names no line, and still ends the interrupt whose handler calls it.
THEOREM EoiIsOwn == Spec => []EoiEndsItsOwn
<1>1. ASSUME IInv PROVE EoiEndsItsOwn
  <2>1. isr = {f.line : f \in Open}
    BY <1>1, OpenIs DEF Opened
  <2>2. ASSUME NEW l \in Lines, InHandler(l) PROVE Ended = {l}
    <3>1. cpu = "idle"
      BY <1>1, <2>2 DEF IInv, InHandler, StackInv, TypeOK, Contexts
    <3>2. PICK f \in [line : {0, 1}, at : {"handler", "eoi"}] : Opened(f)
      BY <1>1, <2>2, <3>1 DEF IInv, InHandler, StackInv
    <3>3. f.line = l /\ l \in Nat
      BY <2>2, <3>1, <3>2, OneFrame, InterruptsAssumption DEF InHandler, Opened
    <3> QED
      BY <3>2, <3>3 DEF Ended, Opened
  <2> QED
    BY <2>1, <2>2 DEF EoiEndsItsOwn
<1>2. IInv => EoiEndsItsOwn
  BY <1>1
<1> QED
  BY <1>2, InterruptsInvariance, PTL

\* A byte that the keyboard controller holds after keyboard::init always has its
\* interrupt to come.
THEOREM KeyboardStaysAlive == Spec => []KeyboardAlive
<1>1. ASSUME IInv PROVE KeyboardAlive
  <2> SUFFICES ASSUME Done("write_ccb")
               PROVE  obf = "empty" \/ 1 \in irr \/ [line |-> 1, at |-> "handler"] \in Open
    BY DEF KeyboardAlive
  <2>1. boot > 5
    BY <1>1, StepsAre DEF IInv, TypeOK, Done
  <2>2. obf = "empty" \/ 1 \in irr \/ stack["idle"] = <<[line |-> 1, at |-> "handler"]>>
    BY <1>1, <2>1 DEF IInv, TypeOK, BootInv, AliveInv
  <2>3. [line |-> 1, at |-> "handler"] \in Range(<<[line |-> 1, at |-> "handler"]>>)
    BY OneFrame
  <2> QED
    BY <2>2, <2>3 DEF Open, Contexts
<1>2. IInv => KeyboardAlive
  BY <1>1
<1> QED
  BY <1>2, InterruptsInvariance, PTL
=============================================================================
