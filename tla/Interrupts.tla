----------------------------- MODULE Interrupts ------------------------------
(***************************************************************************)
(* Interrupts from boot on: the steps of _start that set them up           *)
(* (src/src/main.rs), the handlers of interrupt/idt.rs, pic.rs and pit.rs, *)
(* and keyboard::init and on_irq1 of device/keyboard.rs.                   *)
(*                                                                         *)
(* External: the 8259 (edge triggered, fully nested: an interrupt in       *)
(* service holds back its own line and those of lower priority), the       *)
(* keyboard controller with its output buffer of one byte, and the timer.  *)
(* Of the scheduler, modelled in Scheduler, remains that the end of a time *)
(* slice may give the CPU to a task and that a task gives it back.         *)
(*                                                                         *)
(* Abstracted: port numbers and command bytes; waits for the controller to *)
(* accept a byte; the local APIC, which remap makes pass the 8259 through. *)
(***************************************************************************)
EXTENDS Integers, SequencesExt

CONSTANTS
    Lines,            \* lines of the 8259: 0 the timer, 1 the keyboard, others
    TIME_SLICE_TICKS  \* ticks before tick() calls schedule()

ASSUME InterruptsAssumption ==
    /\ Lines \subseteq 0..15 /\ {0, 1} \subseteq Lines
    /\ TIME_SLICE_TICKS \in Nat \ {0}

\* Faulty: the keyboard is set up before the interrupt controller.
StepsKeyboardFirst == <<"init_idt", "ask_ccb", "read_ccb", "write_ccb", "on_irq1",
                        "remap", "pit", "sti">>

\* What _start does about interrupts, in its order.
Steps == <<"init_idt", "remap", "ask_ccb", "read_ccb", "write_ccb", "on_irq1",
           "pit", "sti">>

VARIABLES
    boot,              \* the step of Steps that _start executes next
    halted,            \* an exception handler halts for ever
    cpu,               \* whose stack is in use: "idle" (that of _start) or "task"
    interrupts,        \* RFLAGS.IF
    stack,             \* per context: the frames of handlers, the last one on top
    irr, isr, imr,     \* of the 8259: requested, in service and masked lines
    remapped,          \* it sends vectors from 32 on
    handlers,          \* the lines with an entry in IRQ_HANDLES
    TICKS_ON_CURRENT,
    obf,               \* controller's output buffer: "empty", "scan" or "ccb"
    asked,             \* it has yet to answer the command that asks for the CCB
    kbdint             \* bit 0 of the CCB: a full output buffer raises line 1

boots      == <<boot, remapped, handlers>>
processor  == <<halted, cpu, interrupts, stack, TICKS_ON_CURRENT>>
pic        == <<irr, isr, imr>>
controller == <<obf, asked, kbdint>>
vars       == <<boots, processor, pic, controller>>

Contexts == {"idle", "task"}

\* The state the boot loader leaves: IF clear, a key perhaps pressed already.
Init ==
    /\ boot = 1
    /\ halted = FALSE /\ cpu = "idle" /\ interrupts = FALSE
    /\ stack = [c \in Contexts |-> << >>]
    /\ irr \in SUBSET Lines /\ isr = {} /\ imr = {}
    /\ remapped = FALSE /\ handlers = {}
    /\ TICKS_ON_CURRENT = 0
    /\ obf \in {"empty", "scan"} /\ asked = FALSE /\ kbdint \in BOOLEAN

-----------------------------------------------------------------------------
(* The devices                                                               *)

InHandler(line) == stack[cpu] # << >> /\ Last(stack[cpu]).line = line

\* A period of the timer.  Timing assumption: a run of the tick handler, the
\* tasks it may switch to aside, is shorter than a period.
Period == /\ ~InHandler(0)
          /\ irr' = irr \cup {0}
          /\ UNCHANGED <<boots, processor, isr, imr, controller>>

\* The buffer becomes full: an edge on line 1 if the CCB enables it.
Fill(byte) == /\ obf = "empty" /\ obf' = byte
              /\ irr' = IF kbdint THEN irr \cup {1} ELSE irr
              /\ UNCHANGED <<boots, processor, isr, imr, kbdint>>

KeyPress == Fill("scan") /\ UNCHANGED asked

Answer == asked /\ Fill("ccb") /\ asked' = FALSE

\* Another device, whose line remap masks.
OtherLine == /\ \E l \in Lines \ {0, 1} : irr' = irr \cup {l}
             /\ UNCHANGED <<boots, processor, isr, imr, controller>>

Devices == Period \/ KeyPress \/ Answer \/ OtherLine

-----------------------------------------------------------------------------
(* _start                                                                    *)

Runs(c) == ~halted /\ cpu = c /\ stack[c] = << >>

Done(op) == \E k \in 1..(boot - 1) : Steps[k] = op

Step(op) == /\ Runs("idle") /\ boot <= Len(Steps) /\ Steps[boot] = op
            /\ boot' = boot + 1

\* lidt; the gates are interrupt gates.
init_idt == Step("init_idt") /\ UNCHANGED <<remapped, handlers, processor, pic, controller>>

\* Faulty: the masks that were read are not replaced.
remap_masks_kept ==
    /\ Step("remap")
    /\ irr' = {} /\ isr' = {} /\ UNCHANGED imr
    /\ remapped' = TRUE
    /\ UNCHANGED <<handlers, processor, controller>>

\* ICW1 forgets every edge seen so far.
remap ==
    /\ Step("remap")
    /\ irr' = {} /\ isr' = {}
    /\ imr' = Lines \ {0, 1}
    /\ remapped' = TRUE
    /\ UNCHANGED <<handlers, processor, controller>>

ask_ccb == /\ Step("ask_ccb")
           /\ asked' = TRUE
           /\ UNCHANGED <<remapped, handlers, processor, pic, obf, kbdint>>

\* wait_read returns when the buffer is full, be it with a scancode, and also
\* when it has polled long enough.
read_ccb == /\ Step("read_ccb")
            /\ obf' = "empty"
            /\ UNCHANGED <<remapped, handlers, processor, pic, asked, kbdint>>

\* Whatever was read, bit 0 is set before it is written back.
write_ccb == /\ Step("write_ccb")
             /\ kbdint' = TRUE
             /\ irr' = IF obf # "empty" /\ ~kbdint THEN irr \cup {1} ELSE irr
             /\ UNCHANGED <<remapped, handlers, processor, isr, imr, obf, asked>>

\* register_irq_handler, at the end of keyboard::init and of pit::init.
Register(op, line) == /\ Step(op)
                      /\ handlers' = handlers \cup {line}
                      /\ UNCHANGED <<remapped, processor, pic, controller>>

sti == /\ Step("sti")
       /\ interrupts' = TRUE
       /\ UNCHANGED <<remapped, handlers, halted, cpu, stack, TICKS_ON_CURRENT, pic,
                      controller>>

Boot == \/ init_idt \/ remap \/ ask_ccb \/ read_ccb \/ write_ccb \/ sti
        \/ Register("on_irq1", 1) \/ Register("pit", 0)

-----------------------------------------------------------------------------
(* The handlers                                                              *)

\* The processor takes the pending line of highest priority, unless one of at
\* least that priority is in service.
Deliver(line) ==
    /\ ~halted /\ interrupts
    /\ line \in irr \ imr
    /\ \A l \in irr \ imr : line <= l
    /\ \A l \in isr : line < l
    /\ irr' = irr \ {line} /\ isr' = isr \cup {line}
    /\ interrupts' = FALSE
    /\ stack' = [stack EXCEPT ![cpu] = Append(@, [line |-> line, at |-> "handler"])]
    /\ UNCHANGED <<boots, halted, cpu, TICKS_ON_CURRENT, imr, controller>>

\* common_handler calls the handler of its line.  A line without one is only
\* reported.
Handles(line) ==
    /\ ~halted /\ InHandler(line) /\ Last(stack[cpu]).at = "handler"
    /\ stack' = [stack EXCEPT ![cpu] = Append(Front(@), [line |-> line, at |-> "eoi"])]
    /\ UNCHANGED <<boots, halted, interrupts>>

\* Faulty: > in place of >=.
SliceOverLate == TICKS_ON_CURRENT + 1 > TIME_SLICE_TICKS

SliceOver == TICKS_ON_CURRENT + 1 >= TIME_SLICE_TICKS

\* on_tick within a time slice.
Quiet == /\ Handles(0) /\ (0 \in handlers => ~SliceOver)
         /\ TICKS_ON_CURRENT' = TICKS_ON_CURRENT + (IF 0 \in handlers THEN 1 ELSE 0)
         /\ UNCHANGED <<cpu, pic, controller>>

\* Faulty: the end of interrupt is sent before schedule().
SwitchEoiFirst == /\ Handles(0) /\ 0 \in handlers /\ SliceOver
                  /\ TICKS_ON_CURRENT' = 0
                  /\ cpu' \in Contexts
                  /\ isr' = isr \ {0}
                  /\ UNCHANGED <<irr, imr, controller>>

\* schedule() finds a ready task, or nobody.
Switch == /\ Handles(0) /\ 0 \in handlers /\ SliceOver
          /\ TICKS_ON_CURRENT' = 0
          /\ cpu' \in Contexts
          /\ UNCHANGED <<pic, controller>>

\* handle_irq reads the byte, whether or not there is a new one.
on_irq1 == /\ \E l \in Lines \ {0} :
               /\ Handles(l)
               /\ obf' = IF l = 1 /\ 1 \in handlers THEN "empty" ELSE obf
           /\ UNCHANGED <<cpu, TICKS_ON_CURRENT, pic, asked, kbdint>>

\* The one that a non-specific end of interrupt ends.
Ended == {l \in isr : \A k \in isr : l <= k}

\* Faulty: no end of interrupt for the keyboard's line.
send_eoi_timer_only ==
    /\ ~halted /\ stack[cpu] # << >> /\ Last(stack[cpu]).at = "eoi"
    /\ isr' = IF InHandler(0) THEN isr \ Ended ELSE isr
    /\ stack' = [stack EXCEPT ![cpu] = Front(@)]
    /\ interrupts' = TRUE
    /\ UNCHANGED <<boots, halted, cpu, TICKS_ON_CURRENT, irr, imr, controller>>

\* send_eoi and the iretq of common_stub, back to code that had IF set.
send_eoi ==
    /\ ~halted /\ stack[cpu] # << >> /\ Last(stack[cpu]).at = "eoi"
    /\ isr' = isr \ Ended
    /\ stack' = [stack EXCEPT ![cpu] = Front(@)]
    /\ interrupts' = TRUE
    /\ UNCHANGED <<boots, halted, cpu, TICKS_ON_CURRENT, irr, imr, controller>>

\* wait_for sets IF in a task, although the timer's line is still in service.
TaskSti == /\ Runs("task") /\ interrupts' = TRUE
           /\ UNCHANGED <<boots, halted, cpu, stack, TICKS_ON_CURRENT, pic, controller>>

\* cli and schedule(), in the end back to the handler it was switched from.
TaskBack == /\ Runs("task")
            /\ cpu' = "idle" /\ interrupts' = FALSE
            /\ TICKS_ON_CURRENT' = 0
            /\ UNCHANGED <<boots, halted, stack, pic, controller>>

\* Every exception handler prints and halts with IF clear, in whatever code it
\* came.
Exception == /\ ~halted /\ Done("init_idt")
             /\ halted' = TRUE /\ interrupts' = FALSE
             /\ UNCHANGED <<boots, cpu, stack, TICKS_ON_CURRENT, pic, controller>>

Handler == Quiet \/ Switch \/ on_irq1 \/ send_eoi

Next == \/ Devices \/ Boot \/ Handler \/ TaskSti \/ TaskBack \/ Exception
        \/ \E l \in Lines : Deliver(l)

Spec == Init /\ [][Next]_vars

\* The CPU executes for ever, a task gives it back (their bodies are loops
\* around sleep_ms and yield_cpu), and the processor looks for interrupts after
\* every instruction, which takes less than a period of the timer.
Fairness == /\ WF_vars(Boot) /\ WF_vars(Handler) /\ WF_vars(TaskBack)
            /\ \A l \in Lines : SF_vars(Deliver(l))
FairSpec == Spec /\ Fairness

-----------------------------------------------------------------------------
(* Properties                                                                *)

Frames == [line : Lines, at : {"handler", "eoi"}]

\* Every variable keeps its type (IRQ_HANDLES, TICKS_ON_CURRENT, the registers
\* and the devices).
TypeOK ==
    /\ boot \in 1..(Len(Steps) + 1)
    /\ halted \in BOOLEAN /\ interrupts \in BOOLEAN /\ remapped \in BOOLEAN
    /\ cpu \in Contexts
    /\ stack \in [Contexts -> Seq(Frames)]
    /\ irr \subseteq Lines /\ isr \subseteq Lines /\ imr \subseteq Lines
    /\ handlers \subseteq Lines
    /\ TICKS_ON_CURRENT \in 0..(TIME_SLICE_TICKS - 1)
    /\ obf \in {"empty", "scan", "ccb"} /\ asked \in BOOLEAN /\ kbdint \in BOOLEAN

Open == UNION {Range(stack[c]) : c \in Contexts}

\* An interrupt of the 8259 never comes before its vector is past those of the
\* exceptions and in the loaded IDT, nor without a handler ("NO HANDLER" of
\* common_handler is never printed): _start sets IF last, and masks the rest.
OnlyHandledLines ==
    \A f \in Open : f.line \in handlers /\ remapped /\ Done("init_idt")

\* The end of interrupt does not name a line.  It ends the one whose handler
\* sends it, for the handlers that are open, on both stacks, are exactly those
\* of the lines in service, and the one on top is that of the highest.
EoiEndsItsOwn ==
    /\ isr = {f.line : f \in Open}
    /\ \A l \in Lines : InHandler(l) => Ended = {l}

\* The line of the keyboard is edge triggered, and a full buffer makes no edge:
\* if the edge were forgotten with the byte left unread, no key would come any
\* more.  Once keyboard::init has written the CCB, a full buffer has its edge
\* latched or its handler before it.
KeyboardAlive ==
    Done("write_ccb") =>
        (obf = "empty" \/ 1 \in irr \/ [line |-> 1, at |-> "handler"] \in Open)

\* Every key is read, although the keyboard waits for every tick and for every
\* task that the ticks switch to.
KeysAreRead == obf = "scan" ~> (obf = "empty" \/ halted)
=============================================================================
