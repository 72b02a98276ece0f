------------------------------ MODULE Keyboard ------------------------------
(***************************************************************************)
(* Keyboard input: src/src/device/keyboard.rs (the IRQ1 handler and the    *)
(* ring buffer) and its one reader, run_shell in shell/simple_shell.rs.    *)
(*                                                                         *)
(* A task is switched to from inside the timer handler and runs with IRQ0  *)
(* in service (module Scheduler, OnlyIdleIsPreempted), so the PIC holds    *)
(* IRQ1, of lower priority, back until the idle context runs: on_irq1      *)
(* never interrupts the shell.                                             *)
(*                                                                         *)
(* External: a command the shell executes may put it to sleep, and the     *)
(* keyboard sends any bytes in any order.  Extended keys send a prefix     *)
(* 0xE0, an interrupt of its own that handle_irq ignores, and then bytes   *)
(* that it takes for other keys, among them shifts that nobody pressed     *)
(* (E0 2A with PrintScreen, say); a keyboard whose buffer overflows loses  *)
(* releases.  So shift is what the last byte of a shift key said, and says *)
(* nothing of the keys that are down.                                      *)
(*                                                                         *)
(* The two scancode tables are abstracted to the key and the shift flag it *)
(* is looked up with; Enter has the same character in both.                *)
(***************************************************************************)
EXTENDS Integers

CONSTANTS
    BUF_SIZE,
    Keys,      \* scancodes whose table entry is a character
    Enter,     \* the one of them whose character ends a command
    Shifts,    \* the two shift keys
    Dead,      \* a scancode past the tables or with entry 0, or a prefix
    NoChar     \* the 0 that the buffer holds at first

ASSUME KeyboardAssumption ==
    /\ BUF_SIZE \in Nat \ {0}
    /\ Enter \in Keys
    /\ Keys \cap Shifts = {} /\ Dead \notin Keys \cup Shifts

Slots == 0..(BUF_SIZE - 1)
Chars == {c \in [key : Keys, shifted : BOOLEAN] : c.key = Enter => ~c.shifted}
Scancodes == [key : Keys \cup Shifts \cup {Dead}, up : BOOLEAN]

VARIABLES
    buf, head, tail,   \* KeyBuffer
    shift,             \* Keyboard
    running,           \* the shell has the CPU
    got, dropped       \* last character popped; last one typed was not stored

vars == <<buf, head, tail, shift, running, got, dropped>>

Init ==
    /\ buf = [i \in Slots |-> NoChar] /\ head = 0 /\ tail = 0
    /\ shift = FALSE
    /\ running = FALSE
    /\ got = NoChar /\ dropped = FALSE

-----------------------------------------------------------------------------
(* IRQ1                                                                      *)

\* Faulty: without the test for a full buffer.
push_unchecked(byte) ==
    /\ buf' = [buf EXCEPT ![head] = byte]
    /\ head' = (head + 1) % BUF_SIZE

\* Faulty: the index does not wrap around.
push_nowrap(byte) ==
    IF (head + 1) % BUF_SIZE # tail
    THEN /\ buf' = [buf EXCEPT ![head] = byte]
         /\ head' = head + 1
    ELSE UNCHANGED <<buf, head>>

\* A character that finds the buffer full is lost.
push(byte) ==
    IF (head + 1) % BUF_SIZE # tail
    THEN /\ buf' = [buf EXCEPT ![head] = byte]
         /\ head' = (head + 1) % BUF_SIZE
    ELSE UNCHANGED <<buf, head>>

Ascii(k) == [key |-> k, shifted |-> shift /\ k # Enter]

\* Any release of a shift key clears shift, whatever the other one does.
ShiftAfter(sc) == IF sc.key \in Shifts THEN ~sc.up ELSE shift

handle_irq(sc) ==
    /\ shift' = ShiftAfter(sc)
    /\ IF sc.key \in Keys /\ ~sc.up
       THEN push(Ascii(sc.key)) /\ dropped' = (head' = head)
       ELSE UNCHANGED <<buf, head, dropped>>

on_irq1 ==
    /\ ~running
    /\ \E sc \in Scancodes : handle_irq(sc)
    /\ UNCHANGED <<tail, running, got>>

-----------------------------------------------------------------------------
(* The shell                                                                 *)

\* Faulty: the index does not move.
pop_stuck == got' = buf[tail] /\ UNCHANGED tail

pop == got' = buf[tail] /\ tail' = (tail + 1) % BUF_SIZE

\* Some(key), handed to handle_key; the command that Enter executes may sleep.
Pop ==
    /\ running /\ head # tail
    /\ pop
    /\ \/ UNCHANGED running
       \/ got'.key = Enter /\ running' = FALSE
    /\ UNCHANGED <<buf, head, shift, dropped>>

\* None: yield_cpu().
PopNone ==
    /\ running /\ head = tail
    /\ running' = FALSE
    /\ UNCHANGED <<buf, head, tail, shift, got, dropped>>

\* The scheduler switches to the shell.
Resume ==
    /\ ~running
    /\ running' = TRUE
    /\ UNCHANGED <<buf, head, tail, shift, got, dropped>>

Next == on_irq1 \/ Pop \/ PopNone \/ Resume

Spec == Init /\ [][Next]_vars

\* The scheduler comes back to a task that yields or sleeps (ReadyRuns and
\* SleeperRuns of module Scheduler), and the shell's loop goes on.
Fairness == WF_vars(Resume) /\ WF_vars(Pop \/ PopNone)
FairSpec == Spec /\ Fairness

-----------------------------------------------------------------------------
(* Properties                                                                *)

\* Every variable keeps its type (KeyBuffer and Keyboard).
TypeOK ==
    /\ buf \in [Slots -> Chars \cup {NoChar}]
    /\ head \in Slots /\ tail \in Slots
    /\ shift \in BOOLEAN /\ running \in BOOLEAN /\ dropped \in BOOLEAN
    /\ got \in Chars \cup {NoChar}

\* What waits in the ring, oldest first.
Waiting == [i \in 1..((head - tail) % BUF_SIZE) |-> buf[(tail + i - 1) % BUF_SIZE]]

\* The ring with its two indices is a queue of BUF_SIZE - 1 characters that
\* loses the newest.
Queue == INSTANCE KeyQueue WITH queue <- Waiting, Capacity <- BUF_SIZE - 1

ImplementsQueue == Queue!Spec

\* Whatever is typed meanwhile, and however often a command makes the shell
\* sleep, a character that waits is taken from the buffer.
WaitingIsTaken == \A t \in Slots : (tail = t /\ head # t) ~> tail # t
=============================================================================
