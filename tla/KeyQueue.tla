------------------------------ MODULE KeyQueue ------------------------------
(***************************************************************************)
(* What the keyboard buffer promises the shell: the characters typed, in   *)
(* the order they were typed, less those that came when Capacity           *)
(* characters were waiting.                                                *)
(***************************************************************************)
EXTENDS Naturals, Sequences

CONSTANTS Chars, Capacity, NoChar

VARIABLES queue,    \* characters waiting
          got,      \* the last one the shell took
          dropped   \* the last one typed was lost

vars == <<queue, got, dropped>>

Init == queue = << >> /\ got = NoChar /\ dropped = FALSE

Put(c) == /\ Len(queue) < Capacity
          /\ queue' = Append(queue, c) /\ dropped' = FALSE
          /\ UNCHANGED got

Drop == /\ Len(queue) = Capacity
        /\ dropped' = TRUE
        /\ UNCHANGED <<queue, got>>

Get == /\ queue # << >>
       /\ got' = Head(queue) /\ queue' = Tail(queue)
       /\ UNCHANGED dropped

Next == Drop \/ Get \/ \E c \in Chars : Put(c)

Spec == Init /\ [][Next]_vars
=============================================================================
