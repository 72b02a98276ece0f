----------------------------- MODULE TaskManager -----------------------------
(***************************************************************************)
(* What the scheduler promises the tasks, without its table scan, its lock *)
(* and its interrupt flags: one task is on, the CPU is only ever given to  *)
(* a task that is alive, only that task makes calls, and a task that       *)
(* blocks stays blocked until what it waits for has happened.              *)
(***************************************************************************)
EXTENDS Integers

CONSTANTS Tasks, None

VARIABLES
    on,      \* the task that has the CPU
    status,  \* "none", "alive", "blocked" or "dead"
    pid,     \* its pid; None for no task
    left,    \* ticks until the deadline of a sleeper, or None
    awaits,  \* the pid that a waiter waits for, or None
    code     \* what a dead task has left for the one that waits for it, or None

vars == <<on, status, pid, left, awaits, code>>

Nothing == [t \in Tasks |-> None]

Init ==
    /\ on \in Tasks
    /\ status \in [Tasks -> {"none", "alive"}]
    /\ status[on] = "alive"
    /\ \A s, t \in Tasks : (s # t /\ pid[s] = pid[t]) => pid[s] = None
    /\ \A t \in Tasks : pid[t] = None <=> status[t] = "none"
    /\ left = Nothing /\ awaits = Nothing /\ code = Nothing

\* The CPU goes to another task, which must be able to use it.
Switch(t) == /\ t # on /\ status[t] = "alive"
             /\ on' = t
             /\ UNCHANGED <<status, pid, left, awaits, code>>

IsDue(t) == left[t] # None /\ left[t] <= 1

Tick ==
    /\ status' = [t \in Tasks |-> IF IsDue(t) THEN "alive" ELSE status[t]]
    /\ left' = [t \in Tasks |-> IF left[t] = None \/ IsDue(t) THEN None ELSE left[t] - 1]
    /\ UNCHANGED <<on, pid, awaits, code>>

\* For any number of ticks.
Sleep ==
    /\ status' = [status EXCEPT ![on] = "blocked"]
    /\ left' = [left EXCEPT ![on] = left'[on]] /\ left'[on] \in Nat
    /\ UNCHANGED <<on, pid, awaits, code>>

\* A task waits for one that has yet to exit.
Wait(t) ==
    /\ status[t] \in {"alive", "blocked"}
    /\ status' = [status EXCEPT ![on] = "blocked"]
    /\ awaits' = [awaits EXCEPT ![on] = pid[t]]
    /\ UNCHANGED <<on, pid, left, code>>

Woken == {t \in Tasks : awaits[t] = pid[on]}

\* With any value.
Exit ==
    /\ status' = [t \in Tasks |-> IF t = on THEN "dead"
                                  ELSE IF t \in Woken THEN "alive" ELSE status[t]]
    /\ awaits' = [t \in Tasks |-> IF t \in Woken THEN None ELSE awaits[t]]
    /\ code' = [code EXCEPT ![on] = code'[on]] /\ code'[on] \in Nat
    /\ UNCHANGED <<on, pid, left>>

\* The value is taken, and with it the task is gone.
Reap(t) ==
    /\ status[t] = "dead"
    /\ status' = [status EXCEPT ![t] = "none"]
    /\ pid' = [pid EXCEPT ![t] = None]
    /\ code' = [code EXCEPT ![t] = None]
    /\ UNCHANGED <<on, left, awaits>>

\* The pid of a new task is nobody else's.
Create(t) ==
    /\ status[t] = "none"
    /\ pid' = [pid EXCEPT ![t] = pid'[t]] /\ pid'[t] \in Nat
    /\ \A s \in Tasks : pid[s] # pid'[t]
    /\ status' = [status EXCEPT ![t] = "alive"]
    /\ UNCHANGED <<on, left, awaits, code>>

Call == /\ status[on] = "alive"
        /\ Sleep \/ Exit \/ \E t \in Tasks : Wait(t) \/ Reap(t) \/ Create(t)

Next == Tick \/ Call \/ \E t \in Tasks : Switch(t)

Spec == Init /\ [][Next]_vars
=============================================================================
