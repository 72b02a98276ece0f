---------------------------- MODULE SchedulerMC -----------------------------
(***************************************************************************)
(* Small instances of Scheduler for TLC.                                   *)
(***************************************************************************)
EXTENDS Scheduler

\* sleep_ms of 5 ms (less than a tick: one tick) and of 29 ms (2.9 ticks: 2).
MCSleepMs == {5, 29}

\* Free frames for two stacks, for three, and for three with one left over; the
\* holes between them fall between two stacks or within one.
TwoStacks   == {1, 2, 4, 5}
ThreeStacks == {1, 2, 3, 5, 6, 8}
OddFrame    == ThreeStacks \cup {9}

\* A machine on which the frames are one range.
Unbroken == 1..7

\* The calls that the shipped tasks make, and the whole interface.
ShippedOps == {"yield", "sleep"}
AllOps     == {"yield", "sleep", "exit", "wait", "create"}
=============================================================================
