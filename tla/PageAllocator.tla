---------------------------- MODULE PageAllocator ----------------------------
(***************************************************************************)
(* What the physical memory manager promises its callers (the VMM, the     *)
(* heap, task creation): once it is up, it hands out page frames that      *)
(* nobody else holds, and takes back what it handed out.  (That it says    *)
(* None only when there is no frame left is NoneMeansExhausted of Pmm.)    *)
(***************************************************************************)
CONSTANT Frames

VARIABLES up,     \* init_pmm has returned
          avail,  \* frames it can hand out
          held    \* frames it has handed out

vars == <<up, avail, held>>

Init == up = FALSE /\ avail = {} /\ held = {}

Start == /\ ~up /\ up' = TRUE
         /\ avail' \in SUBSET Frames
         /\ UNCHANGED held

Alloc == /\ up
         /\ \E p \in avail : avail' = avail \ {p} /\ held' = held \cup {p}
         /\ UNCHANGED up

Free == /\ up
        /\ \E p \in held : avail' = avail \cup {p} /\ held' = held \ {p}
        /\ UNCHANGED up

Next == Start \/ Alloc \/ Free

Spec == Init /\ [][Next]_vars
=============================================================================
