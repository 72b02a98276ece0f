--------------------------- MODULE BlockAllocator ---------------------------
(***************************************************************************)
(* What the kernel heap promises its callers: kmalloc returns memory that  *)
(* lies in the heap and overlaps nothing that is still held, kfree takes   *)
(* back what kmalloc returned, and the heap never shrinks.                 *)
(***************************************************************************)
EXTENDS Integers

CONSTANT Sizes

VARIABLES bounds,  \* the heap's memory is bounds[1]..bounds[2] - 1
          held     \* what callers hold: [ptr, len]

vars == <<bounds, held>>

Bytes(r) == r.ptr..(r.ptr + r.len - 1)

Init == held = {} /\ bounds[1] = bounds[2]

\* kmalloc_init, and the expansion on behalf of a kmalloc that found no room.
Grow == /\ bounds'[1] = bounds[1] /\ bounds'[2] > bounds[2]
        /\ UNCHANGED held

Alloc(n) == /\ \E r \in held' \ held :
                /\ held' = held \cup {r}
                /\ r.len = n
                /\ bounds[1] <= r.ptr /\ r.ptr + n <= bounds[2]
                /\ \A q \in held : Bytes(q) \cap Bytes(r) = {}
            /\ UNCHANGED bounds

Free == /\ \E r \in held : held' = held \ {r}
        /\ UNCHANGED bounds

Next == Grow \/ Free \/ \E n \in Sizes : Alloc(n)

Spec == Init /\ [][Next]_vars
=============================================================================
