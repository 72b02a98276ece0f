---------------------------- MODULE AddressSpace ----------------------------
(***************************************************************************)
(* What the virtual memory manager promises: a mapping from pages to       *)
(* frames, of which map_page and unmap_page change one page each, and      *)
(* which every access of the CPU obeys at once.                            *)
(***************************************************************************)
CONSTANTS Pages, Phys, None

VARIABLES mapping,  \* [Pages -> frame or None]
          seen      \* the last access since the mapping changed: [page, frame]

vars == <<mapping, seen>>

Unseen == [page |-> None, frame |-> None]

Init == mapping = [v \in Pages |-> None] /\ seen = Unseen

\* map_page to some frame, or unmap_page.
Update(v) == /\ mapping'[v] \in Phys \cup {None}
             /\ mapping' = [mapping EXCEPT ![v] = mapping'[v]]
             /\ seen' = Unseen

Access(v) == /\ mapping[v] # None
             /\ seen' = [page |-> v, frame |-> mapping[v]]
             /\ UNCHANGED mapping

Next == \E v \in Pages : Update(v) \/ Access(v)

Spec == Init /\ [][Next]_vars
=============================================================================
