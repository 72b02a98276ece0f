------------------------------ MODULE MemoryMC ------------------------------
(***************************************************************************)
(* A small machine for Memory: tables of two entries, so that a page has   *)
(* four bits.  Pages 0..3 are the direct map, 4..7 the heap, which is one  *)
(* entry of the second level further, 8..11 the kernel, and 14 the LAPIC.  *)
(***************************************************************************)
EXTENDS Memory

\* Frame 100 is the root.  101 and 102 are its tables, for the direct map and
\* for the kernel.  103 is a large page of the direct map, with data that
\* would be entries if a walk took it for a table; 104 is a table of the kernel.
MCLoader ==
    [f \in 100..104 |->
        CASE f = 100 -> [i \in Idx |-> 101 + i]
          [] f = 101 -> [i \in Idx |-> IF i = 0 THEN 103 ELSE None]
          [] f = 102 -> [i \in Idx |-> IF i = 0 THEN 104 ELSE None]
          [] f = 103 -> [i \in Idx |-> IF i = 0 THEN None ELSE Junk]
          [] f = 104 -> [i \in Idx |-> Junk]]

MCPages == 4..7 \cup {14}
MCDevPhys == {201, 202}
MCPhys == 1..NPages \cup MCDevPhys
=============================================================================
