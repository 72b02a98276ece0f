-------------------------------- MODULE Vmm ---------------------------------
(***************************************************************************)
(* The virtual memory manager, src/src/memory/vmm.rs: the four levels of   *)
(* page tables below CR3, map_page, unmap_page and get_phys_addr.  Its     *)
(* callers, and the behaviours, are in Memory.                             *)
(*                                                                         *)
(* A page is its number, the virtual address in units of PAGE_SIZE.        *)
(* Flags, other than PRESENT (an entry that is not None), are left out.    *)
(* External: the processor's cache of translations, and the tables of the  *)
(* boot loader, which map_page extends.                                    *)
(***************************************************************************)
EXTENDS Integers, FiniteSets

CONSTANTS
    TABLE_SIZE, \* entries of a table (512)
    Pages,      \* the virtual pages that the kernel maps
    Phys,       \* the frames that callers map them to
    NPages,     \* frames 1..NPages are what alloc_page can give out
    Root,       \* the frame CR3 points to
    Loader,     \* contents of the frames that the boot loader's tables use
    Junk,       \* an old entry in a frame that alloc_page gives out
    None        \* an entry that is not present; Option::None

Idx    == 0..(TABLE_SIZE - 1)
Frames == 1..NPages \cup DOMAIN Loader

ASSUME VmmAssumption ==
    /\ TABLE_SIZE \in Nat \ {0, 1} /\ NPages \in Nat
    /\ Pages \subseteq 0..(TABLE_SIZE * TABLE_SIZE * TABLE_SIZE * TABLE_SIZE - 1)
    /\ DOMAIN Loader \cap 1..NPages = {} /\ Root \in DOMAIN Loader
    /\ \A f \in DOMAIN Loader : Loader[f] \in [Idx -> DOMAIN Loader \cup {Junk, None}]
    /\ Junk \in Frames
    /\ None \notin Phys \cup Frames

VARIABLES
    mem,        \* contents of the frames, as tables
    freePages,  \* frames that alloc_page can give out
    tlb,        \* the processor's cached translations
    seen,       \* page and frame of the last access since a call (not state of the program)
    panicked

vars == <<mem, freePages, tlb, seen, panicked>>

Zeroed == [i \in Idx |-> None]

Unseen == [page |-> None, frame |-> None]

Init ==
    /\ mem = [f \in Frames |-> IF f \in DOMAIN Loader THEN Loader[f]
                               ELSE [i \in Idx |-> Junk]]
    /\ freePages = 1..NPages
    /\ tlb = [v \in Pages |-> None]
    /\ seen = Unseen
    /\ panicked = FALSE

\* The indices of a page in the tables of the four levels.
split_indices(virt) ==
    <<virt \div (TABLE_SIZE * TABLE_SIZE * TABLE_SIZE),
      (virt \div (TABLE_SIZE * TABLE_SIZE)) % TABLE_SIZE,
      (virt \div TABLE_SIZE) % TABLE_SIZE, virt % TABLE_SIZE>>

-----------------------------------------------------------------------------
(* map_page                                                                  *)

\* A walk in progress, w below, is the table reached, the frames and the free
\* frames as they then are, and whether alloc_page found none.
FirstFree(free) == CHOOSE f \in free : \A g \in free : f <= g

\* Faulty: the new table is not cleared.
NewTableDirty(w, i, f) ==
    [w EXCEPT !.mem[w.table][i] = f, !.free = @ \ {f}, !.table = f]

NewTable(w, i, f) ==
    [w EXCEPT !.mem = [@ EXCEPT ![f] = Zeroed, ![w.table][i] = f],
              !.free = @ \ {f}, !.table = f]

\* The table that entry i leads to, made of a fresh frame if there is none;
\* .expect() panics when alloc_page has none left.
next_table_or_create(w, i) ==
    IF w.oom THEN w
    ELSE IF w.mem[w.table][i] # None THEN [w EXCEPT !.table = w.mem[w.table][i]]
    ELSE IF w.free = {} THEN [w EXCEPT !.oom = TRUE]
    ELSE NewTable(w, i, FirstFree(w.free))

\* The page table with these indices, at the end of the three calls.
PageTable(ix) ==
    LET pml4 == [table |-> Root, mem |-> mem, free |-> freePages, oom |-> FALSE]
        pdpt == next_table_or_create(pml4, ix[1])
        pd   == next_table_or_create(pdpt, ix[2])
    IN  next_table_or_create(pd, ix[3])

invlpg(v) == tlb' = [tlb EXCEPT ![v] = None]

\* Tables made before the panic stay.
map_page(v, p) ==
    /\ ~panicked
    /\ LET ix == split_indices(v)
           pt == PageTable(ix) IN
        /\ freePages' = pt.free
        /\ panicked' = pt.oom
        /\ IF pt.oom
           THEN mem' = pt.mem /\ UNCHANGED tlb
           ELSE mem' = [pt.mem EXCEPT ![pt.table][ix[4]] = p] /\ invlpg(v)
    /\ seen' = Unseen

-----------------------------------------------------------------------------
(* unmap_page, get_phys_addr                                                 *)

\* The entries of the three upper levels; None where an entry is not present.
Entry(table, i) == IF table = None THEN None ELSE mem[table][i]

\* The page table with these indices, or None.
walk_existing(ix) == Entry(Entry(Entry(Root, ix[1]), ix[2]), ix[3])

get_phys_addr(v) == LET ix == split_indices(v) IN Entry(walk_existing(ix), ix[4])

\* Faulty: without invlpg.
unmap_page_cached(v) ==
    LET ix == split_indices(v) IN
    /\ ~panicked
    /\ walk_existing(ix) # None
    /\ mem' = [mem EXCEPT ![walk_existing(ix)][ix[4]] = None]
    /\ seen' = Unseen
    /\ UNCHANGED <<tlb, freePages, panicked>>

\* Tables that become empty stay.
unmap_page(v) ==
    LET ix == split_indices(v) IN
    /\ ~panicked
    /\ walk_existing(ix) # None
    /\ mem' = [mem EXCEPT ![walk_existing(ix)][ix[4]] = None]
    /\ invlpg(v)
    /\ seen' = Unseen
    /\ UNCHANGED <<freePages, panicked>>

\* The processor translates v with the cached translation, or walks the tables
\* and may keep what it finds.
Access(v) ==
    /\ ~panicked
    /\ \E f \in IF tlb[v] # None THEN {tlb[v]} ELSE {get_phys_addr(v)} \ {None} :
        /\ seen' = [page |-> v, frame |-> f]
        /\ tlb' = [tlb EXCEPT ![v] = f]
    /\ UNCHANGED <<mem, freePages, panicked>>

\* It may forget any translation.
Evict(v) == /\ tlb[v] # None
            /\ invlpg(v)
            /\ UNCHANGED <<mem, freePages, seen, panicked>>

-----------------------------------------------------------------------------
(* Properties                                                                *)

\* Every variable keeps its type (the tables as map_page writes them).
TypeOK ==
    /\ mem \in [Frames -> [Idx -> Frames \cup Phys \cup {None}]]
    /\ freePages \subseteq 1..NPages
    /\ tlb \in [Pages -> Phys \cup {None}]
    /\ seen \in [page : Pages \cup {None}, frame : Phys \cup {None}]
    /\ panicked \in BOOLEAN

\* The tables, with the processor's cache, implement a mapping from pages to
\* frames: mapping or unmapping one page changes no other, a table that was
\* just created maps nothing, and no access uses a stale translation.
Space == INSTANCE AddressSpace
    WITH mapping <- [v \in Pages |-> get_phys_addr(v)]

ImplementsSpace == Space!Spec
=============================================================================
