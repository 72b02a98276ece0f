------------------------------- MODULE Memory -------------------------------
(***************************************************************************)
(* The memory of the kernel as a whole: the page tables (Vmm), the heap    *)
(* (Heap) and the stacks of tasks, all on the frames of one page allocator *)
(* (src/src/memory/, and what task.rs and pic.rs do with it).              *)
(*                                                                         *)
(* The heap's map_fresh_pages takes a frame and maps it, page after page,  *)
(* and each mapping may take more frames for tables: any of these may find *)
(* none left, and then panics where it is.  Callers do not interleave: no  *)
(* task is preempted, and _start maps all it maps with interrupts off.     *)
(***************************************************************************)
EXTENDS Vmm

CONSTANTS
    HEAP_START, HEAP_MAX_SIZE, HEADER_SIZE, ALIGN, PAGE_SIZE, InitBytes, Sizes,
    DevPages,   \* pages at which a driver maps its device (LAPIC_VIRT)
    DevPhys,    \* frames of devices
    MAX_TASKS,  \* tasks that have a stack
    Opaque      \* frames that entries of the boot loader's tables name, which
                \* are not tables that the kernel walks: its own, or large pages

VARIABLES
    phase, blocks, HEAP_END, retry, held,  \* of Heap
    job,      \* the map_fresh_pages in progress
    hand,     \* the frame it has just taken
    stacks,   \* the frames of every task's stack, <<phys0, phys1>>
    lost      \* upper frames of the stacks of terminated tasks

heap  == <<phase, blocks, HEAP_END, retry, held>>
fresh == <<job, hand>>
tasks == <<stacks, lost>>
memoryVars == <<vars, heap, fresh, tasks>>

H == INSTANCE Heap

PageOf(addr) == addr \div PAGE_SIZE
HeapPages == PageOf(HEAP_START)..(PageOf(HEAP_START + HEAP_MAX_SIZE) - 1)

ASSUME MemoryAssumption ==
    /\ HEAP_START \in Nat /\ HEAP_MAX_SIZE \in Nat
    /\ HEADER_SIZE \in Nat \ {0} /\ ALIGN \in Nat \ {0} /\ PAGE_SIZE \in Nat \ {0}
    /\ HEAP_START % PAGE_SIZE = 0 /\ HEAP_MAX_SIZE % PAGE_SIZE = 0
    /\ InitBytes \in Nat /\ InitBytes > HEADER_SIZE + ALIGN /\ InitBytes <= HEAP_MAX_SIZE
    /\ Sizes \subseteq Nat \ {0}
    /\ MAX_TASKS \in Nat
    /\ DevPhys \cap Frames = {} /\ Phys = 1..NPages \cup DevPhys
    /\ HeapPages \cup DevPages \subseteq Pages /\ HeapPages \cap DevPages = {}
    /\ Opaque \subseteq DOMAIN Loader

\* The tables that entries of these tables of the boot loader name.
LoaderBelow(tables) == {Loader[e[1]][e[2]] : e \in tables \X Idx} \ ({None} \cup Opaque)

\* The boot loader's tables are a tree of three levels, at the end of which are
\* the opaque frames.
ASSUME LoaderAssumption ==
    LET pdpts  == LoaderBelow({Root})
        pds    == LoaderBelow(pdpts)
        tables == {Root} \cup pdpts \cup pds
    IN
    /\ tables \subseteq DOMAIN Loader \ Opaque /\ LoaderBelow(pds) = {}
    /\ Root \notin pdpts \cup pds /\ pdpts \cap pds = {}
    /\ \A t, u \in tables, i, j \in Idx :
          Loader[t][i] = Loader[u][j] /\ Loader[t][i] \in tables => t = u /\ i = j

\* No opaque frame is on the way to a page that the kernel maps.  This is an
\* assumption about the machine, and the code does not check it: get_table and
\* get_phys_addr never look at the large-page bit, so where the direct map ends
\* above HEAP_START, as with more than 4 GiB of memory, nothing here applies.
ASSUME DirectMapAssumption ==
    LET pdpts == LoaderBelow({Root})
        pds   == LoaderBelow(pdpts)
    IN
    \A i, j, k, l \in Idx :
        ((i * TABLE_SIZE + j) * TABLE_SIZE + k) * TABLE_SIZE + l \in Pages =>
           /\ Loader[Root][i] \notin Opaque
           /\ Loader[Root][i] \in pdpts =>
                LET pdpt == Loader[Root][i] IN
                /\ Loader[pdpt][j] \notin Opaque
                /\ Loader[pdpt][j] \in pds => Loader[Loader[pdpt][j]][k] \notin Opaque

\* map_fresh_pages(virt, n) for kmalloc_init (size 0) or for a kmalloc of size,
\* with i pages mapped.
Job(size, addr, n) == [size |-> size, virt |-> PageOf(addr), n |-> n, i |-> 0]
NoJob == Job(None, 0, 0)

MemoryInit ==
    /\ Init /\ H!Init
    /\ job = NoJob /\ hand = None
    /\ stacks = {} /\ lost = {}

Up == ~panicked /\ phase # "panic"
Ready == Up /\ job = NoJob

-----------------------------------------------------------------------------
(* The heap                                                                  *)

kmalloc_init == /\ Ready /\ phase = "boot"
                /\ job' = Job(0, HEAP_START, H!InitPages)
                /\ UNCHANGED <<vars, heap, hand, tasks>>

expand_heap(n) == /\ Ready /\ H!Exhausted(n) /\ H!InBounds(n)
                  /\ job' = Job(n, HEAP_END, H!ExtraPages(n))
                  /\ UNCHANGED <<vars, heap, hand, tasks>>

AllocFresh ==
    /\ Up /\ job # NoJob /\ job.i < job.n /\ hand = None
    /\ IF freePages = {}
       THEN H!OutOfPages /\ UNCHANGED <<hand, freePages>>
       ELSE /\ hand' = FirstFree(freePages)
            /\ freePages' = freePages \ {hand'}
            /\ UNCHANGED heap
    /\ UNCHANGED <<mem, tlb, seen, panicked, job, tasks>>

\* Faulty: every page at the address of the first.
FreshPageFixed == job.virt

\* virt + i * PAGE_SIZE
FreshPage == job.virt + job.i

MapFresh ==
    /\ Up /\ hand # None
    /\ map_page(FreshPage, hand)
    /\ IF panicked' THEN UNCHANGED fresh
       ELSE hand' = None /\ job' = [job EXCEPT !.i = @ + 1]
    /\ UNCHANGED <<heap, tasks>>

\* The pages are mapped: kmalloc_init or expand_heap writes the block header.
Built ==
    /\ Up /\ job # NoJob /\ job.i = job.n
    /\ IF job.size = 0 THEN H!FirstBlock ELSE H!Extend(job.size)
    /\ job' = NoJob
    /\ UNCHANGED <<vars, hand, tasks>>

UseHeap == /\ Ready
           /\ \/ \E n \in Sizes : H!Take(n) \/ H!TooLarge(n)
              \/ \E r \in held : H!kfree(r)
           /\ UNCHANGED <<vars, fresh, tasks>>

-----------------------------------------------------------------------------
(* Tasks and devices                                                         *)

\* The two frames of a stack; with fewer left, new_kernel_task gives back what
\* it got.
new_kernel_task ==
    /\ Ready /\ phase = "up" /\ Cardinality(stacks) < MAX_TASKS
    /\ Cardinality(freePages) >= 2
    /\ LET phys0 == FirstFree(freePages)
           phys1 == FirstFree(freePages \ {phys0}) IN
        /\ stacks' = stacks \cup {<<phys0, phys1>>}
        /\ freePages' = freePages \ {phys0, phys1}
    /\ UNCHANGED <<mem, tlb, seen, panicked, heap, fresh, lost>>

\* stack_base alone is freed.
terminate ==
    /\ Ready
    /\ \E st \in stacks :
        /\ stacks' = stacks \ {st}
        /\ freePages' = freePages \cup {st[1]}
        /\ lost' = lost \cup {st[2]}
    /\ UNCHANGED <<mem, tlb, seen, panicked, heap, fresh>>

\* enable_lapic_pic_mode maps a device's registers; the interface also allows
\* it to move or remove them.
UseDevice ==
    /\ Ready
    /\ \E v \in DevPages : \/ unmap_page(v) \/ Access(v) \/ Evict(v)
                           \/ \E p \in DevPhys : map_page(v, p)
    /\ UNCHANGED <<heap, fresh, tasks>>

MemoryNext == \/ kmalloc_init \/ (\E n \in Sizes : expand_heap(n))
              \/ AllocFresh \/ MapFresh \/ Built \/ UseHeap
              \/ new_kernel_task \/ terminate \/ UseDevice

MemorySpec == MemoryInit /\ [][MemoryNext]_memoryVars

-----------------------------------------------------------------------------
(* Properties                                                                *)

\* Every variable keeps its type (those of Vmm and Heap, and the locals of
\* map_fresh_pages).
MemoryTypeOK ==
    /\ TypeOK /\ H!TypeOK
    /\ job.i \in 0..job.n /\ (job # NoJob => job.virt..(job.virt + job.n - 1) \subseteq HeapPages)
    /\ hand \in 1..NPages \cup {None}
    /\ stacks \subseteq (1..NPages) \X (1..NPages) /\ lost \subseteq 1..NPages

Below(tables) == {mem[e[1]][e[2]] : e \in tables \X Idx} \ ({None} \cup Opaque)

\* The tables of the three upper levels, as the processor reaches them.
UpperTables == LET pdpts == Below({Root}) IN {Root} \cup pdpts \cup Below(pdpts)

Count(b) == IF b THEN 1 ELSE 0

\* The claims on frame f that are not entries of the three upper levels.
Claims(f) ==
    Cardinality({v \in Pages : get_phys_addr(v) = f})
      + Cardinality({st \in stacks : st[1] = f}) + Cardinality({st \in stacks : st[2] = f})
      + Count(f \in freePages) + Count(f = hand) + Count(f \in lost)

\* Nobody shares a frame: each one is free, or a table that one entry of one
\* table names, or one page of the heap, or one page of a stack, and so also
\* after a panic in the middle of map_fresh_pages or of map_page.  The tables
\* form a tree, no frame is lost but the upper ones of terminated tasks.
FrameHasOneUse ==
    LET upper == UpperTables \X Idx IN
    \A f \in 1..NPages :
        Claims(f) + Cardinality({e \in upper : mem[e[1]][e[2]] = f}) = 1

\* The heap's list only describes memory that is there: every page from
\* HEAP_START to HEAP_END is mapped, although map_fresh_pages maps them one by
\* one and expand_heap rounds down, and no page after HEAP_END is mapped but
\* those of an expansion in progress.
HeapIsBacked ==
    phase = "up" => \A v \in HeapPages :
        /\ v * PAGE_SIZE < HEAP_END => get_phys_addr(v) # None
        /\ get_phys_addr(v) # None /\ v * PAGE_SIZE >= HEAP_END => job # NoJob
=============================================================================
