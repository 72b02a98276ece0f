-------------------------------- MODULE Heap --------------------------------
(***************************************************************************)
(* The kernel heap, src/src/memory/heap.rs.  The list of block headers     *)
(* from HEAP_HEAD is a sequence: a block's next pointer is the next        *)
(* element.  addr is the address of the header, the payload follows it.    *)
(* The two magic numbers always say what used says, and are left out.      *)
(*                                                                         *)
(* External: alloc_page and map_page.  Their frames are shared with page   *)
(* tables and task stacks, so that any expansion may find none left.       *)
(***************************************************************************)
EXTENDS Integers, SequencesExt

CONSTANTS
    HEAP_START, HEAP_MAX_SIZE, HEADER_SIZE, ALIGN, PAGE_SIZE,
    InitBytes,   \* argument of kmalloc_init
    Sizes        \* arguments of kmalloc

ASSUME HeapAssumption ==
    /\ HEAP_START \in Nat /\ HEAP_MAX_SIZE \in Nat
    /\ HEADER_SIZE \in Nat \ {0} /\ ALIGN \in Nat \ {0}
    /\ PAGE_SIZE \in Nat \ {0}
    /\ InitBytes \in Nat /\ InitBytes > HEADER_SIZE + ALIGN   \* asserted
    /\ Sizes \subseteq Nat \ {0}                              \* asserted

VARIABLES
    phase,     \* "boot" before kmalloc_init, "up" after it, "panic"
    blocks,    \* the list from HEAP_HEAD
    HEAP_END,
    retry,     \* size of the kmalloc that expanded the heap and starts over, or 0
    held       \* what callers hold, [ptr, len] (not state of the program)

vars == <<phase, blocks, HEAP_END, retry, held>>

Block(addr, size, used) == [addr |-> addr, size |-> size, used |-> used]

Init ==
    /\ phase = "boot"
    /\ blocks = << >> /\ HEAP_END = HEAP_START
    /\ retry = 0
    /\ held = {}

RoundUp(n, unit) == ((n + unit - 1) \div unit) * unit
align_up(n) == RoundUp(n, ALIGN)

\* alloc_page() = None in map_fresh_pages: .expect() panics.
OutOfPages == phase' = "panic" /\ UNCHANGED <<blocks, HEAP_END, retry, held>>

InitPages == RoundUp(InitBytes, PAGE_SIZE) \div PAGE_SIZE

\* The first block takes all of the pages.
FirstBlock ==
    /\ phase = "boot"
    /\ blocks' = <<Block(HEAP_START, InitPages * PAGE_SIZE - HEADER_SIZE, FALSE)>>
    /\ HEAP_END' = HEAP_START + InitPages * PAGE_SIZE
    /\ phase' = "up"
    /\ UNCHANGED <<retry, held>>

kmalloc_init == FirstBlock \/ (phase = "boot" /\ OutOfPages)

-----------------------------------------------------------------------------
(* kmalloc                                                                   *)

Fits(b, n) == ~b.used /\ b.size >= align_up(n)

\* The first block of the list that is free and large enough.
FirstFit(i, n) == /\ Fits(blocks[i], n)
                  /\ \A j \in 1..(i - 1) : ~Fits(blocks[j], n)

\* Faulty: the header of the remainder is forgotten.
SplitsTight(b, n) == b.size > align_up(n)

Splits(b, n) == b.size > align_up(n) + HEADER_SIZE + ALIGN

\* Block i is cut after the bytes needed, the rest becomes a free block.
SplitAt(i, n) ==
    LET b == blocks[i]  needed == align_up(n) IN
    InsertAt([blocks EXCEPT ![i] = Block(b.addr, needed, TRUE)], i + 1,
             Block(b.addr + HEADER_SIZE + needed, b.size - needed - HEADER_SIZE, FALSE))

Take(n) ==
    /\ phase = "up" /\ retry \in {0, n}
    /\ \E i \in DOMAIN blocks :
        /\ FirstFit(i, n)
        /\ blocks' = IF Splits(blocks[i], n) THEN SplitAt(i, n)
                     ELSE [blocks EXCEPT ![i].used = TRUE]
        /\ held' = held \cup {[ptr |-> blocks[i].addr + HEADER_SIZE, len |-> n]}
    /\ retry' = 0
    /\ UNCHANGED <<phase, HEAP_END>>

\* Faulty: the header of the new block is forgotten.
ExtraBytesTight(n) == align_up(align_up(n) + PAGE_SIZE)

ExtraBytes(n) == align_up(align_up(n) + HEADER_SIZE + PAGE_SIZE)

\* The page count is rounded down.
ExtraPages(n) == ExtraBytes(n) \div PAGE_SIZE

\* No block fits: kmalloc calls expand_heap(needed).
Exhausted(n) == /\ phase = "up" /\ retry \in {0, n}
                /\ \A i \in DOMAIN blocks : ~Fits(blocks[i], n)

InBounds(n) == HEAP_END + ExtraBytes(n) - HEAP_START <= HEAP_MAX_SIZE

\* The pages mapped at HEAP_END become the last block; they are not merged with
\* a free block that ends there.  Then kmalloc(size) starts over.
Extend(n) ==
    /\ Exhausted(n) /\ InBounds(n)
    /\ LET size == ExtraPages(n) * PAGE_SIZE IN
        /\ blocks' = Append(blocks, Block(HEAP_END, size - HEADER_SIZE, FALSE))
        /\ HEAP_END' = HEAP_END + size
    /\ retry' = n
    /\ UNCHANGED <<phase, held>>

\* The assertion on HEAP_MAX_SIZE.
TooLarge(n) == /\ Exhausted(n) /\ ~InBounds(n)
               /\ phase' = "panic"
               /\ UNCHANGED <<blocks, HEAP_END, retry, held>>

expand_heap(n) ==
    Extend(n) \/ TooLarge(n) \/ (Exhausted(n) /\ InBounds(n) /\ OutOfPages)

kmalloc(n) == Take(n) \/ expand_heap(n)

-----------------------------------------------------------------------------
(* kfree                                                                     *)

\* Faulty: the header of the absorbed block is lost.
CoalescedShort(list, i) ==
    IF i < Len(list) /\ ~list[i + 1].used
    THEN RemoveAt([list EXCEPT ![i].size = @ + list[i + 1].size], i + 1)
    ELSE list

\* Faulty: whether or not that is free.
CoalescedUsed(list, i) ==
    IF i < Len(list)
    THEN RemoveAt([list EXCEPT ![i].size = @ + HEADER_SIZE + list[i + 1].size], i + 1)
    ELSE list

\* Block i absorbs the next block of the list if that is free.
coalesce(list, i) ==
    IF i < Len(list) /\ ~list[i + 1].used
    THEN RemoveAt([list EXCEPT ![i].size = @ + HEADER_SIZE + list[i + 1].size], i + 1)
    ELSE list

\* Faulty: used is left set.
kfree_used(r) ==
    /\ phase = "up" /\ retry = 0 /\ r \in held
    /\ \E i \in DOMAIN blocks :
        /\ blocks[i].addr + HEADER_SIZE = r.ptr
        /\ blocks' = coalesce(blocks, i)
    /\ held' = held \ {r}
    /\ UNCHANGED <<phase, HEAP_END, retry>>

\* A caller gives back a pointer it holds.  The assertion on the magic number
\* of the header before it.
kfree(r) ==
    /\ phase = "up" /\ retry = 0 /\ r \in held
    /\ held' = held \ {r}
    /\ IF \E i \in DOMAIN blocks : blocks[i].addr + HEADER_SIZE = r.ptr /\ blocks[i].used
       THEN /\ \E i \in DOMAIN blocks :
                /\ blocks[i].addr + HEADER_SIZE = r.ptr
                /\ blocks' = coalesce([blocks EXCEPT ![i].used = FALSE], i)
            /\ UNCHANGED phase
       ELSE phase' = "panic" /\ UNCHANGED blocks
    /\ UNCHANGED <<HEAP_END, retry>>

Next == \/ kmalloc_init
        \/ \E n \in Sizes : kmalloc(n)
        \/ \E r \in held : kfree(r)

Spec == Init /\ [][Next]_vars

-----------------------------------------------------------------------------
(* Properties                                                                *)

\* Every variable keeps its type (BlockHeader and the statics of heap.rs).
TypeOK ==
    /\ phase \in {"boot", "up", "panic"}
    /\ blocks \in Seq([addr : Nat, size : Nat \ {0}, used : BOOLEAN])
    /\ HEAP_END \in Nat
    /\ retry \in Sizes \cup {0}
    /\ held \subseteq [ptr : Nat, len : Sizes]

End(b) == b.addr + HEADER_SIZE + b.size

\* The list is in address order and its blocks, headers included, tile the
\* mapped memory from HEAP_START to HEAP_END: no gap is lost by a split, a
\* merge or an expansion, and no two blocks overlap.
Tiling ==
    /\ \A i \in DOMAIN blocks :
        blocks[i].addr = IF i = 1 THEN HEAP_START ELSE End(blocks[i - 1])
    /\ blocks # << >> => End(blocks[Len(blocks)]) = HEAP_END
    /\ HEAP_END % PAGE_SIZE = HEAP_START % PAGE_SIZE

\* Nothing leaks and nothing is given away twice: the used blocks are exactly
\* those whose payload a caller holds, each holds the bytes asked for and
\* wastes less than a block that could have been split off.
UsedIsHeld ==
    phase = "up" =>
      /\ \A r \in held : \E i \in DOMAIN blocks :
            /\ blocks[i].used /\ blocks[i].addr + HEADER_SIZE = r.ptr
            /\ r.len <= blocks[i].size
            /\ blocks[i].size <= align_up(r.len) + HEADER_SIZE + ALIGN
      /\ \A i \in DOMAIN blocks : blocks[i].used =>
            \E r \in held : blocks[i].addr + HEADER_SIZE = r.ptr

\* The recursion of kmalloc is at most one call deep: expand_heap rounds its
\* page count down, and what it adds is still enough.
RetryFinds == phase = "up" /\ retry # 0 => \E i \in DOMAIN blocks : Fits(blocks[i], retry)

\* The comment in the memtest command: after two adjacent blocks were freed,
\* one allocation of both sizes fits in the merged hole.
AdjacentHolesMerge ==
    \A i \in 1..(Len(blocks) - 1) : ~blocks[i].used => blocks[i + 1].used

\* The list implements the allocator its callers count on.
Allocator == INSTANCE BlockAllocator WITH bounds <- <<HEAP_START, HEAP_END>>

ImplementsAllocator == Allocator!Spec
=============================================================================
