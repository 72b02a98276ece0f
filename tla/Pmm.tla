-------------------------------- MODULE Pmm ---------------------------------
(***************************************************************************)
(* The physical memory manager, src/src/memory/pmm.rs: the bitmap that     *)
(* init_pmm builds from the memory map of the boot loader, alloc_page and  *)
(* free_page.                                                              *)
(*                                                                         *)
(* The boot loader is external.  It reports usable regions that are page   *)
(* aligned, do not overlap, are in ascending order and never contain frame *)
(* 0 (the Limine protocol); a region is thus a maximal run of usable       *)
(* frames.  A byte of the bitmap has BITS bits and a page PAGE_SIZE bytes, *)
(* both scaled down.                                                       *)
(***************************************************************************)
EXTENDS Integers, FiniteSets

CONSTANTS
    NFrames,     \* frames below the highest address of the map
    BITS,        \* bits of a bitmap byte (8)
    PAGE_SIZE,   \* bytes of a page (4096)
    LOW          \* frames below 1 MiB, never handed out

ASSUME PmmAssumption ==
    /\ NFrames \in Nat \ {0} /\ BITS \in Nat \ {0} /\ PAGE_SIZE \in Nat \ {0}
    /\ LOW \in Nat

Frames == 0..(NFrames - 1)

VARIABLES
    usable,        \* the memory map: frames of MEMMAP_USABLE entries
    phase,         \* "boot" before init_pmm, "up" after it, "panic"
    bitmap_first,  \* frame the bitmap starts at, and how many it takes
    bitmap_pages,
    BITMAP,        \* [bit -> BOOLEAN]: TRUE is used
    TOTAL_PAGES, FREE_COUNT, USABLE_PAGE,
    held           \* frames that callers hold (not state of the program)

vars == <<usable, phase, bitmap_first, bitmap_pages, BITMAP, TOTAL_PAGES, FREE_COUNT,
          USABLE_PAGE, held>>

CeilDiv(a, b) == (a + b - 1) \div b

Init ==
    /\ usable \in SUBSET (Frames \ {0})
    /\ phase = "boot"
    /\ bitmap_first = 0 /\ bitmap_pages = 0
    /\ BITMAP = << >>
    /\ TOTAL_PAGES = 0 /\ FREE_COUNT = 0 /\ USABLE_PAGE = 0
    /\ held = {}

-----------------------------------------------------------------------------
(* init_pmm                                                                  *)

BitmapBytes == CeilDiv(NFrames, BITS)

\* The usable regions: maximal runs of usable frames, first to last.
Regions == {r \in Frames \X Frames :
              /\ r[1] <= r[2] /\ r[1]..r[2] \subseteq usable
              /\ r[1] - 1 \notin usable /\ r[2] + 1 \notin usable}

FitsBitmap(r) == (r[2] - r[1] + 1) * PAGE_SIZE >= BitmapBytes

\* The first region that the bitmap fits in.
BitmapRegion(r) == /\ r \in Regions /\ FitsBitmap(r)
                   /\ \A q \in Regions : FitsBitmap(q) => r[1] <= q[1]

\* Faulty: the page count is rounded down.
BitmapPagesDown == BitmapBytes \div PAGE_SIZE

BitmapPages == CeilDiv(BitmapBytes, PAGE_SIZE)

\* Faulty: the bits past the last frame are left zero.
FreedPast(first) ==
    {p \in usable : p >= LOW /\ p \notin first..(first + BitmapPages - 1)}
    \cup NFrames..(BitmapBytes * BITS - 1)

\* What the last loop marks free: usable, not low, not the bitmap's own frames.
Freed(first) == {p \in usable : p >= LOW /\ p \notin first..(first + BitmapPages - 1)}

init_pmm ==
    /\ phase = "boot"
    /\ \E r \in Regions :
        /\ BitmapRegion(r)
        /\ bitmap_first' = r[1] /\ bitmap_pages' = BitmapPages
        /\ TOTAL_PAGES' = NFrames
        /\ BITMAP' = [b \in 0..(BitmapBytes * BITS - 1) |-> b \notin Freed(r[1])]
        /\ FREE_COUNT' = Cardinality(Freed(r[1]))
        /\ USABLE_PAGE' = Cardinality(Freed(r[1]))
    /\ phase' = "up"
    /\ UNCHANGED <<usable, held>>

\* The assertion on bitmap_phys: no usable region is large enough.
InitPanics ==
    /\ phase = "boot"
    /\ \A r \in Regions : ~BitmapRegion(r)
    /\ phase' = "panic"
    /\ UNCHANGED <<usable, bitmap_first, bitmap_pages, BITMAP, TOTAL_PAGES, FREE_COUNT,
                   USABLE_PAGE, held>>

-----------------------------------------------------------------------------
(* alloc_page, free_page                                                     *)

Bytes == 0..(BitmapBytes - 1)
Bit(byte, i) == BITMAP[byte * BITS + i]
Full(byte) == \A i \in 0..(BITS - 1) : Bit(byte, i)

\* The page of the first zero bit: the first byte that is not 0xff, and the
\* number of its trailing ones.
FirstZero(page) ==
    \E byte \in Bytes, i \in 0..(BITS - 1) :
        /\ page = byte * BITS + i
        /\ \A b \in Bytes : b < byte => Full(b)
        /\ ~Bit(byte, i) /\ \A j \in 0..(i - 1) : Bit(byte, j)

\* Faulty: the bit of the next page is set.
set_used_next(page) ==
    BITMAP' = [b \in DOMAIN BITMAP |-> b = page + 1 \/ BITMAP[b]]

set_used(page) == BITMAP' = [BITMAP EXCEPT ![page] = TRUE]
set_free(page) == BITMAP' = [BITMAP EXCEPT ![page] = FALSE]

\* Some(page).  The loop gives up (None) at a zero bit past TOTAL_PAGES.
alloc_page ==
    /\ phase = "up"
    /\ \E page \in DOMAIN BITMAP :
        /\ FirstZero(page)
        /\ page < TOTAL_PAGES
        /\ set_used(page)
        /\ held' = held \cup {page}
    /\ FREE_COUNT' = FREE_COUNT - 1
    /\ UNCHANGED <<usable, phase, bitmap_first, bitmap_pages, TOTAL_PAGES, USABLE_PAGE>>

\* Faulty: the counter is left alone.
free_page_uncounted(page) ==
    /\ phase = "up" /\ page \in held
    /\ set_free(page)
    /\ held' = held \ {page}
    /\ UNCHANGED <<usable, phase, bitmap_first, bitmap_pages, TOTAL_PAGES, FREE_COUNT,
                   USABLE_PAGE>>

\* A caller gives back a frame it holds.  The assertions: within the tracked
\* range, and in use.
free_page(page) ==
    /\ phase = "up" /\ page \in held
    /\ held' = held \ {page}
    /\ IF page < TOTAL_PAGES /\ BITMAP[page]
       THEN /\ set_free(page)
            /\ FREE_COUNT' = FREE_COUNT + 1
            /\ UNCHANGED phase
       ELSE phase' = "panic" /\ UNCHANGED <<BITMAP, FREE_COUNT>>
    /\ UNCHANGED <<usable, bitmap_first, bitmap_pages, TOTAL_PAGES, USABLE_PAGE>>

Next == init_pmm \/ InitPanics \/ alloc_page \/ \E page \in Frames : free_page(page)

Spec == Init /\ [][Next]_vars

-----------------------------------------------------------------------------
(* Properties                                                                *)

FreeFrames == IF phase = "boot" THEN {} ELSE {p \in DOMAIN BITMAP : ~BITMAP[p]}

\* The types of the statics of pmm.rs.
TypeOK ==
    /\ usable \subseteq Frames
    /\ phase \in {"boot", "up", "panic"}
    /\ bitmap_first \in Frames /\ bitmap_pages \in Nat
    /\ phase = "up" => BITMAP \in [0..(BitmapBytes * BITS - 1) -> BOOLEAN]
    /\ TOTAL_PAGES \in Nat /\ FREE_COUNT \in Nat /\ USABLE_PAGE \in Nat
    /\ held \subseteq Frames

\* FREE_COUNT, which the shell reports, is the number of zero bits, and with
\* the frames in use it adds up to USABLE_PAGE: the counters of init_pmm,
\* alloc_page and free_page do not drift from the bitmap.
CountsAgree ==
    /\ FREE_COUNT = Cardinality(FreeFrames)
    /\ USABLE_PAGE = FREE_COUNT + Cardinality(held)

\* The bitmap lives in frames that it must not give away: whatever was handed
\* out or can be is usable memory above 1 MiB, below TOTAL_PAGES and outside
\* the bitmap, every byte of which is in frames of its own.
BitmapIsSafe ==
    phase = "up" =>
      /\ \A p \in FreeFrames \cup held :
            p \in usable /\ p >= LOW /\ p < TOTAL_PAGES
            /\ p \notin bitmap_first..(bitmap_first + (BitmapBytes - 1) \div PAGE_SIZE)
      /\ FitsBitmap(<<bitmap_first, bitmap_first + bitmap_pages - 1>>)

\* alloc_page says None only when no frame is free: the search, which looks at
\* the first zero bit alone and gives up if that is past TOTAL_PAGES, misses none.
NoneMeansExhausted ==
    phase = "up" /\ FreeFrames # {} =>
        \E page \in DOMAIN BITMAP : FirstZero(page) /\ page < TOTAL_PAGES

\* The bitmap implements the allocator its callers count on.
Allocator == INSTANCE PageAllocator
    WITH up <- phase = "up", avail <- FreeFrames

ImplementsAllocator == Allocator!Spec
=============================================================================
