----------------------------- MODULE PmmProofs ------------------------------
(***************************************************************************)
(* The physical memory manager, for every memory map and every width of a  *)
(* bitmap byte and size of a page: the bitmap never gives away a frame     *)
(* that it may not, its counters agree with it, alloc_page misses no free  *)
(* frame, and free_page's assertions hold.                                 *)
(***************************************************************************)
EXTENDS Pmm, FiniteSetTheorems, Arithmetic

-----------------------------------------------------------------------------
(* Arithmetic of the bitmap                                                  *)

\* A bit of an earlier byte has a smaller number.
LEMMA EarlierByte ==
    ASSUME NEW x \in Nat, NEW y \in Nat, x < y, NEW j \in 0..(BITS - 1)
    PROVE  x * BITS + j \in Nat /\ x * BITS + j < y * BITS
<1>1. BITS \in Nat
  BY PmmAssumption
<1>2. (x + 1) * BITS <= y * BITS
  <2>1. \E d \in Nat : y = x + 1 + d
    <3>1. y - x - 1 \in Nat /\ y = x + 1 + (y - x - 1)
      OBVIOUS
    <3> QED
      BY <3>1
  <2>2. PICK d \in Nat : y = x + 1 + d
    BY <2>1
  <2>3. y * BITS = (x + 1) * BITS + d * BITS /\ d * BITS \in Nat /\ (x + 1) * BITS \in Nat
    BY <1>1, <2>2
  <2> QED
    BY <2>3
<1>3. (x + 1) * BITS = x * BITS + BITS /\ x * BITS \in Nat
  BY <1>1
<1> QED
  BY <1>1, <1>2, <1>3

Bits == 0..(BitmapBytes * BITS - 1)

\* The bitmap has a bit for every frame, and its pages have room for it.
LEMMA BitmapSize ==
    /\ BitmapBytes \in Nat \ {0} /\ BitmapPages \in Nat \ {0}
    /\ BitmapBytes * BITS \in Nat /\ Frames \subseteq Bits
    /\ BitmapPages * PAGE_SIZE >= BitmapBytes
    /\ (BitmapBytes - 1) \div PAGE_SIZE = BitmapPages - 1
<1>1. NFrames \in Nat \ {0} /\ BITS \in Nat \ {0} /\ PAGE_SIZE \in Nat \ {0}
  BY PmmAssumption
<1>2. BitmapBytes \in Nat /\ BitmapBytes * BITS >= NFrames
  BY <1>1, RoundsUp DEF BitmapBytes, CeilDiv
<1>3. BitmapBytes # 0 /\ BitmapBytes * BITS \in Nat
  BY <1>1, <1>2
<1>4. Frames \subseteq Bits
  BY <1>1, <1>2, <1>3 DEF Frames, Bits
<1>5. BitmapPages \in Nat /\ BitmapPages * PAGE_SIZE >= BitmapBytes
  BY <1>1, <1>2, RoundsUp DEF BitmapPages, CeilDiv
<1>6. BitmapPages # 0
  BY <1>1, <1>2, <1>3, <1>5
<1>7. (BitmapBytes - 1) \div PAGE_SIZE = BitmapPages - 1
  <2> DEFINE x == BitmapBytes - 1
  <2>1. x \in Nat /\ BitmapBytes + PAGE_SIZE - 1 = x + PAGE_SIZE
    BY <1>1, <1>2, <1>3
  <2> HIDE DEF x
  <2>2. (x + PAGE_SIZE) \div PAGE_SIZE = (x \div PAGE_SIZE) + 1 /\ x \div PAGE_SIZE \in Nat
    BY <1>1, <2>1, RoundDown
  <2>3. BitmapPages = (x \div PAGE_SIZE) + 1
    BY <2>1, <2>2 DEF BitmapPages, CeilDiv
  <2> QED
    BY <2>2, <2>3 DEF x
<1> QED
  BY <1>2, <1>3, <1>4, <1>5, <1>6, <1>7

-----------------------------------------------------------------------------
(* The search                                                                *)

\* The first zero bit is the smallest free frame, so that the search finds one
\* whenever a bit is zero.
LEMMA FindsFirst ==
    ASSUME BITMAP \in [Bits -> BOOLEAN], NEW q \in Bits, ~ BITMAP[q]
    PROVE  \E m \in Bits : FirstZero(m) /\ ~ BITMAP[m] /\ m <= q
<1> DEFINE Z == {p \in Bits : ~ BITMAP[p]}
<1>1. BITS \in Nat \ {0} /\ BitmapBytes \in Nat
  BY PmmAssumption, BitmapSize
<1>2. Z \in SUBSET Nat /\ Z # {}
  BY <1>1 DEF Bits
<1>3. PICK m \in Z : \A x \in Z : m <= x
  BY <1>2, Least
<1>4. m \in Bits /\ m \in Nat /\ ~ BITMAP[m] /\ m < BitmapBytes * BITS
  BY <1>1, <1>3, BitmapSize DEF Bits
<1>5. \A x \in Bits : x < m => BITMAP[x]
  <2> SUFFICES ASSUME NEW x \in Bits, x < m, ~ BITMAP[x] PROVE FALSE
    OBVIOUS
  <2>1. x \in Z
    OBVIOUS
  <2>2. m <= x /\ x \in Nat
    BY <1>1, <1>3, <2>1 DEF Bits
  <2> QED
    BY <1>4, <2>2
<1>6. PICK byte \in Nat, i \in 0..(BITS - 1) : m = byte * BITS + i /\ byte < BitmapBytes
  <2> DEFINE b == m \div BITS
  <2>1. b \in Nat /\ m - b * BITS \in 0..(BITS - 1)
    BY <1>1, <1>4, RoundDown
  <2>2. b < BitmapBytes
    BY <1>1, <1>4, DivLess
  <2> HIDE DEF b
  <2>3. b * BITS \in Nat /\ m = b * BITS + (m - b * BITS)
    BY <1>1, <1>4, <2>1
  <2> QED
    BY <2>1, <2>2, <2>3
<1>7. byte \in Bytes
  BY <1>1, <1>6 DEF Bytes
<1>8. ~ Bit(byte, i)
  BY <1>4, <1>6 DEF Bit
<1>9. ASSUME NEW j \in 0..(i - 1) PROVE Bit(byte, j)
  <2>1. byte * BITS \in Nat /\ byte * BITS + j < m /\ byte * BITS + j \in Nat
    BY <1>1, <1>6
  <2>2. byte * BITS + j \in Bits
    BY <1>1, <1>4, <2>1, BitmapSize DEF Bits
  <2> QED
    BY <1>5, <2>1, <2>2 DEF Bit
<1>10. ASSUME NEW b \in Bytes, b < byte PROVE Full(b)
  <2> SUFFICES ASSUME NEW j \in 0..(BITS - 1) PROVE Bit(b, j)
    BY DEF Full
  <2>1. b \in Nat
    BY <1>1 DEF Bytes
  <2>2. b * BITS + j \in Nat /\ b * BITS + j < byte * BITS
    BY <1>6, <1>10, <2>1, EarlierByte
  <2>3. byte * BITS \in Nat /\ byte * BITS <= m
    BY <1>1, <1>6
  <2>4. b * BITS + j < m
    BY <1>4, <2>2, <2>3
  <2>5. b * BITS + j \in Bits
    BY <1>1, <1>4, <2>2, <2>4, BitmapSize DEF Bits
  <2> QED
    BY <1>5, <2>4, <2>5 DEF Bit
<1>11. FirstZero(m)
  BY <1>6, <1>7, <1>8, <1>9, <1>10 DEF FirstZero
<1>12. m <= q
  BY <1>3
<1> QED
  BY <1>4, <1>11, <1>12

-----------------------------------------------------------------------------
(* The invariant                                                             *)

\* What TypeOK says of the variables but for FREE_COUNT and USABLE_PAGE, whose
\* values the counters' invariant gives.
Typed ==
    /\ usable \subseteq Frames /\ phase \in {"boot", "up", "panic"}
    /\ bitmap_first \in Frames /\ bitmap_pages \in Nat
    /\ TOTAL_PAGES \in Nat /\ held \subseteq Frames

\* Before init_pmm, and when it panics, nothing is there and nothing is held.
NotUp == phase # "up" => BITMAP = << >> /\ held = {}

\* Once it is up, each frame that the boot freed is free or held, never both,
\* and no other frame ever is.
Partition ==
    phase = "up" =>
      /\ BITMAP \in [Bits -> BOOLEAN]
      /\ TOTAL_PAGES = NFrames /\ bitmap_pages = BitmapPages
      /\ FreeFrames \cup held = Freed(bitmap_first)
      /\ FreeFrames \cap held = {}

\* The bitmap itself is in usable memory, not over the kernel or a device.
BitmapIsUsable == phase = "up" => bitmap_first..(bitmap_first + bitmap_pages - 1) \subseteq usable

IInv == Typed /\ NotUp /\ Partition /\ BitmapIsUsable /\ CountsAgree

\* Sets of frames are finite.
LEMMA FramesFinite ==
    ASSUME NEW S \in SUBSET Frames
    PROVE  IsFiniteSet(S) /\ Cardinality(S) \in Nat
<1>1. IsFiniteSet(Frames)
  BY PmmAssumption, FS_Interval DEF Frames
<1> QED
  BY <1>1, FS_Subset, FS_CardinalityType

\* The free frames are those of the bitmap, and none when it is not there.
LEMMA FreeFramesIs ==
    ASSUME IInv
    PROVE  /\ phase = "up" => FreeFrames = {p \in Bits : ~ BITMAP[p]}
           /\ phase # "up" => FreeFrames = {}
           /\ FreeFrames \subseteq Frames
<1>1. phase = "up" => FreeFrames = {p \in Bits : ~ BITMAP[p]}
  BY DEF IInv, Partition, FreeFrames
<1>2. ASSUME phase # "up" PROVE FreeFrames = {}
  <2>1. BITMAP = << >>
    BY <1>2 DEF IInv, NotUp
  <2>2. DOMAIN BITMAP = {}
    BY <2>1
  <2> QED
    BY <2>2 DEF FreeFrames
<1>3. Freed(bitmap_first) \subseteq Frames
  BY DEF IInv, Typed, Freed
<1> QED
  BY <1>1, <1>2, <1>3 DEF IInv, Typed, Partition

\* At first.
LEMMA InitIInv == Init => IInv
<1> SUFFICES ASSUME Init PROVE IInv
  OBVIOUS
<1>1. 0 \in Frames
  BY PmmAssumption DEF Frames
<1>2. Typed
  BY <1>1 DEF Init, Typed
<1>3. FreeFrames = {}
  BY DEF Init, FreeFrames
<1>4. CountsAgree
  BY <1>3, FS_EmptySet DEF Init, CountsAgree
<1> QED
  BY <1>2, <1>4 DEF Init, IInv, NotUp, Partition, BitmapIsUsable

\* A region that the bitmap fits in has room for all its pages.
LEMMA RegionHoldsBitmap ==
    ASSUME NEW r \in Regions, FitsBitmap(r)
    PROVE  r[1]..(r[1] + BitmapPages - 1) \subseteq usable
<1>1. r[1] \in Nat /\ r[2] \in Nat /\ r[1] <= r[2] /\ r[1]..r[2] \subseteq usable
  BY PmmAssumption DEF Regions, Frames
<1> DEFINE len == r[2] - r[1] + 1
<1>2. len \in Nat /\ r[2] = r[1] + len - 1
  BY <1>1
<1>3. len * PAGE_SIZE >= BitmapBytes
  BY DEF FitsBitmap
<1> HIDE DEF len
<1>4. BitmapBytes - 1 \in Nat /\ PAGE_SIZE \in Nat \ {0} /\ len * PAGE_SIZE \in Nat
  BY <1>2, PmmAssumption, BitmapSize
<1>5. BitmapBytes - 1 < len * PAGE_SIZE
  BY <1>3, <1>4, BitmapSize
<1>6. (BitmapBytes - 1) \div PAGE_SIZE < len
  BY <1>2, <1>4, <1>5, DivLess
<1>7. BitmapPages <= len /\ BitmapPages \in Nat
  BY <1>2, <1>6, BitmapSize
<1> QED
  BY <1>1, <1>2, <1>7

\* The bitmap that init_pmm builds.
LEMMA InitPmm ==
    ASSUME IInv, init_pmm
    PROVE  /\ IInv'
           /\ FreeFrames' = Freed(bitmap_first')
<1>1. PICK r \in Regions :
         /\ BitmapRegion(r)
         /\ bitmap_first' = r[1] /\ bitmap_pages' = BitmapPages
         /\ TOTAL_PAGES' = NFrames
         /\ BITMAP' = [b \in 0..(BitmapBytes * BITS - 1) |-> b \notin Freed(r[1])]
         /\ FREE_COUNT' = Cardinality(Freed(r[1]))
         /\ USABLE_PAGE' = Cardinality(Freed(r[1]))
  BY DEF init_pmm
<1>2. phase = "boot" /\ phase' = "up" /\ usable' = usable /\ held' = held
  BY DEF init_pmm
<1>3. held = {} /\ usable \subseteq Frames
  BY <1>2 DEF IInv, NotUp, Typed
<1>4. r[1] \in Frames
  BY DEF Regions
<1> DEFINE F == Freed(r[1])
<1>5. F \subseteq Frames
  BY <1>3 DEF Freed
<1>6. Freed(bitmap_first)' = F
  BY <1>1, <1>2 DEF Freed
<1> HIDE DEF F
<1>7. BITMAP' = [b \in Bits |-> b \notin F]
  BY <1>1 DEF F, Bits
<1>8. FreeFrames' = F
  <2>1. DOMAIN BITMAP' = Bits /\ \A b \in Bits : BITMAP'[b] = (b \notin F)
    BY <1>7
  <2>2. FreeFrames' = {p \in Bits : ~ BITMAP'[p]}
    BY <1>2, <2>1 DEF FreeFrames
  <2> QED
    BY <1>5, <2>1, <2>2, BitmapSize
<1>9. Typed'
  BY <1>1, <1>2, <1>3, <1>4, PmmAssumption, BitmapSize DEF Typed
<1>10. BITMAP' \in [Bits -> BOOLEAN]
  BY <1>7
<1>11. Partition'
  BY <1>1, <1>2, <1>3, <1>6, <1>8, <1>10 DEF Partition
<1>12. CountsAgree'
  <2>1. FREE_COUNT' = Cardinality(F) /\ USABLE_PAGE' = Cardinality(F)
    BY <1>1 DEF F
  <2>2. Cardinality(F) \in Nat
    BY <1>5, FramesFinite
  <2>3. Cardinality(held') = 0
    BY <1>2, <1>3, FS_EmptySet
  <2> QED
    BY <1>8, <2>1, <2>2, <2>3 DEF CountsAgree
<1>13. NotUp'
  BY <1>2 DEF NotUp
<1>14. bitmap_first' = r[1]
  BY <1>1
<1>15. FreeFrames' = Freed(bitmap_first')
  BY <1>1, <1>2, <1>6, <1>8 DEF Freed
<1>16. BitmapIsUsable'
  <2>1. r[1]..(r[1] + BitmapPages - 1) \subseteq usable
    BY <1>1, RegionHoldsBitmap DEF BitmapRegion
  <2> QED
    BY <1>1, <1>2, <2>1 DEF BitmapIsUsable
<1> QED
  BY <1>9, <1>11, <1>12, <1>13, <1>15, <1>16 DEF IInv

\* alloc_page takes a free frame.
LEMMA AllocPage ==
    ASSUME IInv, alloc_page
    PROVE  /\ IInv'
           /\ \E p \in FreeFrames : FreeFrames' = FreeFrames \ {p} /\ held' = held \cup {p}
<1>1. PICK page \in DOMAIN BITMAP : FirstZero(page) /\ set_used(page) /\ held' = held \cup {page}
  BY DEF alloc_page
<1>2. /\ phase = "up" /\ FREE_COUNT' = FREE_COUNT - 1
      /\ UNCHANGED <<usable, phase, bitmap_first, bitmap_pages, TOTAL_PAGES, USABLE_PAGE>>
  BY DEF alloc_page
<1>3. BITMAP \in [Bits -> BOOLEAN] /\ page \in Bits
  BY <1>1, <1>2 DEF IInv, Partition
<1>4. ~ BITMAP[page]
  BY <1>1 DEF FirstZero, Bit
<1>5. FreeFrames = {p \in Bits : ~ BITMAP[p]} /\ FreeFrames \subseteq Frames
  BY <1>2, FreeFramesIs
<1>6. page \in FreeFrames /\ page \in Frames
  BY <1>3, <1>4, <1>5
<1>7. BITMAP' \in [Bits -> BOOLEAN] /\ \A p \in Bits : BITMAP'[p] = (p = page \/ BITMAP[p])
  BY <1>1, <1>3 DEF set_used
<1>8. FreeFrames' = FreeFrames \ {page}
  <2>1. FreeFrames' = {p \in Bits : ~ BITMAP'[p]}
    BY <1>2, <1>7 DEF FreeFrames
  <2> QED
    BY <1>5, <1>7, <2>1
<1>9. Typed' /\ NotUp'
  BY <1>1, <1>2, <1>6 DEF IInv, Typed, NotUp
<1>10. Freed(bitmap_first)' = Freed(bitmap_first)
  BY <1>2 DEF Freed
<1>11. Partition'
  BY <1>1, <1>2, <1>6, <1>7, <1>8, <1>10 DEF IInv, Partition
<1>12. page \notin held
  BY <1>2, <1>6 DEF IInv, Partition
<1>13. CountsAgree'
  <2>1. IsFiniteSet(FreeFrames) /\ IsFiniteSet(held) /\ Cardinality(FreeFrames) \in Nat /\ Cardinality(held) \in Nat
    BY <1>5, FramesFinite DEF IInv, Typed
  <2>2. Cardinality(FreeFrames') = Cardinality(FreeFrames) - 1
    BY <1>6, <1>8, <2>1, FS_RemoveElement
  <2>3. Cardinality(held') = Cardinality(held) + 1
    BY <1>1, <1>12, <2>1, FS_AddElement
  <2> QED
    BY <1>2, <2>1, <2>2, <2>3 DEF IInv, CountsAgree
<1>14. BitmapIsUsable'
  BY <1>2 DEF IInv, BitmapIsUsable
<1> QED
  BY <1>1, <1>6, <1>8, <1>9, <1>11, <1>13, <1>14 DEF IInv

\* free_page gives a held frame back; its assertions hold.
LEMMA FreePage ==
    ASSUME IInv, NEW page \in Frames, free_page(page)
    PROVE  /\ IInv' /\ page \in held /\ phase' = phase
           /\ FreeFrames' = FreeFrames \cup {page} /\ held' = held \ {page}
<1>1. /\ phase = "up" /\ page \in held /\ held' = held \ {page}
      /\ UNCHANGED <<usable, bitmap_first, bitmap_pages, TOTAL_PAGES, USABLE_PAGE>>
  BY DEF free_page
<1>2. BITMAP \in [Bits -> BOOLEAN] /\ page \in Bits /\ TOTAL_PAGES = NFrames
  BY <1>1, BitmapSize DEF IInv, Partition
<1>3. FreeFrames = {p \in Bits : ~ BITMAP[p]} /\ FreeFrames \subseteq Frames
  BY <1>1, FreeFramesIs
<1>4. page \notin FreeFrames
  BY <1>1 DEF IInv, Partition
<1>5. BITMAP[page] /\ page < TOTAL_PAGES
  BY <1>2, <1>3, <1>4, PmmAssumption DEF Frames
<1>6. set_free(page) /\ FREE_COUNT' = FREE_COUNT + 1 /\ phase' = phase
  BY <1>5 DEF free_page
<1>7. BITMAP' \in [Bits -> BOOLEAN] /\ \A p \in Bits : BITMAP'[p] = (p # page /\ BITMAP[p])
  BY <1>2, <1>6 DEF set_free
<1>8. FreeFrames' = FreeFrames \cup {page}
  <2>1. FreeFrames' = {p \in Bits : ~ BITMAP'[p]}
    BY <1>1, <1>6, <1>7 DEF FreeFrames
  <2> QED
    BY <1>2, <1>3, <1>7, <2>1
<1>9. Typed' /\ NotUp'
  BY <1>1, <1>6 DEF IInv, Typed, NotUp
<1>10. Freed(bitmap_first)' = Freed(bitmap_first)
  BY <1>1 DEF Freed
<1>11. Partition'
  BY <1>1, <1>6, <1>7, <1>8, <1>10 DEF IInv, Partition
<1>12. CountsAgree'
  <2>1. IsFiniteSet(FreeFrames) /\ IsFiniteSet(held) /\ Cardinality(FreeFrames) \in Nat /\ Cardinality(held) \in Nat
    BY <1>3, FramesFinite DEF IInv, Typed
  <2>2. Cardinality(FreeFrames') = Cardinality(FreeFrames) + 1
    BY <1>4, <1>8, <2>1, FS_AddElement
  <2>3. Cardinality(held') = Cardinality(held) - 1
    BY <1>1, <2>1, FS_RemoveElement
  <2> QED
    BY <1>1, <1>6, <2>1, <2>2, <2>3 DEF IInv, CountsAgree
<1>13. BitmapIsUsable'
  BY <1>1, <1>6 DEF IInv, BitmapIsUsable
<1> QED
  BY <1>1, <1>6, <1>8, <1>9, <1>11, <1>12, <1>13 DEF IInv

\* When no region has room for the bitmap.
LEMMA Panics == ASSUME IInv, InitPanics PROVE IInv' /\ FreeFrames' = {} /\ FreeFrames = {}
<1>1. /\ phase = "boot" /\ phase' = "panic"
      /\ UNCHANGED <<usable, bitmap_first, bitmap_pages, BITMAP, TOTAL_PAGES, FREE_COUNT, USABLE_PAGE, held>>
  BY DEF InitPanics
<1>2. Typed' /\ NotUp' /\ Partition' /\ BitmapIsUsable'
  BY <1>1 DEF IInv, Typed, NotUp, Partition, BitmapIsUsable
<1>3. FreeFrames = {}
  BY <1>1 DEF FreeFrames
<1>4. FreeFrames' = {}
  <2>1. BITMAP' = << >>
    BY <1>1 DEF IInv, NotUp
  <2>2. DOMAIN BITMAP' = {}
    BY <2>1
  <2> QED
    BY <1>1, <2>2 DEF FreeFrames
<1>5. CountsAgree'
  BY <1>1, <1>3, <1>4 DEF IInv, CountsAgree
<1> QED
  BY <1>2, <1>3, <1>4, <1>5 DEF IInv

\* A stutter changes nothing.
LEMMA Stutter == ASSUME IInv, UNCHANGED vars PROVE IInv' /\ FreeFrames' = FreeFrames
  BY DEF vars, IInv, Typed, NotUp, Partition, BitmapIsUsable, CountsAgree, FreeFrames, Freed

\* Every step keeps the invariant.
LEMMA NextIInv == IInv /\ [Next]_vars => IInv'
<1> SUFFICES ASSUME IInv, [Next]_vars PROVE IInv'
  OBVIOUS
<1>1. CASE init_pmm
  BY <1>1, InitPmm
<1>2. CASE InitPanics
  BY <1>2, Panics
<1>3. CASE alloc_page
  BY <1>3, AllocPage
<1>4. CASE \E page \in Frames : free_page(page)
  BY <1>4, FreePage
<1>5. CASE UNCHANGED vars
  BY <1>5, Stutter
<1> QED
  BY <1>1, <1>2, <1>3, <1>4, <1>5 DEF Next

-----------------------------------------------------------------------------
(* The theorems                                                              *)

\* Each frame that init_pmm freed is free or held and never both; the counters
\* are the sizes of the two sets.
THEOREM PmmInvariance == Spec => []IInv
  BY InitIInv, NextIInv, PTL DEF Spec

\* init_pmm puts the bitmap wholly into the region it found.
THEOREM BitmapInUsableMemory == Spec => []BitmapIsUsable
  BY PmmInvariance, PTL DEF IInv

\* The assertions of free_page: within the tracked range, and in use.
FreeSucceeds == [][\A page \in Frames : free_page(page) => phase' = phase]_vars

\* The assertions of free_page never fail on a frame that the caller holds.
THEOREM FreePageNeverPanics == Spec => FreeSucceeds
<1>1. IInv => \A page \in Frames : free_page(page) => phase' = phase
  BY FreePage
<1> QED
  BY <1>1, PmmInvariance, PTL DEF FreeSucceeds

\* The statics of pmm.rs keep their types.
THEOREM PmmTypes == Spec => []TypeOK
<1>1. IInv => TypeOK
  <2> SUFFICES ASSUME IInv PROVE TypeOK
    OBVIOUS
  <2>1. Cardinality(FreeFrames) \in Nat /\ Cardinality(held) \in Nat
    BY FreeFramesIs, FramesFinite DEF IInv, Typed
  <2>2. FREE_COUNT \in Nat /\ USABLE_PAGE \in Nat
    BY <2>1 DEF IInv, CountsAgree
  <2> QED
    BY <2>2 DEF IInv, Typed, Partition, Bits, TypeOK
<1> QED
  BY <1>1, PmmInvariance, PTL

\* FREE_COUNT and USABLE_PAGE do not drift from the bitmap, through any
\* sequence of alloc_page and free_page.
THEOREM CountersMatchBitmap == Spec => []CountsAgree
  BY PmmInvariance, PTL DEF IInv

\* alloc_page never hands out an unusable frame, one below 1 MiB, one past the
\* last, or one that the bitmap itself lives in.
THEOREM BitmapNeverGivenAway == Spec => []BitmapIsSafe
<1>1. IInv => BitmapIsSafe
  <2> SUFFICES ASSUME IInv, phase = "up" PROVE BitmapIsSafe
    BY DEF BitmapIsSafe
  <2>1. FreeFrames \cup held = Freed(bitmap_first) /\ TOTAL_PAGES = NFrames /\ bitmap_pages = BitmapPages
    BY DEF IInv, Partition
  <2>2. bitmap_first \in Nat /\ NFrames \in Nat /\ PAGE_SIZE \in Nat
    BY PmmAssumption DEF IInv, Typed, Frames
  <2>3. (BitmapBytes - 1) \div PAGE_SIZE = BitmapPages - 1 /\ BitmapPages \in Nat
    BY BitmapSize
  <2>4. bitmap_first + (BitmapBytes - 1) \div PAGE_SIZE = bitmap_first + BitmapPages - 1
    BY <2>2, <2>3
  <2>5. ASSUME NEW p \in FreeFrames \cup held
        PROVE  p \in usable /\ p >= LOW /\ p < TOTAL_PAGES
               /\ p \notin bitmap_first..(bitmap_first + (BitmapBytes - 1) \div PAGE_SIZE)
    <3>1. p \in usable /\ p >= LOW /\ p \notin bitmap_first..(bitmap_first + BitmapPages - 1)
      BY <2>1, <2>5 DEF Freed
    <3>2. p < TOTAL_PAGES
      BY <2>1, <2>2, <3>1 DEF IInv, Typed, Frames
    <3> QED
      BY <2>4, <3>1, <3>2
  <2>6. FitsBitmap(<<bitmap_first, bitmap_first + bitmap_pages - 1>>)
    <3>1. BitmapPages * PAGE_SIZE >= BitmapBytes
      BY BitmapSize
    <3> DEFINE r == <<bitmap_first, bitmap_first + bitmap_pages - 1>>
    <3>2. r[1] = bitmap_first /\ r[2] = bitmap_first + BitmapPages - 1
      BY <2>1
    <3> HIDE DEF r
    <3>3. r[2] - r[1] + 1 = BitmapPages
      BY <2>2, <2>3, <3>2
    <3>4. FitsBitmap(r)
      BY <3>1, <3>3 DEF FitsBitmap
    <3> QED
      BY <3>4 DEF r
  <2> QED
    BY <2>5, <2>6 DEF BitmapIsSafe
<1> QED
  BY <1>1, PmmInvariance, PTL

\* alloc_page says None only when every frame is held: its search, which looks at
\* the first zero bit alone, cannot give up while a frame is free.
THEOREM NoFrameMissed == Spec => []NoneMeansExhausted
<1>1. IInv => NoneMeansExhausted
  <2> SUFFICES ASSUME IInv, phase = "up", NEW q \in FreeFrames
               PROVE  \E page \in DOMAIN BITMAP : FirstZero(page) /\ page < TOTAL_PAGES
    BY DEF NoneMeansExhausted
  <2>1. BITMAP \in [Bits -> BOOLEAN] /\ TOTAL_PAGES = NFrames
    BY DEF IInv, Partition
  <2>2. q \in Bits /\ ~ BITMAP[q] /\ q \in Frames
    BY FreeFramesIs
  <2>3. PICK m \in Bits : FirstZero(m) /\ m <= q
    BY <2>1, <2>2, FindsFirst
  <2>4. m < TOTAL_PAGES
    BY <2>1, <2>2, <2>3, PmmAssumption, BitmapSize DEF Frames, Bits
  <2> QED
    BY <2>1, <2>3, <2>4
<1> QED
  BY <1>1, PmmInvariance, PTL

\* pmm.rs implements PageAllocator: a frame is handed out to one holder at a time
\* and only what was handed out comes back.
THEOREM PmmImplementsAllocator == Spec => ImplementsAllocator
<1>1. Init => Allocator!Init
  BY DEF Init, FreeFrames, Allocator!Init
<1>2. IInv /\ [Next]_vars => [Allocator!Next]_(Allocator!vars)
  <2> SUFFICES ASSUME IInv, [Next]_vars PROVE [Allocator!Next]_(Allocator!vars)
    OBVIOUS
  <2>1. CASE init_pmm
    <3>1. phase = "boot" /\ phase' = "up" /\ held' = held /\ usable' = usable
      BY <2>1 DEF init_pmm
    <3>2. FreeFrames' \in SUBSET Frames
      BY <2>1, InitPmm DEF IInv, Typed, Freed
    <3>3. Allocator!Start
      BY <3>1, <3>2 DEF Allocator!Start
    <3> QED
      BY <3>3 DEF Allocator!Next
  <2>2. CASE InitPanics
    <3>1. phase = "boot" /\ phase' = "panic" /\ held' = held
      BY <2>2 DEF InitPanics
    <3>2. FreeFrames' = FreeFrames
      BY <2>2, Panics
    <3> QED
      BY <3>1, <3>2 DEF Allocator!vars
  <2>3. CASE alloc_page
    <3>1. phase = "up" /\ phase' = phase
      BY <2>3 DEF alloc_page
    <3>2. Allocator!Alloc
      BY <2>3, <3>1, AllocPage DEF Allocator!Alloc
    <3> QED
      BY <3>2 DEF Allocator!Next
  <2>4. CASE \E page \in Frames : free_page(page)
    <3>1. PICK page \in Frames : free_page(page)
      BY <2>4
    <3>2. phase = "up"
      BY <3>1 DEF free_page
    <3>3. Allocator!Free
      BY <3>1, <3>2, FreePage DEF Allocator!Free
    <3> QED
      BY <3>3 DEF Allocator!Next
  <2>5. CASE UNCHANGED vars
    BY <2>5, Stutter DEF vars, Allocator!vars
  <2> QED
    BY <2>1, <2>2, <2>3, <2>4, <2>5 DEF Next
<1> QED
  BY <1>1, <1>2, PmmInvariance, PTL DEF Spec, ImplementsAllocator, Allocator!Spec
=============================================================================
