----------------------------- MODULE HeapProofs -----------------------------
(***************************************************************************)
(* The kernel heap, for every header size, alignment, page size and set of *)
(* allocation sizes: the blocks tile the heap, what callers hold is what   *)
(* is used, one expansion is enough, and kfree's assertion holds.          *)
(***************************************************************************)
EXTENDS Heap, SequenceTheorems, Arithmetic

-----------------------------------------------------------------------------
(* Lists of blocks                                                           *)

BlockType == [addr : Nat, size : Nat \ {0}, used : BOOLEAN]

\* The list s tiles the memory from HEAP_START to end.
Tiles(s, end) ==
    /\ \A i \in 1..Len(s) : s[i].addr = IF i = 1 THEN HEAP_START ELSE End(s[i - 1])
    /\ s # << >> => End(s[Len(s)]) = end

\* The used blocks of the list s.
Used(s) == {s[j] : j \in {k \in 1..Len(s) : s[k].used}}

\* Another header for block i.
Put(s, i, b) == [s EXCEPT ![i] = b]

\* The types and the end of a block.
LEMMA BlockIs ==
    ASSUME NEW a \in Nat, NEW n \in Nat \ {0}, NEW u \in BOOLEAN
    PROVE  /\ Block(a, n, u) \in BlockType
           /\ Block(a, n, u).addr = a /\ Block(a, n, u).size = n /\ Block(a, n, u).used = u
           /\ End(Block(a, n, u)) = a + HEADER_SIZE + n
  BY DEF Block, BlockType, End

\* A block ends after its payload.
LEMMA EndIs ==
    ASSUME NEW b \in BlockType
    PROVE  /\ b.addr \in Nat /\ b.size \in Nat \ {0} /\ b.used \in BOOLEAN
           /\ End(b) \in Nat /\ b.addr < End(b)
           /\ End(b) = b.addr + HEADER_SIZE + b.size
  BY HeapAssumption DEF BlockType, End

\* The list with another header for block i.
LEMMA PutIs ==
    ASSUME NEW s \in Seq(BlockType), NEW i \in 1..Len(s), NEW b \in BlockType
    PROVE  /\ Put(s, i, b) \in Seq(BlockType)
           /\ Len(Put(s, i, b)) = Len(s)
           /\ \A j \in 1..Len(s) : Put(s, i, b)[j] = IF j = i THEN b ELSE s[j]
  BY ExceptSeq DEF Put

\* Setting or clearing the flag of a header.
LEMMA WithFlag ==
    ASSUME NEW b \in BlockType, NEW u \in BOOLEAN
    PROVE  [b EXCEPT !.used = u] = Block(b.addr, b.size, u)
  BY DEF BlockType, Block

\* Likewise its size.
LEMMA WithSize ==
    ASSUME NEW b \in BlockType, NEW n \in Nat \ {0}
    PROVE  [b EXCEPT !.size = n] = Block(b.addr, n, b.used)
  BY DEF BlockType, Block

\* InsertAt and RemoveAt of the list, element by element.
LEMMA InsertOne ==
    ASSUME NEW S, NEW s \in Seq(S), NEW i \in 1..(Len(s) + 1), NEW e \in S
    PROVE  /\ InsertAt(s, i, e) \in Seq(S)
           /\ Len(InsertAt(s, i, e)) = Len(s) + 1
           /\ \A j \in 1..(i - 1) : InsertAt(s, i, e)[j] = s[j]
           /\ InsertAt(s, i, e)[i] = e
           /\ \A j \in i..Len(s) : InsertAt(s, i, e)[j + 1] = s[j]
<1> DEFINE front == SubSeq(s, 1, i - 1)
           back  == SubSeq(s, i, Len(s))
           mid   == front \o <<e>>
<1>0. Len(s) \in Nat /\ \A j \in 1..Len(s) : s[j] \in S
  BY LenProperties, ElementOfSeq
<1>1. front \in Seq(S) /\ Len(front) = i - 1 /\ \A j \in 1..(i - 1) : front[j] = s[j]
  <2>1. \A j \in 1..(i - 1) : s[j] \in S
    BY <1>0
  <2>2. /\ front \in Seq(S) /\ Len(front) = IF 1 <= i - 1 THEN i - 1 - 1 + 1 ELSE 0
        /\ \A j \in 1..(i - 1 - 1 + 1) : front[j] = s[1 + j - 1]
    BY <1>0, <2>1, SubSeqProperties
  <2> QED
    BY <1>0, <2>2
<1>2. back \in Seq(S) /\ Len(back) = Len(s) - i + 1 /\ \A j \in 1..(Len(s) - i + 1) : back[j] = s[i + j - 1]
  <2>1. \A j \in i..Len(s) : s[j] \in S
    BY <1>0
  <2>2. /\ back \in Seq(S) /\ Len(back) = IF i <= Len(s) THEN Len(s) - i + 1 ELSE 0
        /\ \A j \in 1..(Len(s) - i + 1) : back[j] = s[i + j - 1]
    BY <1>0, <2>1, SubSeqProperties
  <2> QED
    BY <1>0, <2>2
<1>3. <<e>> \in Seq(S) /\ Len(<<e>>) = 1 /\ <<e>>[1] = e
  OBVIOUS
<1> HIDE DEF front, back
<1>4. /\ mid \in Seq(S) /\ Len(mid) = i
      /\ \A j \in 1..i : mid[j] = IF j < i THEN front[j] ELSE e
  <2>1. /\ mid \in Seq(S) /\ Len(mid) = Len(front) + Len(<<e>>)
        /\ \A j \in 1..(Len(front) + Len(<<e>>)) :
              mid[j] = IF j <= Len(front) THEN front[j] ELSE <<e>>[j - Len(front)]
    BY <1>1, <1>3, ConcatProperties
  <2> QED
    BY <1>1, <1>3, <2>1
<1> HIDE DEF mid
<1>5. /\ mid \o back \in Seq(S) /\ Len(mid \o back) = Len(mid) + Len(back)
      /\ \A j \in 1..(Len(mid) + Len(back)) :
            (mid \o back)[j] = IF j <= Len(mid) THEN mid[j] ELSE back[j - Len(mid)]
  BY <1>2, <1>4, ConcatProperties
<1>6. InsertAt(s, i, e) = mid \o back
  BY DEF InsertAt, front, back, mid
<1>7. Len(mid) + Len(back) = Len(s) + 1 /\ i \in Nat /\ 1 <= i /\ i <= Len(s) + 1
  BY <1>0, <1>2, <1>4
<1>8. ASSUME NEW j \in 1..(i - 1) PROVE (mid \o back)[j] = s[j]
  <2>1. j \in 1..i /\ j < i /\ j \in 1..(Len(mid) + Len(back)) /\ j <= Len(mid)
    BY <1>4, <1>7
  <2>2. (mid \o back)[j] = mid[j]
    BY <1>5, <2>1
  <2>3. mid[j] = front[j] /\ front[j] = s[j]
    BY <1>1, <1>4, <2>1
  <2> QED
    BY <2>2, <2>3
<1>9. (mid \o back)[i] = e
  <2>1. i \in 1..i /\ ~ (i < i) /\ i \in 1..(Len(mid) + Len(back)) /\ i <= Len(mid)
    BY <1>4, <1>7
  <2>2. (mid \o back)[i] = mid[i]
    BY <1>5, <2>1
  <2> QED
    BY <1>4, <2>1, <2>2
<1>10. ASSUME NEW j \in i..Len(s) PROVE (mid \o back)[j + 1] = s[j]
  <2>1. /\ j + 1 \in 1..(Len(mid) + Len(back)) /\ ~ (j + 1 <= Len(mid))
        /\ (j + 1) - Len(mid) \in 1..(Len(s) - i + 1)
        /\ i + ((j + 1) - Len(mid)) - 1 = j
    BY <1>0, <1>4, <1>7
  <2>2. (mid \o back)[j + 1] = back[(j + 1) - Len(mid)]
    BY <1>5, <2>1
  <2>3. back[(j + 1) - Len(mid)] = s[i + ((j + 1) - Len(mid)) - 1]
    BY <1>2, <2>1
  <2> QED
    BY <2>1, <2>2, <2>3
<1> QED
  BY <1>5, <1>6, <1>7, <1>8, <1>9, <1>10

\* Likewise RemoveAt.
LEMMA RemoveOne ==
    ASSUME NEW S, NEW s \in Seq(S), NEW i \in 1..Len(s)
    PROVE  /\ RemoveAt(s, i) \in Seq(S)
           /\ Len(RemoveAt(s, i)) = Len(s) - 1
           /\ \A j \in 1..(Len(s) - 1) : RemoveAt(s, i)[j] = IF j < i THEN s[j] ELSE s[j + 1]
<1> DEFINE front == SubSeq(s, 1, i - 1)
           back  == SubSeq(s, i + 1, Len(s))
<1>0. Len(s) \in Nat /\ \A j \in 1..Len(s) : s[j] \in S
  BY LenProperties, ElementOfSeq
<1>1. front \in Seq(S) /\ Len(front) = i - 1 /\ \A j \in 1..(i - 1) : front[j] = s[j]
  <2>1. \A j \in 1..(i - 1) : s[j] \in S
    BY <1>0
  <2>2. /\ front \in Seq(S) /\ Len(front) = IF 1 <= i - 1 THEN i - 1 - 1 + 1 ELSE 0
        /\ \A j \in 1..(i - 1 - 1 + 1) : front[j] = s[1 + j - 1]
    BY <1>0, <2>1, SubSeqProperties
  <2> QED
    BY <1>0, <2>2
<1>2. back \in Seq(S) /\ Len(back) = Len(s) - i /\ \A j \in 1..(Len(s) - i) : back[j] = s[i + j]
  <2>1. \A j \in (i + 1)..Len(s) : s[j] \in S
    BY <1>0
  <2>2. /\ back \in Seq(S) /\ Len(back) = IF i + 1 <= Len(s) THEN Len(s) - (i + 1) + 1 ELSE 0
        /\ \A j \in 1..(Len(s) - (i + 1) + 1) : back[j] = s[(i + 1) + j - 1]
    BY <1>0, <2>1, SubSeqProperties
  <2>3. Len(s) - (i + 1) + 1 = Len(s) - i /\ Len(s) - i \in Nat
    BY <1>0
  <2>4. Len(back) = Len(s) - i
    <3>1. Len(back) = IF i + 1 <= Len(s) THEN Len(s) - (i + 1) + 1 ELSE 0
      BY <2>2
    <3>2. (IF i + 1 <= Len(s) THEN Len(s) - (i + 1) + 1 ELSE 0) = Len(s) - i
      BY <1>0
    <3> QED
      BY <3>1, <3>2
  <2>5. ASSUME NEW j \in 1..(Len(s) - i) PROVE back[j] = s[i + j]
    <3>1. back[j] = s[(i + 1) + j - 1]
      BY <2>2, <2>3
    <3>2. (i + 1) + j - 1 = i + j
      BY <2>3
    <3> QED
      BY <3>1, <3>2
  <2> QED
    BY <2>2, <2>4, <2>5
<1> HIDE DEF front, back
<1>3. /\ front \o back \in Seq(S) /\ Len(front \o back) = Len(front) + Len(back)
      /\ \A j \in 1..(Len(front) + Len(back)) :
            (front \o back)[j] = IF j <= Len(front) THEN front[j] ELSE back[j - Len(front)]
  BY <1>1, <1>2, ConcatProperties
<1>4. RemoveAt(s, i) = front \o back
  BY DEF RemoveAt, front, back
<1>5. \A j \in 1..(Len(s) - 1) : (front \o back)[j] = IF j < i THEN s[j] ELSE s[j + 1]
  <2> TAKE j \in 1..(Len(s) - 1)
  <2>0. j \in Nat /\ i \in Nat /\ Len(front) + Len(back) = Len(s) - 1
    BY <1>0, <1>1, <1>2
  <2>1. CASE j < i
    BY <1>0, <1>1, <1>2, <1>3, <2>1
  <2>2. CASE j >= i
    <3>1. j - (i - 1) \in 1..(Len(s) - i)
      BY <1>0, <2>2
    <3>2. back[j - (i - 1)] = s[i + (j - (i - 1))]
      BY <1>2, <3>1
    <3>3. i + (j - (i - 1)) = j + 1
      BY <1>0
    <3> QED
      BY <1>0, <1>1, <1>2, <1>3, <2>2, <3>2, <3>3
  <2> QED
    BY <2>0, <2>1, <2>2
<1>6. Len(front) + Len(back) = Len(s) - 1
  BY <1>0, <1>1, <1>2
<1> QED
  BY <1>3, <1>4, <1>5, <1>6

\* The blocks of a list that tiles lie in address order, within the heap.
LEMMA Ordered ==
    ASSUME NEW s \in Seq(BlockType), NEW end, Tiles(s, end), NEW i \in 1..Len(s)
    PROVE  /\ \A j \in (i + 1)..Len(s) : End(s[i]) <= s[j].addr
           /\ HEAP_START <= s[i].addr /\ End(s[i]) <= end
<1>0. Len(s) \in Nat /\ i \in Nat /\ \A j \in 1..Len(s) : s[j] \in BlockType
  BY LenProperties, ElementOfSeq
<1>1. \A j \in 1..Len(s) : /\ s[j].addr \in Nat /\ End(s[j]) \in Nat
                           /\ s[j].addr < End(s[j])
  BY <1>0, EndIs
<1>2. \A j \in 1..Len(s) : j # 1 => s[j].addr = End(s[j - 1])
  BY DEF Tiles
<1>3. ASSUME NEW k \in 1..Len(s)
      PROVE  \A j \in (k + 1)..Len(s) : End(s[k]) <= s[j].addr
  <2> DEFINE B == {j \in (k + 1)..Len(s) : ~ (End(s[k]) <= s[j].addr)}
  <2>1. SUFFICES ASSUME B # {} PROVE FALSE
    OBVIOUS
  <2>2. B \in SUBSET Nat
    BY <1>0
  <2>3. PICK m \in B : \A x \in B : m <= x
    BY <2>1, <2>2, Least
  <2>4. m \in (k + 1)..Len(s) /\ ~ (End(s[k]) <= s[m].addr)
    OBVIOUS
  <2>5. m \in 1..Len(s) /\ m # 1 /\ m - 1 \in 1..Len(s)
    BY <1>0, <2>4
  <2>6. s[m].addr = End(s[m - 1])
    BY <1>2, <2>5
  <2>7. m - 1 # k
    BY <1>1, <2>4, <2>5, <2>6
  <2>8. m - 1 \in (k + 1)..Len(s) /\ ~ (m <= m - 1)
    BY <1>0, <2>4, <2>7
  <2>9. End(s[k]) <= s[m - 1].addr
    BY <2>3, <2>8
  <2> QED
    BY <1>1, <2>4, <2>5, <2>6, <2>9
<1>4. HEAP_START <= s[i].addr
  <2>1. 1 \in 1..Len(s) /\ s[1].addr = HEAP_START /\ HEAP_START \in Nat
    BY <1>0, HeapAssumption DEF Tiles
  <2>2. CASE i = 1
    BY <2>1, <2>2
  <2>3. CASE i # 1
    <3>1. i \in (1 + 1)..Len(s)
      BY <1>0, <2>3
    <3>2. End(s[1]) <= s[i].addr
      BY <1>3, <2>1, <3>1
    <3> QED
      BY <1>1, <2>1, <3>2
  <2> QED
    BY <2>2, <2>3
<1>5. End(s[i]) <= end
  <2>1. s # << >> /\ Len(s) \in 1..Len(s)
    BY <1>0, EmptySeq
  <2>2. End(s[Len(s)]) = end
    BY <2>1 DEF Tiles
  <2>3. CASE i = Len(s)
    BY <1>1, <2>2, <2>3
  <2>4. CASE i # Len(s)
    <3>1. Len(s) \in (i + 1)..Len(s)
      BY <1>0, <2>4
    <3>2. End(s[i]) <= s[Len(s)].addr
      BY <1>3, <3>1
    <3> QED
      BY <1>1, <2>1, <2>2, <3>2
  <2> QED
    BY <2>3, <2>4
<1> QED
  BY <1>3, <1>4, <1>5

\* Two blocks of the list do not begin at the same address.
LEMMA AddrUnique ==
    ASSUME NEW s \in Seq(BlockType), NEW end, Tiles(s, end),
           NEW i \in 1..Len(s), NEW j \in 1..Len(s), s[i].addr = s[j].addr
    PROVE  i = j
<1>0. Len(s) \in Nat /\ s[i] \in BlockType /\ s[j] \in BlockType
  BY LenProperties, ElementOfSeq
<1>1. ASSUME i < j PROVE FALSE
  <2>1. j \in (i + 1)..Len(s)
    BY <1>0, <1>1
  <2>2. End(s[i]) <= s[j].addr
    BY <2>1, Ordered
  <2> QED
    BY <1>0, <2>2, EndIs
<1>2. ASSUME j < i PROVE FALSE
  <2>1. i \in (j + 1)..Len(s)
    BY <1>0, <1>2
  <2>2. End(s[j]) <= s[i].addr
    BY <2>1, Ordered
  <2> QED
    BY <1>0, <2>2, EndIs
<1> QED
  BY <1>0, <1>1, <1>2

\* Block i is given another header, of the same extent.
LEMMA Changed ==
    ASSUME NEW s \in Seq(BlockType), NEW end, Tiles(s, end), NEW i \in 1..Len(s),
           NEW b \in BlockType, b.addr = s[i].addr, End(b) = End(s[i]),
           NEW t, t = Put(s, i, b)
    PROVE  /\ t \in Seq(BlockType) /\ Len(t) = Len(s) /\ t # << >>
           /\ \A j \in 1..Len(s) : t[j] = IF j = i THEN b ELSE s[j]
           /\ Tiles(t, end)
<1>0. Len(s) \in Nat
  BY LenProperties
<1>1. t \in Seq(BlockType) /\ Len(t) = Len(s) /\ \A j \in 1..Len(s) : t[j] = IF j = i THEN b ELSE s[j]
  <2> DEFINE u == Put(s, i, b)
  <2>1. /\ u \in Seq(BlockType) /\ Len(u) = Len(s)
        /\ \A j \in 1..Len(s) : u[j] = IF j = i THEN b ELSE s[j]
    BY ONLY s \in Seq(BlockType), i \in 1..Len(s), b \in BlockType, PutIs
  <2>2. t = u
    OBVIOUS
  <2> HIDE DEF u
  <2> QED
    BY <2>1, <2>2
<1>2. t # << >>
  BY <1>0, <1>1, EmptySeq
<1>3. \A j \in 1..Len(s) : t[j].addr = s[j].addr /\ End(t[j]) = End(s[j])
  BY <1>1
<1>4. ASSUME NEW j \in 1..Len(t) PROVE t[j].addr = IF j = 1 THEN HEAP_START ELSE End(t[j - 1])
  <2>1. CASE j = 1
    BY <1>1, <1>3, <2>1 DEF Tiles
  <2>2. CASE j # 1
    <3>1. j - 1 \in 1..Len(s) /\ j \in 1..Len(s)
      BY <1>0, <1>1, <2>2
    <3> QED
      BY <1>3, <2>2, <3>1 DEF Tiles
  <2> QED
    BY <2>1, <2>2
<1>5. End(t[Len(t)]) = end
  <2>1. Len(s) \in 1..Len(s) /\ s # << >>
    BY <1>0, EmptySeq
  <2>2. End(s[Len(s)]) = end
    BY <2>1 DEF Tiles
  <2> QED
    BY <1>1, <1>3, <2>1, <2>2
<1> QED
  BY <1>1, <1>2, <1>4, <1>5 DEF Tiles

\* A block c is put after block i, which is shortened to b.
LEMMA Cut ==
    ASSUME NEW s \in Seq(BlockType), NEW end, Tiles(s, end), NEW i \in 1..Len(s),
           NEW b \in BlockType, NEW c \in BlockType,
           b.addr = s[i].addr, c.addr = End(b), End(c) = End(s[i]),
           NEW t, t = InsertAt(Put(s, i, b), i + 1, c)
    PROVE  /\ t \in Seq(BlockType) /\ Len(t) = Len(s) + 1 /\ t # << >>
           /\ \A j \in 1..(i - 1) : t[j] = s[j]
           /\ t[i] = b /\ t[i + 1] = c
           /\ \A j \in (i + 1)..Len(s) : t[j + 1] = s[j]
           /\ Tiles(t, end)
<1>0. Len(s) \in Nat /\ i \in Nat /\ i <= Len(s) /\ 1 <= i
  BY LenProperties
<1> DEFINE u == Put(s, i, b)
<1>1. u \in Seq(BlockType) /\ Len(u) = Len(s) /\ \A j \in 1..Len(s) : u[j] = IF j = i THEN b ELSE s[j]
  BY PutIs
<1> HIDE DEF u
<1>2. t = InsertAt(u, i + 1, c) /\ i + 1 \in 1..(Len(u) + 1)
  BY <1>0, <1>1 DEF u
<1>3. /\ t \in Seq(BlockType) /\ Len(t) = Len(u) + 1
      /\ \A j \in 1..i : t[j] = u[j]
      /\ t[i + 1] = c
      /\ \A j \in (i + 1)..Len(u) : t[j + 1] = u[j]
  <2> DEFINE k == i + 1
  <2>1. k \in 1..(Len(u) + 1)
    BY <1>2
  <2>2. t = InsertAt(u, k, c) /\ k - 1 = i
    BY <1>0, <1>2
  <2> HIDE DEF k
  <2>3. u \in Seq(BlockType)
    BY <1>1
  <2>4. /\ InsertAt(u, k, c) \in Seq(BlockType) /\ Len(InsertAt(u, k, c)) = Len(u) + 1
        /\ \A j \in 1..(k - 1) : InsertAt(u, k, c)[j] = u[j]
        /\ InsertAt(u, k, c)[k] = c
    BY <2>1, <2>3, InsertOne
  <2>5. \A j \in k..Len(u) : InsertAt(u, k, c)[j + 1] = u[j]
    BY ONLY <2>1, <2>3, c \in BlockType, InsertOne
  <2> QED
    BY <2>2, <2>4, <2>5 DEF k
<1>4. Len(t) = Len(s) + 1
  BY <1>1, <1>3
<1>5. ASSUME NEW j \in 1..(i - 1) PROVE t[j] = s[j]
  <2>1. j \in 1..Len(s) /\ j \in 1..i /\ j # i
    BY <1>0
  <2> QED
    BY <1>1, <1>3, <2>1
<1>6. t[i] = b
  <2>1. i \in 1..i
    BY <1>0
  <2>2. t[i] = u[i]
    BY <1>3, <2>1
  <2> QED
    BY <1>1, <2>2
<1>7. t[i + 1] = c
  BY <1>3
<1>8. ASSUME NEW j \in (i + 1)..Len(s) PROVE t[j + 1] = s[j]
  <2>1. j \in (i + 1)..Len(u) /\ j \in 1..Len(s) /\ j # i
    BY <1>0, <1>1
  <2>2. t[j + 1] = u[j]
    BY <1>3, <2>1
  <2> QED
    BY <1>1, <2>1, <2>2
<1>9. t # << >>
  BY <1>0, <1>3, <1>4, EmptySeq
<1>10. \A j \in 1..Len(s) : s[j].addr = IF j = 1 THEN HEAP_START ELSE End(s[j - 1])
  BY DEF Tiles
<1>11. ASSUME NEW j \in 1..Len(t) PROVE t[j].addr = IF j = 1 THEN HEAP_START ELSE End(t[j - 1])
  <2>0. j \in Nat /\ 1 <= j /\ j <= Len(s) + 1
    BY <1>0, <1>4
  <2>1. CASE j <= i
    <3>1. j \in 1..Len(s)
      BY <1>0, <2>0, <2>1
    <3>2. t[j].addr = s[j].addr
      <4>1. CASE j = i
        BY <1>6, <4>1
      <4>2. CASE j # i
        <5>1. j \in 1..(i - 1)
          BY <1>0, <2>0, <2>1, <4>2
        <5> QED
          BY <1>5, <5>1
      <4> QED
        BY <4>1, <4>2
    <3>3. ASSUME j # 1 PROVE t[j - 1] = s[j - 1]
      <4>1. j - 1 \in 1..(i - 1)
        BY <1>0, <2>0, <2>1, <3>3
      <4> QED
        BY <1>5, <4>1
    <3> QED
      BY <1>10, <3>1, <3>2, <3>3
  <2>2. CASE j = i + 1
    <3>1. j # 1 /\ j - 1 = i
      BY <1>0, <2>2
    <3> QED
      BY <1>6, <1>7, <2>2, <3>1
  <2>3. CASE j > i + 1
    <3> DEFINE k == j - 1
    <3>1. k \in (i + 1)..Len(s) /\ k \in 1..Len(s) /\ k # 1 /\ j = k + 1 /\ j # 1 /\ j - 1 = k
      BY <1>0, <2>0, <2>3
    <3> HIDE DEF k
    <3>2. t[j] = s[k] /\ s[k].addr = End(s[k - 1])
      BY <1>8, <1>10, <3>1
    <3>3. End(t[k]) = End(s[k - 1])
      <4>1. CASE k = i + 1
        <5>1. k - 1 = i
          BY <1>0, <4>1
        <5> QED
          BY <1>7, <4>1, <5>1
      <4>2. CASE k # i + 1
        <5>1. k - 1 \in (i + 1)..Len(s) /\ (k - 1) + 1 = k
          BY <1>0, <3>1, <4>2
        <5>2. t[(k - 1) + 1] = s[k - 1]
          BY <1>8, <5>1
        <5> QED
          BY <5>1, <5>2
      <4> QED
        BY <4>1, <4>2
    <3> QED
      BY <3>1, <3>2, <3>3
  <2> QED
    BY <1>0, <2>0, <2>1, <2>2, <2>3
<1>12. End(t[Len(t)]) = end
  <2>1. s # << >>
    BY <1>0, EmptySeq
  <2>2. End(s[Len(s)]) = end
    BY <2>1 DEF Tiles
  <2>3. CASE i = Len(s)
    BY <1>4, <1>7, <2>2, <2>3
  <2>4. CASE i # Len(s)
    <3>1. Len(s) \in (i + 1)..Len(s)
      BY <1>0, <2>4
    <3>2. t[Len(s) + 1] = s[Len(s)]
      BY <1>8, <3>1
    <3> QED
      BY <1>4, <2>2, <3>2
  <2> QED
    BY <2>3, <2>4
<1>13. Tiles(t, end)
  BY <1>11, <1>12 DEF Tiles
<1> QED
  BY <1>3, <1>4, <1>5, <1>6, <1>7, <1>8, <1>9, <1>13

\* Block i, extended to b, absorbs the block after it.
LEMMA Joined ==
    ASSUME NEW s \in Seq(BlockType), NEW end, Tiles(s, end), NEW i \in 1..Len(s), i < Len(s),
           NEW b \in BlockType, b.addr = s[i].addr, End(b) = End(s[i + 1]),
           NEW t, t = RemoveAt(Put(s, i, b), i + 1)
    PROVE  /\ t \in Seq(BlockType) /\ Len(t) = Len(s) - 1 /\ t # << >>
           /\ \A j \in 1..(i - 1) : t[j] = s[j]
           /\ t[i] = b
           /\ \A j \in (i + 2)..Len(s) : t[j - 1] = s[j]
           /\ Tiles(t, end)
<1>0. Len(s) \in Nat /\ i \in Nat /\ i < Len(s) /\ 1 <= i
  BY LenProperties
<1> DEFINE u == Put(s, i, b)
<1>1. u \in Seq(BlockType) /\ Len(u) = Len(s) /\ \A j \in 1..Len(s) : u[j] = IF j = i THEN b ELSE s[j]
  BY PutIs
<1> HIDE DEF u
<1>2. t = RemoveAt(u, i + 1) /\ i + 1 \in 1..Len(u)
  BY <1>0, <1>1 DEF u
<1>3. /\ t \in Seq(BlockType) /\ Len(t) = Len(u) - 1
      /\ \A j \in 1..(Len(u) - 1) : t[j] = IF j < i + 1 THEN u[j] ELSE u[j + 1]
  <2> DEFINE k == i + 1
  <2>1. k \in 1..Len(u) /\ t = RemoveAt(u, k)
    BY <1>2
  <2> HIDE DEF k
  <2>2. u \in Seq(BlockType) /\ k \in 1..Len(u)
    BY <1>1, <2>1
  <2>3. /\ RemoveAt(u, k) \in Seq(BlockType) /\ Len(RemoveAt(u, k)) = Len(u) - 1
        /\ \A j \in 1..(Len(u) - 1) : RemoveAt(u, k)[j] = IF j < k THEN u[j] ELSE u[j + 1]
    BY ONLY <2>2, RemoveOne
  <2> QED
    BY <2>1, <2>3 DEF k
<1>4. Len(t) = Len(s) - 1
  BY <1>1, <1>3
<1>5. ASSUME NEW j \in 1..(i - 1) PROVE t[j] = s[j]
  <2>1. j \in 1..Len(s) /\ j \in 1..(Len(u) - 1) /\ j < i + 1 /\ j # i
    BY <1>0, <1>1
  <2> QED
    BY <1>1, <1>3, <2>1
<1>6. t[i] = b
  <2>1. i \in 1..(Len(u) - 1) /\ i < i + 1
    BY <1>0, <1>1
  <2>2. t[i] = u[i]
    BY <1>3, <2>1
  <2> QED
    BY <1>1, <2>2
<1>7. ASSUME NEW j \in (i + 2)..Len(s) PROVE t[j - 1] = s[j]
  <2>1. /\ j - 1 \in 1..(Len(u) - 1) /\ ~ (j - 1 < i + 1)
        /\ (j - 1) + 1 = j /\ j \in 1..Len(s) /\ j # i
    BY <1>0, <1>1
  <2>2. t[j - 1] = u[(j - 1) + 1]
    BY <1>3, <2>1
  <2> QED
    BY <1>1, <2>1, <2>2
<1>8. t # << >>
  BY <1>0, <1>3, <1>4, EmptySeq
<1>9. \A j \in 1..Len(s) : s[j].addr = IF j = 1 THEN HEAP_START ELSE End(s[j - 1])
  BY DEF Tiles
<1>10. ASSUME NEW j \in 1..Len(t) PROVE t[j].addr = IF j = 1 THEN HEAP_START ELSE End(t[j - 1])
  <2>0. j \in Nat /\ 1 <= j /\ j <= Len(s) - 1
    BY <1>0, <1>4
  <2>1. CASE j <= i
    <3>1. j \in 1..Len(s)
      BY <1>0, <2>0, <2>1
    <3>2. t[j].addr = s[j].addr
      <4>1. CASE j = i
        BY <1>6, <4>1
      <4>2. CASE j # i
        <5>1. j \in 1..(i - 1)
          BY <1>0, <2>0, <2>1, <4>2
        <5> QED
          BY <1>5, <5>1
      <4> QED
        BY <4>1, <4>2
    <3>3. ASSUME j # 1 PROVE t[j - 1] = s[j - 1]
      <4>1. j - 1 \in 1..(i - 1)
        BY <1>0, <2>0, <2>1, <3>3
      <4> QED
        BY <1>5, <4>1
    <3> QED
      BY <1>9, <3>1, <3>2, <3>3
  <2>2. CASE j > i
    <3> DEFINE k == j + 1
    <3>1. k \in (i + 2)..Len(s) /\ k \in 1..Len(s) /\ k # 1 /\ j = k - 1 /\ j # 1
      BY <1>0, <2>0, <2>2
    <3> HIDE DEF k
    <3>2. t[j] = s[k] /\ s[k].addr = End(s[k - 1])
      BY <1>7, <1>9, <3>1
    <3>3. End(t[j - 1]) = End(s[j])
      <4>1. CASE j = i + 1
        <5>1. j - 1 = i
          BY <1>0, <4>1
        <5> QED
          BY <1>6, <4>1, <5>1
      <4>2. CASE j # i + 1
        <5>1. j \in (i + 2)..Len(s)
          BY <1>0, <2>0, <2>2, <4>2
        <5> QED
          BY <1>7, <5>1
      <4> QED
        BY <4>1, <4>2
    <3> QED
      BY <3>1, <3>2, <3>3
  <2> QED
    BY <1>0, <2>0, <2>1, <2>2
<1>11. End(t[Len(t)]) = end
  <2>1. s # << >>
    BY <1>0, EmptySeq
  <2>2. End(s[Len(s)]) = end
    BY <2>1 DEF Tiles
  <2>3. CASE i + 1 = Len(s)
    <3>1. Len(t) = i
      BY <1>0, <1>4, <2>3
    <3> QED
      BY <1>6, <2>2, <2>3, <3>1
  <2>4. CASE i + 1 # Len(s)
    <3>1. Len(s) \in (i + 2)..Len(s)
      BY <1>0, <2>4
    <3> QED
      BY <1>4, <1>7, <2>2, <3>1
  <2> QED
    BY <2>3, <2>4
<1>12. Tiles(t, end)
  BY <1>10, <1>11 DEF Tiles
<1> QED
  BY <1>3, <1>4, <1>5, <1>6, <1>7, <1>8, <1>12

\* Membership in Used.
LEMMA UsedIs ==
    ASSUME NEW s, NEW x
    PROVE  x \in Used(s) <=> \E j \in 1..Len(s) : s[j] = x /\ x.used
  BY DEF Used

\* Taking a free block whole adds it to the used ones.
LEMMA UsedAfterTake ==
    ASSUME NEW s \in Seq(BlockType), NEW i \in 1..Len(s), ~ s[i].used,
           NEW b \in BlockType, b.used,
           NEW t, t[i] = b, Len(t) = Len(s),
           \A j \in 1..Len(s) : j # i => t[j] = s[j]
    PROVE  Used(t) = Used(s) \cup {b}
<1>1. b \in Used(t)
  BY UsedIs
<1>2. ASSUME NEW x \in Used(t), x # b PROVE x \in Used(s)
  BY <1>2, UsedIs
<1>3. ASSUME NEW x \in Used(s) PROVE x \in Used(t)
  BY UsedIs
<1> QED
  BY <1>1, <1>2, <1>3

\* So does cutting it.
LEMMA UsedAfterCut ==
    ASSUME NEW s \in Seq(BlockType), NEW i \in 1..Len(s), ~ s[i].used,
           NEW b \in BlockType, b.used,
           NEW t, t[i] = b, i \in 1..Len(t), Len(t) = Len(s) + 1,
           \A j \in 1..(i - 1) : t[j] = s[j],
           ~ t[i + 1].used,
           \A j \in (i + 1)..Len(s) : t[j + 1] = s[j]
    PROVE  Used(t) = Used(s) \cup {b}
<1>0. Len(s) \in Nat /\ i \in Nat /\ 1 <= i /\ i <= Len(s)
  BY LenProperties
<1>1. b \in Used(t)
  BY UsedIs
<1>2. ASSUME NEW x \in Used(t), x # b PROVE x \in Used(s)
  <2>1. PICK j \in 1..(Len(s) + 1) : t[j] = x /\ x.used
    BY UsedIs
  <2>2. j # i /\ j # i + 1
    BY <1>2, <2>1
  <2>3. CASE j < i
    <3>1. j \in 1..(i - 1) /\ j \in 1..Len(s)
      BY <1>0, <2>3
    <3> QED
      BY <2>1, <3>1, UsedIs
  <2>4. CASE j > i
    <3>1. j - 1 \in (i + 1)..Len(s) /\ j - 1 \in 1..Len(s) /\ (j - 1) + 1 = j
      BY <1>0, <2>2, <2>4
    <3>2. t[(j - 1) + 1] = s[j - 1]
      BY <3>1
    <3>3. s[j - 1] = x
      BY <2>1, <3>1, <3>2
    <3> QED
      BY <2>1, <3>1, <3>3, UsedIs
  <2> QED
    BY <1>0, <2>2, <2>3, <2>4
<1>3. ASSUME NEW x \in Used(s) PROVE x \in Used(t)
  <2>1. PICK j \in 1..Len(s) : s[j] = x /\ x.used
    BY UsedIs
  <2>2. j # i
    BY <2>1
  <2>3. CASE j < i
    <3>1. j \in 1..(i - 1) /\ j \in 1..Len(t)
      BY <1>0, <2>3
    <3> QED
      BY <2>1, <3>1, UsedIs
  <2>4. CASE j > i
    <3>1. j \in (i + 1)..Len(s) /\ j + 1 \in 1..Len(t)
      BY <1>0, <2>4
    <3>2. t[j + 1] = x
      BY <2>1, <3>1
    <3> QED
      BY <2>1, <3>1, <3>2, UsedIs
  <2> QED
    BY <1>0, <2>2, <2>3, <2>4
<1> QED
  BY <1>1, <1>2, <1>3

\* Clearing the flag of a block, in a list that names it once, removes it.
LEMMA UsedAfterFree ==
    ASSUME NEW s \in Seq(BlockType), NEW i \in 1..Len(s),
           \A j \in 1..Len(s) : j # i => s[j] # s[i],
           NEW t, Len(t) = Len(s), ~ t[i].used,
           \A j \in 1..Len(s) : j # i => t[j] = s[j]
    PROVE  Used(t) = Used(s) \ {s[i]}
<1>1. ASSUME NEW x \in Used(t) PROVE x \in Used(s) \ {s[i]}
  <2>1. PICK j \in 1..Len(s) : t[j] = x /\ x.used
    BY UsedIs
  <2>2. j # i
    BY <2>1
  <2> QED
    BY <2>1, <2>2, UsedIs
<1>2. ASSUME NEW x \in Used(s), x # s[i] PROVE x \in Used(t)
  BY <1>2, UsedIs
<1> QED
  BY <1>1, <1>2

\* Joining two free blocks changes none that is used.
LEMMA UsedAfterJoin ==
    ASSUME NEW s \in Seq(BlockType), NEW i \in 1..Len(s), i < Len(s),
           ~ s[i].used, ~ s[i + 1].used,
           NEW t, Len(t) = Len(s) - 1, ~ t[i].used,
           \A j \in 1..(i - 1) : t[j] = s[j],
           \A j \in (i + 2)..Len(s) : t[j - 1] = s[j]
    PROVE  Used(t) = Used(s)
<1>0. Len(s) \in Nat /\ i \in Nat /\ 1 <= i /\ i < Len(s)
  BY LenProperties
<1>1. ASSUME NEW x \in Used(t) PROVE x \in Used(s)
  <2>1. PICK j \in 1..(Len(s) - 1) : t[j] = x /\ x.used
    BY UsedIs
  <2>2. j # i
    BY <2>1
  <2>3. CASE j < i
    <3>1. j \in 1..(i - 1) /\ j \in 1..Len(s)
      BY <1>0, <2>3
    <3> QED
      BY <2>1, <3>1, UsedIs
  <2>4. CASE j > i
    <3>1. j + 1 \in (i + 2)..Len(s) /\ j + 1 \in 1..Len(s) /\ (j + 1) - 1 = j
      BY <1>0, <2>4
    <3>2. t[(j + 1) - 1] = s[j + 1]
      BY <3>1
    <3>3. s[j + 1] = x
      BY <2>1, <3>1, <3>2
    <3> QED
      BY <2>1, <3>1, <3>3, UsedIs
  <2> QED
    BY <1>0, <2>2, <2>3, <2>4
<1>2. ASSUME NEW x \in Used(s) PROVE x \in Used(t)
  <2>1. PICK j \in 1..Len(s) : s[j] = x /\ x.used
    BY UsedIs
  <2>2. j # i /\ j # i + 1
    BY <2>1
  <2>3. CASE j < i
    <3>1. j \in 1..(i - 1) /\ j \in 1..Len(t)
      BY <1>0, <2>3
    <3> QED
      BY <2>1, <3>1, UsedIs
  <2>4. CASE j > i
    <3>1. j \in (i + 2)..Len(s) /\ j - 1 \in 1..Len(t)
      BY <1>0, <2>2, <2>4
    <3>2. t[j - 1] = x
      BY <2>1, <3>1
    <3> QED
      BY <2>1, <3>1, <3>2, UsedIs
  <2> QED
    BY <1>0, <2>2, <2>3, <2>4
<1> QED
  BY <1>1, <1>2

\* A free block put at the end of the heap.
LEMMA Appended ==
    ASSUME NEW s \in Seq(BlockType), NEW end, Tiles(s, end), s # << >>,
           NEW b \in BlockType, b.addr = end, ~ b.used,
           NEW t, t = Append(s, b)
    PROVE  /\ t \in Seq(BlockType) /\ t # << >> /\ Len(t) = Len(s) + 1 /\ t[Len(t)] = b
           /\ Tiles(t, End(b)) /\ Used(t) = Used(s)
<1>0. Len(s) \in Nat /\ 1 <= Len(s)
  BY LenProperties, EmptySeq
<1>1. t \in Seq(BlockType) /\ t # << >> /\ Len(t) = Len(s) + 1
  BY AppendProperties
<1>2. \A j \in 1..Len(s) : t[j] = s[j]
  BY AppendProperties
<1>3. t[Len(s) + 1] = b
  BY AppendProperties
<1>4. ASSUME NEW j \in 1..Len(t) PROVE t[j].addr = IF j = 1 THEN HEAP_START ELSE End(t[j - 1])
  <2>0. j \in Nat /\ 1 <= j /\ j <= Len(s) + 1
    BY <1>0, <1>1
  <2>1. CASE j <= Len(s)
    <3>1. j \in 1..Len(s) /\ (j # 1 => j - 1 \in 1..Len(s))
      BY <1>0, <2>0, <2>1
    <3>2. s[j].addr = IF j = 1 THEN HEAP_START ELSE End(s[j - 1])
      BY <3>1 DEF Tiles
    <3> QED
      BY <1>2, <3>1, <3>2
  <2>2. CASE j = Len(s) + 1
    <3>1. j # 1 /\ j - 1 = Len(s) /\ Len(s) \in 1..Len(s)
      BY <1>0, <2>2
    <3>2. End(s[Len(s)]) = end
      BY DEF Tiles
    <3> QED
      BY <1>2, <1>3, <2>2, <3>1, <3>2
  <2> QED
    BY <1>0, <2>0, <2>1, <2>2
<1>5. Tiles(t, End(b))
  BY <1>1, <1>3, <1>4 DEF Tiles
<1>6. ASSUME NEW x \in Used(t) PROVE x \in Used(s)
  <2>1. PICK j \in 1..(Len(s) + 1) : t[j] = x /\ x.used
    BY <1>1, UsedIs
  <2>2. j # Len(s) + 1
    BY <1>3, <2>1
  <2>3. j \in 1..Len(s)
    BY <1>0, <2>2
  <2> QED
    BY <1>2, <2>1, <2>3, UsedIs
<1>7. ASSUME NEW x \in Used(s) PROVE x \in Used(t)
  <2>1. PICK j \in 1..Len(s) : s[j] = x /\ x.used
    BY UsedIs
  <2>2. j \in 1..Len(t)
    BY <1>0, <1>1
  <2> QED
    BY <1>2, <2>1, <2>2, UsedIs
<1> QED
  BY <1>1, <1>3, <1>5, <1>6, <1>7

-----------------------------------------------------------------------------
(* Sizes                                                                     *)

\* Rounding up to a unit.
LEMMA RoundUpIs ==
    ASSUME NEW n \in Nat, NEW u \in Nat \ {0}
    PROVE  RoundUp(n, u) \in Nat /\ RoundUp(n, u) >= n /\ (RoundUp(n, u) \div u) * u = RoundUp(n, u)
                             /\ RoundUp(n, u) \div u \in Nat
<1> DEFINE c == (n + u - 1) \div u
<1>1. c \in Nat /\ c * u >= n
  BY RoundsUp
<1>2. RoundUp(n, u) = c * u
  BY DEF RoundUp
<1> HIDE DEF c
<1>3. c * u \in Nat /\ (c * u) \div u = c
  BY <1>1
<1> QED
  BY <1>1, <1>2, <1>3

\* align_up.
LEMMA AlignUp ==
    ASSUME NEW n \in Nat
    PROVE  align_up(n) \in Nat /\ align_up(n) >= n
  BY HeapAssumption, RoundUpIs DEF align_up

\* The pages of kmalloc_init have room for more than a header.
LEMMA InitPagesIs ==
    /\ InitPages \in Nat /\ InitPages * PAGE_SIZE \in Nat
    /\ InitPages * PAGE_SIZE - HEADER_SIZE \in Nat \ {0}
<1>1. /\ InitBytes \in Nat /\ HEADER_SIZE \in Nat \ {0} /\ ALIGN \in Nat \ {0}
      /\ PAGE_SIZE \in Nat \ {0} /\ InitBytes > HEADER_SIZE + ALIGN
  BY HeapAssumption
<1> DEFINE r == RoundUp(InitBytes, PAGE_SIZE)
<1>2. r \in Nat /\ r >= InitBytes /\ (r \div PAGE_SIZE) * PAGE_SIZE = r /\ r \div PAGE_SIZE \in Nat
  BY <1>1, RoundUpIs
<1>3. InitPages = r \div PAGE_SIZE
  BY DEF InitPages
<1> HIDE DEF r
<1>4. InitPages * PAGE_SIZE = r
  BY <1>2, <1>3
<1> QED
  BY <1>1, <1>2, <1>3, <1>4

\* What expand_heap adds is enough for the block it was called for, although
\* its page count is rounded down.
LEMMA ExtraPagesIs ==
    ASSUME NEW n \in Sizes
    PROVE  /\ n \in Nat \ {0}
           /\ ExtraPages(n) \in Nat /\ ExtraPages(n) * PAGE_SIZE \in Nat
           /\ ExtraPages(n) * PAGE_SIZE - HEADER_SIZE \in Nat \ {0}
           /\ ExtraPages(n) * PAGE_SIZE - HEADER_SIZE >= align_up(n)
<1>1. /\ n \in Nat \ {0} /\ HEADER_SIZE \in Nat \ {0} /\ PAGE_SIZE \in Nat \ {0}
  BY HeapAssumption
<1> DEFINE a == align_up(n)
           x == align_up(a + HEADER_SIZE + PAGE_SIZE)
<1>2. a \in Nat /\ a >= n
  BY <1>1, AlignUp
<1>3. a + HEADER_SIZE + PAGE_SIZE \in Nat
  BY <1>1, <1>2
<1>4. x \in Nat /\ x >= a + HEADER_SIZE + PAGE_SIZE
  BY <1>3, AlignUp
<1>5. ExtraPages(n) = x \div PAGE_SIZE
  BY DEF ExtraPages, ExtraBytes
<1> HIDE DEF a, x
<1>6. x \div PAGE_SIZE \in Nat /\ x - (x \div PAGE_SIZE) * PAGE_SIZE \in 0..(PAGE_SIZE - 1)
  BY <1>1, <1>4, RoundDown
<1>7. (x \div PAGE_SIZE) * PAGE_SIZE \in Nat
  BY <1>1, <1>6
<1>8. (x \div PAGE_SIZE) * PAGE_SIZE - HEADER_SIZE > a
  BY <1>1, <1>2, <1>4, <1>6, <1>7
<1>9. (x \div PAGE_SIZE) * PAGE_SIZE - HEADER_SIZE \in Nat \ {0}
  BY <1>1, <1>2, <1>7, <1>8
<1> QED
  BY <1>1, <1>2, <1>5, <1>6, <1>7, <1>8, <1>9 DEF a

-----------------------------------------------------------------------------
(* The invariant                                                             *)

\* Before kmalloc_init there is no heap.
NoHeap == phase = "boot" =>
    blocks = << >> /\ HEAP_END = HEAP_START /\ retry = 0 /\ held = {}

\* What UsedIsHeld says, of the set of used blocks; and no payload is held
\* twice, which is why kfree of the one leaves the other's block alone.
Holds(r, b) ==
    /\ b.addr + HEADER_SIZE = r.ptr
    /\ r.len <= b.size /\ b.size <= align_up(r.len) + HEADER_SIZE + ALIGN

HeldInv ==
    phase = "up" =>
      /\ blocks # << >>
      /\ \A r \in held : \E b \in Used(blocks) : Holds(r, b)
      /\ \A b \in Used(blocks) : \E r \in held : b.addr + HEADER_SIZE = r.ptr
      /\ \A r, q \in held : r.ptr = q.ptr => r = q

IInv == TypeOK /\ NoHeap /\ Tiling /\ HeldInv /\ RetryFinds

\* The list has the type of the lemmas above, and tiles the heap.
LEMMA ListIs ==
    ASSUME IInv
    PROVE  /\ blocks \in Seq(BlockType) /\ Tiles(blocks, HEAP_END)
           /\ DOMAIN blocks = 1..Len(blocks) /\ Len(blocks) \in Nat
           /\ \A i \in 1..Len(blocks) : blocks[i] \in BlockType
<1>1. blocks \in Seq(BlockType)
  BY DEF IInv, TypeOK, BlockType
<1>2. DOMAIN blocks = 1..Len(blocks) /\ Len(blocks) \in Nat
  BY <1>1, LenProperties
<1>3. Tiles(blocks, HEAP_END)
  BY <1>2 DEF IInv, Tiling, Tiles
<1> QED
  BY <1>1, <1>2, <1>3, ElementOfSeq

\* And back.
LEMMA ListKept ==
    ASSUME blocks' \in Seq(BlockType), Tiles(blocks', HEAP_END'),
           HEAP_END' % PAGE_SIZE = HEAP_START % PAGE_SIZE
    PROVE  Tiling'
<1>1. DOMAIN blocks' = 1..Len(blocks')
  BY LenProperties
<1> QED
  BY <1>1 DEF Tiling, Tiles, End

\* At first.
LEMMA InitIInv == Init => IInv
<1> SUFFICES ASSUME Init PROVE IInv
  OBVIOUS
<1>1. blocks = << >> /\ held = {} /\ HEAP_END = HEAP_START /\ phase = "boot" /\ retry = 0
  BY DEF Init
<1>2. << >> \in Seq([addr : Nat, size : Nat \ {0}, used : BOOLEAN])
  OBVIOUS
<1>3. DOMAIN blocks = {}
  BY <1>1
<1>4. TypeOK
  BY <1>1, <1>2, HeapAssumption DEF TypeOK
<1> QED
  BY <1>1, <1>3, <1>4 DEF IInv, NoHeap, Tiling, HeldInv, RetryFinds

\* kmalloc_init.
LEMMA FirstBlockIInv == ASSUME IInv, FirstBlock PROVE IInv' /\ held' = held /\ HEAP_END' > HEAP_END
<1> DEFINE b == Block(HEAP_START, InitPages * PAGE_SIZE - HEADER_SIZE, FALSE)
<1>1. /\ phase = "boot" /\ phase' = "up" /\ blocks' = <<b>> /\ retry' = retry /\ held' = held
      /\ HEAP_END' = HEAP_START + InitPages * PAGE_SIZE
  BY DEF FirstBlock
<1>2. retry = 0 /\ held = {} /\ HEAP_END = HEAP_START
  BY <1>1 DEF IInv, NoHeap
<1>3. HEAP_START \in Nat /\ HEADER_SIZE \in Nat \ {0} /\ PAGE_SIZE \in Nat \ {0}
  BY HeapAssumption
<1>4. b \in BlockType /\ b.addr = HEAP_START /\ ~ b.used /\ End(b) = HEAP_START + HEADER_SIZE + (InitPages * PAGE_SIZE - HEADER_SIZE)
  BY <1>3, InitPagesIs, BlockIs
<1> HIDE DEF b
<1>5. InitPages * PAGE_SIZE \in Nat /\ InitPages * PAGE_SIZE - HEADER_SIZE \in Nat \ {0} /\ InitPages \in Nat
  BY InitPagesIs
<1>6. End(b) = HEAP_END' /\ HEAP_END' \in Nat /\ HEAP_END' > HEAP_START
  BY <1>1, <1>3, <1>4, <1>5
<1>7. blocks' \in Seq(BlockType) /\ Len(blocks') = 1 /\ blocks'[1] = b /\ blocks' # << >>
  BY <1>1, <1>4
<1>8. Tiles(blocks', HEAP_END')
  BY <1>4, <1>6, <1>7 DEF Tiles
<1>9. HEAP_END' % PAGE_SIZE = HEAP_START % PAGE_SIZE
  BY <1>1, <1>3, <1>5, RemainderKept
<1>10. Tiling'
  BY <1>7, <1>8, <1>9, ListKept
<1>11. Used(blocks') = {}
  BY <1>4, <1>7 DEF Used
<1>12. HeldInv'
  BY <1>1, <1>2, <1>7, <1>11 DEF HeldInv
<1>13. TypeOK'
  BY <1>1, <1>2, <1>6, <1>7 DEF IInv, TypeOK, BlockType
<1> QED
  BY <1>1, <1>2, <1>6, <1>10, <1>12, <1>13 DEF IInv, NoHeap, RetryFinds

\* What kmalloc makes of the block it finds: a used block at the same place, of
\* at least the size asked for and wasting less than could be split off.
LEMMA TakeShape ==
    ASSUME IInv, NEW n \in Sizes, Take(n)
    PROVE  \E i \in 1..Len(blocks), b \in BlockType :
              /\ ~ blocks[i].used /\ b.used /\ b.addr = blocks[i].addr
              /\ n <= b.size /\ b.size <= align_up(n) + HEADER_SIZE + ALIGN
              /\ b.size <= blocks[i].size
              /\ blocks' \in Seq(BlockType) /\ blocks' # << >> /\ Tiles(blocks', HEAP_END)
              /\ Used(blocks') = Used(blocks) \cup {b}
              /\ held' = held \cup {[ptr |-> b.addr + HEADER_SIZE, len |-> n]}
<1>0. /\ blocks \in Seq(BlockType) /\ Tiles(blocks, HEAP_END) /\ DOMAIN blocks = 1..Len(blocks)
      /\ Len(blocks) \in Nat
  BY ListIs
<1>1. PICK i \in DOMAIN blocks :
         /\ FirstFit(i, n)
         /\ blocks' = IF Splits(blocks[i], n) THEN SplitAt(i, n) ELSE [blocks EXCEPT ![i].used = TRUE]
         /\ held' = held \cup {[ptr |-> blocks[i].addr + HEADER_SIZE, len |-> n]}
  BY DEF Take
<1>2. i \in 1..Len(blocks) /\ blocks[i] \in BlockType
  BY <1>0, ListIs
<1>3. ~ blocks[i].used /\ blocks[i].size >= align_up(n)
  BY <1>1 DEF FirstFit, Fits
<1>4. /\ blocks[i].addr \in Nat /\ blocks[i].size \in Nat \ {0}
      /\ End(blocks[i]) = blocks[i].addr + HEADER_SIZE + blocks[i].size
  BY <1>2, EndIs
<1>5. HEADER_SIZE \in Nat \ {0} /\ ALIGN \in Nat \ {0} /\ n \in Nat \ {0}
  BY HeapAssumption
<1>6. align_up(n) \in Nat \ {0} /\ align_up(n) >= n
  BY <1>5, AlignUp
<1>7. CASE Splits(blocks[i], n)
  <2> DEFINE b == Block(blocks[i].addr, align_up(n), TRUE)
             c == Block(blocks[i].addr + HEADER_SIZE + align_up(n),
                        blocks[i].size - align_up(n) - HEADER_SIZE, FALSE)
  <2>1. blocks[i].size > align_up(n) + HEADER_SIZE + ALIGN
    BY <1>7 DEF Splits
  <2>2. blocks[i].size - align_up(n) - HEADER_SIZE \in Nat \ {0}
        /\ blocks[i].addr + HEADER_SIZE + align_up(n) \in Nat
    BY <1>4, <1>5, <1>6, <2>1
  <2>3. /\ b \in BlockType /\ b.addr = blocks[i].addr /\ b.size = align_up(n) /\ b.used
        /\ End(b) = blocks[i].addr + HEADER_SIZE + align_up(n)
    BY <1>4, <1>6, BlockIs
  <2>4. /\ c \in BlockType /\ c.addr = blocks[i].addr + HEADER_SIZE + align_up(n) /\ ~ c.used
        /\ End(c) = blocks[i].addr + HEADER_SIZE + align_up(n) + HEADER_SIZE
                      + (blocks[i].size - align_up(n) - HEADER_SIZE)
    BY <2>2, BlockIs
  <2>5. blocks' = InsertAt(Put(blocks, i, b), i + 1, c)
    BY <1>1, <1>7 DEF SplitAt, Put
  <2> HIDE DEF b, c
  <2>6. c.addr = End(b) /\ End(c) = End(blocks[i])
    BY <1>4, <1>5, <1>6, <2>3, <2>4
  <2>7. /\ blocks' \in Seq(BlockType) /\ Len(blocks') = Len(blocks) + 1 /\ blocks' # << >>
        /\ \A j \in 1..(i - 1) : blocks'[j] = blocks[j]
        /\ blocks'[i] = b /\ blocks'[i + 1] = c
        /\ \A j \in (i + 1)..Len(blocks) : blocks'[j + 1] = blocks[j]
        /\ Tiles(blocks', HEAP_END)
    <3>1. blocks \in Seq(BlockType)
      BY <1>0
    <3>2. Tiles(blocks, HEAP_END)
      BY <1>0
    <3>3. i \in 1..Len(blocks)
      BY <1>2
    <3>4. b \in BlockType
      BY <2>3
    <3>5. c \in BlockType
      BY <2>4
    <3>6. b.addr = blocks[i].addr
      BY <2>3
    <3>7. c.addr = End(b)
      BY <2>6
    <3>8. End(c) = End(blocks[i])
      BY <2>6
    <3> QED
      BY ONLY <2>5, <3>1, <3>2, <3>3, <3>4, <3>5, <3>6, <3>7, <3>8, Cut
  <2>8. i \in 1..Len(blocks')
    BY <1>0, <1>2, <2>7
  <2>9. Used(blocks') = Used(blocks) \cup {b}
    <3>1. blocks \in Seq(BlockType)
      BY <1>0
    <3>2. i \in 1..Len(blocks)
      BY <1>2
    <3>3. ~ blocks[i].used
      BY <1>3
    <3>4. b \in BlockType
      BY <2>3
    <3>5. b.used
      BY <2>3
    <3>6. blocks'[i] = b
      BY <2>7
    <3>7. Len(blocks') = Len(blocks) + 1
      BY <2>7
    <3>8. \A j \in 1..(i - 1) : blocks'[j] = blocks[j]
      BY <2>7
    <3>9. ~ blocks'[i + 1].used
      BY <2>4, <2>7
    <3>10. \A j \in (i + 1)..Len(blocks) : blocks'[j + 1] = blocks[j]
      BY <2>7
    <3> QED
      BY ONLY <2>8, <3>1, <3>2, <3>3, <3>4, <3>5, <3>6, <3>7, <3>8, <3>9, <3>10, UsedAfterCut
  <2>10. align_up(n) <= align_up(n) + HEADER_SIZE + ALIGN /\ align_up(n) <= blocks[i].size
    BY <1>3, <1>4, <1>5, <1>6
  <2>11. /\ b \in BlockType /\ b.used /\ b.addr = blocks[i].addr
         /\ n <= b.size /\ b.size <= align_up(n) + HEADER_SIZE + ALIGN
         /\ b.size <= blocks[i].size
    BY <1>6, <2>3, <2>10
  <2>12. /\ blocks' \in Seq(BlockType) /\ blocks' # << >> /\ Tiles(blocks', HEAP_END)
         /\ held' = held \cup {[ptr |-> b.addr + HEADER_SIZE, len |-> n]}
    BY <1>1, <2>3, <2>7
  <2> QED
    BY <1>2, <1>3, <2>9, <2>11, <2>12
<1>8. CASE ~ Splits(blocks[i], n)
  <2> DEFINE b == Block(blocks[i].addr, blocks[i].size, TRUE)
  <2>1. blocks[i].size <= align_up(n) + HEADER_SIZE + ALIGN
    BY <1>4, <1>5, <1>6, <1>8 DEF Splits
  <2>2. /\ b \in BlockType /\ b.addr = blocks[i].addr /\ b.size = blocks[i].size /\ b.used
        /\ End(b) = blocks[i].addr + HEADER_SIZE + blocks[i].size
    BY <1>4, BlockIs
  <2>3. blocks' = Put(blocks, i, b)
    <3>1. blocks' = [blocks EXCEPT ![i].used = TRUE]
      BY <1>1, <1>8
    <3>2. [blocks[i] EXCEPT !.used = TRUE] = b
      BY <1>2, WithFlag
    <3> QED
      BY <3>1, <3>2 DEF Put
  <2> HIDE DEF b
  <2>4. /\ blocks' \in Seq(BlockType) /\ Len(blocks') = Len(blocks) /\ blocks' # << >>
        /\ \A j \in 1..Len(blocks) : blocks'[j] = IF j = i THEN b ELSE blocks[j]
        /\ Tiles(blocks', HEAP_END)
    <3>1. blocks \in Seq(BlockType)
      BY <1>0
    <3>2. Tiles(blocks, HEAP_END)
      BY <1>0
    <3>3. i \in 1..Len(blocks)
      BY <1>2
    <3>4. b \in BlockType
      BY <2>2
    <3>5. b.addr = blocks[i].addr
      BY <2>2
    <3>6. End(b) = End(blocks[i])
      BY <1>4, <2>2
    <3> QED
      BY ONLY <2>3, <3>1, <3>2, <3>3, <3>4, <3>5, <3>6, Changed
  <2>5. blocks'[i] = b /\ i \in 1..Len(blocks') /\ \A j \in 1..Len(blocks) : j # i => blocks'[j] = blocks[j]
    BY <1>2, <2>4
  <2>6. Used(blocks') = Used(blocks) \cup {b}
    BY <1>0, <1>2, <1>3, <2>2, <2>4, <2>5, UsedAfterTake
  <2>7. n <= blocks[i].size /\ blocks[i].size <= blocks[i].size
    BY <1>3, <1>4, <1>5, <1>6
  <2> QED
    BY <1>1, <1>2, <1>3, <2>1, <2>2, <2>4, <2>6, <2>7
<1> QED
  BY <1>7, <1>8

\* A free block has the address of no used one.
LEMMA FreeIsNotUsed ==
    ASSUME IInv, NEW i \in 1..Len(blocks), ~ blocks[i].used, NEW c \in Used(blocks)
    PROVE  c.addr # blocks[i].addr
<1>1. PICK j \in 1..Len(blocks) : blocks[j] = c /\ c.used
  BY UsedIs
<1>2. blocks \in Seq(BlockType) /\ Tiles(blocks, HEAP_END)
  BY ListIs
<1>3. ASSUME c.addr = blocks[i].addr PROVE FALSE
  <2>1. j = i
    BY <1>1, <1>2, <1>3, AddrUnique
  <2> QED
    BY <1>1, <2>1
<1> QED
  BY <1>3

\* The used blocks are blocks of the list.
LEMMA UsedType == ASSUME IInv, NEW c \in Used(blocks) PROVE c \in BlockType
  BY UsedIs, ListIs

\* kmalloc that finds a block; what it returns was not held before.
LEMMA TakeIInv ==
    ASSUME IInv, NEW n \in Sizes, Take(n)
    PROVE  IInv' /\ HEAP_END' = HEAP_END
<1>1. phase = "up" /\ phase' = phase /\ HEAP_END' = HEAP_END /\ retry' = 0
  BY DEF Take
<1>2. PICK i \in 1..Len(blocks), b \in BlockType :
              /\ ~ blocks[i].used /\ b.used /\ b.addr = blocks[i].addr
              /\ n <= b.size /\ b.size <= align_up(n) + HEADER_SIZE + ALIGN
              /\ b.size <= blocks[i].size
              /\ blocks' \in Seq(BlockType) /\ blocks' # << >> /\ Tiles(blocks', HEAP_END)
              /\ Used(blocks') = Used(blocks) \cup {b}
              /\ held' = held \cup {[ptr |-> b.addr + HEADER_SIZE, len |-> n]}
  BY TakeShape
<1> DEFINE r == [ptr |-> b.addr + HEADER_SIZE, len |-> n]
<1>3. r.ptr = b.addr + HEADER_SIZE /\ r.len = n /\ held' = held \cup {r}
  BY <1>2
<1>4. HEADER_SIZE \in Nat \ {0} /\ b.addr \in Nat
  BY HeapAssumption, EndIs
<1>5. r \in [ptr : Nat, len : Sizes]
  BY <1>4
<1> HIDE DEF r
<1>6. Holds(r, b)
  BY <1>2, <1>3 DEF Holds
<1>7. ASSUME NEW q \in held PROVE q.ptr # r.ptr
  <2>1. PICK c \in Used(blocks) : c.addr + HEADER_SIZE = q.ptr
    BY <1>1 DEF IInv, HeldInv, Holds
  <2>2. c.addr # b.addr
    BY <1>2, FreeIsNotUsed
  <2>3. c.addr \in Nat
    BY UsedType, EndIs
  <2> QED
    BY <1>3, <1>4, <2>1, <2>2, <2>3
<1>8. HeldInv'
  <2>1. \A q \in held' : \E c \in Used(blocks') : Holds(q, c)
    BY <1>1, <1>2, <1>3, <1>6 DEF IInv, HeldInv
  <2>2. \A c \in Used(blocks') : \E q \in held' : c.addr + HEADER_SIZE = q.ptr
    BY <1>1, <1>2, <1>3 DEF IInv, HeldInv
  <2>3. \A q, p \in held' : q.ptr = p.ptr => q = p
    BY <1>1, <1>3, <1>7 DEF IInv, HeldInv
  <2> QED
    BY <1>2, <2>1, <2>2, <2>3 DEF HeldInv, Holds
<1>9. TypeOK'
  BY <1>1, <1>2, <1>3, <1>5 DEF IInv, TypeOK, BlockType
<1>10. Tiling'
  BY <1>1, <1>2, ListKept DEF IInv, Tiling
<1> QED
  BY <1>1, <1>8, <1>9, <1>10 DEF IInv, NoHeap, RetryFinds

\* An expansion: the new block is free, at the end, and large enough.
LEMMA ExtendIInv ==
    ASSUME IInv, NEW n \in Sizes, Extend(n)
    PROVE  IInv' /\ held' = held /\ HEAP_END' > HEAP_END
<1> DEFINE size == ExtraPages(n) * PAGE_SIZE
           b == Block(HEAP_END, size - HEADER_SIZE, FALSE)
<1>1. /\ phase = "up" /\ phase' = phase /\ held' = held /\ retry' = n
      /\ blocks' = Append(blocks, b) /\ HEAP_END' = HEAP_END + size
  BY DEF Extend, Exhausted
<1>2. size \in Nat /\ size - HEADER_SIZE \in Nat \ {0} /\ size - HEADER_SIZE >= align_up(n) /\ ExtraPages(n) \in Nat
      /\ n \in Nat \ {0}
  BY ExtraPagesIs
<1>3. HEAP_END \in Nat /\ HEADER_SIZE \in Nat \ {0} /\ PAGE_SIZE \in Nat \ {0}
  BY HeapAssumption DEF IInv, TypeOK
<1>4. HEAP_END' % PAGE_SIZE = HEAP_END % PAGE_SIZE
  BY <1>1, <1>2, <1>3, RemainderKept
<1> HIDE DEF size
<1>5. /\ b \in BlockType /\ b.addr = HEAP_END /\ b.size = size - HEADER_SIZE /\ ~ b.used
      /\ End(b) = HEAP_END + HEADER_SIZE + (size - HEADER_SIZE)
  <2> DEFINE m == size - HEADER_SIZE
  <2>1. HEAP_END \in Nat /\ m \in Nat \ {0} /\ FALSE \in BOOLEAN
    BY <1>2, <1>3
  <2> HIDE DEF m
  <2>2. LET c == Block(HEAP_END, m, FALSE) IN
        /\ c \in BlockType /\ c.addr = HEAP_END /\ c.size = m /\ c.used = FALSE
        /\ End(c) = HEAP_END + HEADER_SIZE + m
    BY <2>1, BlockIs
  <2> QED
    BY <2>2 DEF m
<1> HIDE DEF b
<1>6. End(b) = HEAP_END' /\ HEAP_END' \in Nat /\ HEAP_END' > HEAP_END
  BY <1>1, <1>2, <1>3, <1>5
<1>7. blocks # << >>
  BY <1>1 DEF IInv, HeldInv
<1>8. blocks \in Seq(BlockType) /\ Tiles(blocks, HEAP_END)
  BY ListIs
<1>9. /\ blocks' \in Seq(BlockType) /\ blocks' # << >> /\ blocks'[Len(blocks')] = b
      /\ Tiles(blocks', End(b)) /\ Used(blocks') = Used(blocks)
  BY <1>1, <1>5, <1>7, <1>8, Appended
<1>10. Tiling'
  BY <1>4, <1>6, <1>9, ListKept DEF IInv, Tiling
<1>11. HeldInv'
  BY <1>1, <1>9 DEF IInv, HeldInv, Holds
<1>12. TypeOK'
  BY <1>1, <1>6, <1>9 DEF IInv, TypeOK, BlockType
<1>13. RetryFinds'
  <2>1. Len(blocks') \in DOMAIN blocks'
    BY <1>9, LenProperties, EmptySeq
  <2>2. Fits(b, n)
    BY <1>2, <1>5 DEF Fits
  <2> QED
    BY <1>1, <1>9, <2>1, <2>2 DEF RetryFinds, Fits
<1> QED
  BY <1>1, <1>6, <1>10, <1>11, <1>12, <1>13 DEF IInv, NoHeap

\* coalesce of a block that is free.
LEMMA Coalesced ==
    ASSUME NEW u \in Seq(BlockType), NEW end, Tiles(u, end), NEW i \in 1..Len(u), ~ u[i].used,
           NEW t, t = coalesce(u, i)
    PROVE  /\ t \in Seq(BlockType) /\ t # << >> /\ Tiles(t, end)
           /\ Used(t) = Used(u)
<1>0. Len(u) \in Nat /\ i \in Nat /\ 1 <= i /\ i <= Len(u)
  BY LenProperties
<1>1. CASE ~ (i < Len(u) /\ ~ u[i + 1].used)
  <2>1. t = u
    BY <1>1 DEF coalesce
  <2>2. u # << >>
    BY <1>0, EmptySeq
  <2> QED
    BY <2>1, <2>2
<1>2. CASE i < Len(u) /\ ~ u[i + 1].used
  <2>1. i + 1 \in 1..Len(u) /\ i + 1 # 1 /\ (i + 1) - 1 = i
    BY <1>0, <1>2
  <2>2. u[i] \in BlockType /\ u[i + 1] \in BlockType
    BY <2>1, ElementOfSeq
  <2>3. u[i + 1].addr = End(u[i])
    BY <2>1 DEF Tiles
  <2> DEFINE n == u[i].size + HEADER_SIZE + u[i + 1].size
             d == Block(u[i].addr, n, u[i].used)
  <2>4. /\ u[i].addr \in Nat /\ u[i].size \in Nat \ {0} /\ u[i].used \in BOOLEAN
        /\ End(u[i]) = u[i].addr + HEADER_SIZE + u[i].size
    BY <2>2, EndIs
  <2>5. /\ u[i + 1].addr \in Nat /\ u[i + 1].size \in Nat \ {0}
        /\ End(u[i + 1]) = u[i + 1].addr + HEADER_SIZE + u[i + 1].size
    BY <2>2, EndIs
  <2>6. HEADER_SIZE \in Nat \ {0}
    BY HeapAssumption
  <2>7. n \in Nat \ {0}
    <3>1. u[i].size \in Nat \ {0} /\ u[i + 1].size \in Nat \ {0}
      BY <2>4, <2>5
    <3> QED
      BY ONLY <2>6, <3>1
  <2>8. t = RemoveAt([u EXCEPT ![i].size = n], i + 1)
    BY <1>2 DEF coalesce
  <2>9. u[i].addr + HEADER_SIZE + n = End(u[i + 1])
    <3>1. u[i + 1].addr = u[i].addr + HEADER_SIZE + u[i].size
      BY <2>3, <2>4
    <3>2. /\ u[i].addr \in Nat /\ u[i].size \in Nat /\ HEADER_SIZE \in Nat
          /\ u[i + 1].size \in Nat
      BY <2>4, <2>5, <2>6
    <3>3. u[i].addr + HEADER_SIZE + (u[i].size + HEADER_SIZE + u[i + 1].size)
            = u[i].addr + HEADER_SIZE + u[i].size + HEADER_SIZE + u[i + 1].size
      <4>1. \A x, y, z, w \in Nat : x + y + (z + y + w) = x + y + z + y + w
        OBVIOUS
      <4> DEFINE x == u[i].addr
                 z == u[i].size
                 w == u[i + 1].size
      <4>2. x \in Nat /\ z \in Nat /\ w \in Nat /\ HEADER_SIZE \in Nat
        BY <3>2
      <4> HIDE DEF x, z, w
      <4>3. x + HEADER_SIZE + (z + HEADER_SIZE + w) = x + HEADER_SIZE + z + HEADER_SIZE + w
        BY <4>1, <4>2
      <4> QED
        BY <4>3 DEF x, z, w
    <3>4. End(u[i + 1]) = u[i].addr + HEADER_SIZE + u[i].size + HEADER_SIZE + u[i + 1].size
      BY <2>5, <3>1
    <3> QED
      BY <3>3, <3>4
  <2> HIDE DEF n
  <2>10. [u[i] EXCEPT !.size = n] = d
    BY <2>2, <2>7, WithSize
  <2>11. t = RemoveAt(Put(u, i, d), i + 1)
    BY <2>8, <2>10 DEF Put
  <2>12. /\ d \in BlockType /\ d.addr = u[i].addr /\ d.used = u[i].used
         /\ End(d) = u[i].addr + HEADER_SIZE + n
    BY <2>4, <2>7, BlockIs
  <2> HIDE DEF d
  <2>13. d \in BlockType
    BY <2>12
  <2>14. d.addr = u[i].addr
    BY <2>12
  <2>15. End(d) = End(u[i + 1])
    BY <2>9, <2>12
  <2>16. i < Len(u)
    BY <1>2
  <2>17. /\ t \in Seq(BlockType) /\ Len(t) = Len(u) - 1 /\ t # << >>
         /\ \A j \in 1..(i - 1) : t[j] = u[j]
         /\ t[i] = d
         /\ \A j \in (i + 2)..Len(u) : t[j - 1] = u[j]
         /\ Tiles(t, end)
    BY ONLY u \in Seq(BlockType), Tiles(u, end), i \in 1..Len(u),
            <2>11, <2>13, <2>14, <2>15, <2>16, Joined
  <2>18. ~ t[i].used
    BY <2>12, <2>17
  <2>19. ~ u[i + 1].used
    BY <1>2
  <2>20. Len(t) = Len(u) - 1
    BY <2>17
  <2>21. \A j \in 1..(i - 1) : t[j] = u[j]
    BY <2>17
  <2>22. \A j \in (i + 2)..Len(u) : t[j - 1] = u[j]
    BY <2>17
  <2>23. Used(t) = Used(u)
    BY ONLY u \in Seq(BlockType), i \in 1..Len(u), ~ u[i].used,
            <2>16, <2>18, <2>19, <2>20, <2>21, <2>22, UsedAfterJoin
  <2> QED
    BY <2>17, <2>23
<1> QED
  BY <1>1, <1>2

\* kfree finds the block of the pointer, in use; freeing and merging it takes
\* it, and no other, out of the used ones.
LEMMA FreeShape ==
    ASSUME IInv, NEW r \in held, kfree(r)
    PROVE  /\ phase = "up" /\ phase' = phase /\ held' = held \ {r}
           /\ HEAP_END' = HEAP_END /\ retry' = retry /\ retry = 0
           /\ blocks' \in Seq(BlockType) /\ blocks' # << >> /\ Tiles(blocks', HEAP_END)
           /\ \E b \in Used(blocks) :
                 b.addr + HEADER_SIZE = r.ptr /\ Used(blocks') = Used(blocks) \ {b}
<1>0. /\ blocks \in Seq(BlockType) /\ Tiles(blocks, HEAP_END) /\ DOMAIN blocks = 1..Len(blocks)
      /\ Len(blocks) \in Nat /\ \A j \in 1..Len(blocks) : blocks[j] \in BlockType
  BY ListIs
<1>1. phase = "up" /\ retry = 0 /\ held' = held \ {r} /\ HEAP_END' = HEAP_END /\ retry' = retry
  BY DEF kfree
<1>2. PICK b \in Used(blocks) : Holds(r, b)
  BY <1>1 DEF IInv, HeldInv
<1>3. PICK k \in 1..Len(blocks) : blocks[k] = b /\ b.used
  BY UsedIs
<1>4. b.addr + HEADER_SIZE = r.ptr
  BY <1>2 DEF Holds
<1>5. \E j \in DOMAIN blocks : blocks[j].addr + HEADER_SIZE = r.ptr /\ blocks[j].used
  BY <1>0, <1>3, <1>4
<1>6. /\ phase' = phase
      /\ \E j \in DOMAIN blocks : /\ blocks[j].addr + HEADER_SIZE = r.ptr
                                  /\ blocks' = coalesce([blocks EXCEPT ![j].used = FALSE], j)
  BY <1>5 DEF kfree
<1>7. PICK i \in 1..Len(blocks) : /\ blocks[i].addr + HEADER_SIZE = r.ptr
                                 /\ blocks' = coalesce([blocks EXCEPT ![i].used = FALSE], i)
  BY <1>0, <1>6
<1>8. blocks[i] = b
  <2>1. /\ blocks[i].addr \in Nat /\ blocks[k].addr \in Nat /\ HEADER_SIZE \in Nat
    BY <1>0, EndIs, HeapAssumption
  <2>2. blocks[i].addr = blocks[k].addr
    BY <1>3, <1>4, <1>7, <2>1
  <2>3. i = k
    BY <1>0, <2>2, AddrUnique
  <2> QED
    BY <1>3, <2>3
<1> DEFINE c == Block(b.addr, b.size, FALSE)
           u == Put(blocks, i, c)
<1>9. b \in BlockType
  BY <1>0, <1>8
<1>10. /\ b.addr \in Nat /\ b.size \in Nat \ {0} /\ End(b) = b.addr + HEADER_SIZE + b.size
  BY <1>9, EndIs
<1>11. /\ c \in BlockType /\ c.addr = b.addr /\ ~ c.used /\ End(c) = b.addr + HEADER_SIZE + b.size
  BY <1>10, BlockIs
<1>12. blocks' = coalesce(u, i)
  <2>1. [blocks[i] EXCEPT !.used = FALSE] = c
    BY <1>8, <1>9, WithFlag
  <2>2. [blocks EXCEPT ![i].used = FALSE] = u
    BY <2>1 DEF Put
  <2> QED
    BY <1>7, <2>2
<1> HIDE DEF c
<1>13. c.addr = blocks[i].addr
  BY <1>8, <1>11
<1>14. End(c) = End(blocks[i])
  BY <1>8, <1>10, <1>11
<1>15. u = Put(blocks, i, c)
  OBVIOUS
<1> HIDE DEF u
<1>16. blocks \in Seq(BlockType)
  BY <1>0
<1>17. Tiles(blocks, HEAP_END)
  BY <1>0
<1>18. c \in BlockType
  BY <1>11
<1>19. /\ u \in Seq(BlockType) /\ Len(u) = Len(blocks) /\ u # << >>
       /\ \A j \in 1..Len(blocks) : u[j] = IF j = i THEN c ELSE blocks[j]
       /\ Tiles(u, HEAP_END)
  BY ONLY i \in 1..Len(blocks), <1>13, <1>14, <1>15, <1>16, <1>17, <1>18, Changed
<1>20. ~ u[i].used
  BY <1>11, <1>19
<1>21. Used(u) = Used(blocks) \ {blocks[i]}
  <2>1. \A j \in 1..Len(blocks) : j # i => blocks[j] # blocks[i]
    BY <1>16, <1>17, AddrUnique
  <2>2. Len(u) = Len(blocks)
    BY <1>19
  <2>3. \A j \in 1..Len(blocks) : j # i => u[j] = blocks[j]
    BY <1>19
  <2> QED
    BY ONLY i \in 1..Len(blocks), <1>16, <1>20, <2>1, <2>2, <2>3, UsedAfterFree
<1>22. /\ blocks' \in Seq(BlockType) /\ blocks' # << >> /\ Tiles(blocks', HEAP_END)
       /\ Used(blocks') = Used(u)
  <2>1. u \in Seq(BlockType)
    BY <1>19
  <2>2. Tiles(u, HEAP_END)
    BY <1>19
  <2>3. i \in 1..Len(u)
    BY <1>19
  <2> QED
    BY ONLY <1>12, <1>20, <2>1, <2>2, <2>3, Coalesced
<1> QED
  BY <1>1, <1>4, <1>6, <1>8, <1>21, <1>22

\* kfree.
LEMMA FreeIInv ==
    ASSUME IInv, NEW r \in held, kfree(r)
    PROVE  IInv'
<1>1. /\ phase = "up" /\ phase' = phase /\ held' = held \ {r}
      /\ HEAP_END' = HEAP_END /\ retry' = retry /\ retry = 0
      /\ blocks' \in Seq(BlockType) /\ blocks' # << >> /\ Tiles(blocks', HEAP_END)
  BY FreeShape
<1>2. PICK b \in Used(blocks) :
        b.addr + HEADER_SIZE = r.ptr /\ Used(blocks') = Used(blocks) \ {b}
  BY FreeShape
<1>3. HeldInv'
  <2>1. ASSUME NEW q \in held' PROVE \E c \in Used(blocks') : Holds(q, c)
    <3>1. q \in held /\ q # r
      BY <1>1
    <3>2. q.ptr # r.ptr
      BY <1>1, <3>1 DEF IInv, HeldInv
    <3>3. PICK c \in Used(blocks) : Holds(q, c)
      BY <1>1, <3>1 DEF IInv, HeldInv
    <3>4. c # b
      BY <1>2, <3>2, <3>3 DEF Holds
    <3> QED
      BY <1>2, <3>3, <3>4
  <2>2. ASSUME NEW c \in Used(blocks') PROVE \E q \in held' : c.addr + HEADER_SIZE = q.ptr
    <3>1. c \in Used(blocks) /\ c # b
      BY <1>2
    <3>2. PICK q \in held : c.addr + HEADER_SIZE = q.ptr
      BY <1>1, <3>1 DEF IInv, HeldInv
    <3>3. c.addr # b.addr
      <4>1. PICK j \in 1..Len(blocks) : blocks[j] = c
        BY <3>1, UsedIs
      <4>2. PICK k \in 1..Len(blocks) : blocks[k] = b
        BY UsedIs
      <4>3. j # k
        BY <3>1, <4>1, <4>2
      <4>4. blocks \in Seq(BlockType) /\ Tiles(blocks, HEAP_END)
        BY ListIs
      <4> QED
        BY <4>1, <4>2, <4>3, <4>4, AddrUnique
    <3>4. c.addr \in Nat /\ b.addr \in Nat /\ HEADER_SIZE \in Nat
      BY <3>1, UsedType, EndIs, HeapAssumption
    <3>5. q # r
      BY <1>2, <3>2, <3>3, <3>4
    <3> QED
      BY <1>1, <3>2, <3>5
  <2>3. \A p, q \in held' : p.ptr = q.ptr => p = q
    BY <1>1 DEF IInv, HeldInv
  <2> QED
    BY <1>1, <2>1, <2>2, <2>3 DEF HeldInv, Holds
<1>4. TypeOK'
  BY <1>1 DEF IInv, TypeOK, BlockType
<1>5. Tiling'
  BY <1>1, ListKept DEF IInv, Tiling
<1> QED
  BY <1>1, <1>3, <1>4, <1>5 DEF IInv, NoHeap, RetryFinds

\* A panic changes nothing but the phase.
LEMMA PanicIInv ==
    ASSUME IInv, OutOfPages \/ \E n \in Sizes : TooLarge(n)
    PROVE  IInv'
<1>1. /\ phase' = "panic" /\ blocks' = blocks /\ HEAP_END' = HEAP_END
      /\ retry' = retry /\ held' = held
  BY DEF OutOfPages, TooLarge
<1>2. TypeOK'
  BY <1>1 DEF IInv, TypeOK
<1>3. Tiling'
  BY <1>1 DEF IInv, Tiling, End
<1> QED
  BY <1>1, <1>2, <1>3 DEF IInv, NoHeap, HeldInv, RetryFinds

\* The disjuncts of Next.
LEMMA NextIs ==
    ASSUME Next
    PROVE  \/ FirstBlock
           \/ OutOfPages \/ \E n \in Sizes : TooLarge(n)
           \/ \E n \in Sizes : Take(n)
           \/ \E n \in Sizes : Extend(n)
           \/ \E r \in held : kfree(r)
  BY DEF Next, kmalloc_init, kmalloc, expand_heap

\* A step that changes nothing.
LEMMA StutterIInv == ASSUME IInv, UNCHANGED vars PROVE IInv'
<1>1. /\ phase' = phase /\ blocks' = blocks /\ HEAP_END' = HEAP_END
      /\ retry' = retry /\ held' = held
  BY DEF vars
<1>2. TypeOK'
  BY <1>1 DEF IInv, TypeOK
<1>3. Tiling'
  BY <1>1 DEF IInv, Tiling, End
<1>4. HeldInv'
  BY <1>1 DEF IInv, HeldInv, Holds
<1>5. RetryFinds'
  BY <1>1 DEF IInv, RetryFinds, Fits
<1> QED
  BY <1>1, <1>2, <1>3, <1>4, <1>5 DEF IInv, NoHeap

-----------------------------------------------------------------------------
(* Theorems                                                                  *)

\* The inductive invariant holds in every state.
THEOREM HeapInvariance == Spec => []IInv
<1>1. Init => IInv
  BY InitIInv
<1>2. IInv /\ [Next]_vars => IInv'
  <2> SUFFICES ASSUME IInv, [Next]_vars PROVE IInv'
    OBVIOUS
  <2>1. CASE FirstBlock
    BY <2>1, FirstBlockIInv
  <2>2. CASE OutOfPages \/ \E n \in Sizes : TooLarge(n)
    BY <2>2, PanicIInv
  <2>3. CASE \E n \in Sizes : Take(n)
    BY <2>3, TakeIInv
  <2>4. CASE \E n \in Sizes : Extend(n)
    BY <2>4, ExtendIInv
  <2>5. CASE \E r \in held : kfree(r)
    BY <2>5, FreeIInv
  <2>6. CASE UNCHANGED vars
    BY <2>6, StutterIInv
  <2> QED
    BY <2>1, <2>2, <2>3, <2>4, <2>5, <2>6, NextIs
<1> QED
  BY <1>1, <1>2, PTL DEF Spec

\* The headers and statics of heap.rs keep their types.
THEOREM HeapTypes == Spec => []TypeOK
<1>1. IInv => TypeOK
  BY DEF IInv
<1> QED
  BY <1>1, HeapInvariance, PTL

\* The blocks, headers included, tile the heap: a split, a merge or an
\* expansion loses no byte and overlaps nothing.
THEOREM BlocksTile == Spec => []Tiling
<1>1. IInv => Tiling
  BY DEF IInv
<1> QED
  BY <1>1, HeapInvariance, PTL

\* kmalloc's recursion is one call deep: what expand_heap adds is enough,
\* although its page count is rounded down.
THEOREM OneExpansionEnough == Spec => []RetryFinds
<1>1. IInv => RetryFinds
  BY DEF IInv
<1> QED
  BY <1>1, HeapInvariance, PTL

\* The used blocks are those whose payload a caller holds, and large enough.
THEOREM UsedMatchesHeld == Spec => []UsedIsHeld
<1>1. ASSUME IInv PROVE UsedIsHeld
  <2> SUFFICES ASSUME phase = "up" PROVE UsedIsHeld
    BY DEF UsedIsHeld
  <2>1. DOMAIN blocks = 1..Len(blocks)
    BY <1>1, ListIs
  <2>2. ASSUME NEW r \in held
        PROVE  \E i \in DOMAIN blocks :
                 /\ blocks[i].used /\ blocks[i].addr + HEADER_SIZE = r.ptr
                 /\ r.len <= blocks[i].size
                 /\ blocks[i].size <= align_up(r.len) + HEADER_SIZE + ALIGN
    <3>1. PICK b \in Used(blocks) : Holds(r, b)
      BY <1>1 DEF IInv, HeldInv
    <3>2. PICK i \in 1..Len(blocks) : blocks[i] = b /\ b.used
      BY UsedIs
    <3> QED
      BY <2>1, <3>1, <3>2 DEF Holds
  <2>3. ASSUME NEW i \in DOMAIN blocks, blocks[i].used
        PROVE  \E r \in held : blocks[i].addr + HEADER_SIZE = r.ptr
    <3>1. blocks[i] \in Used(blocks)
      BY <2>1, <2>3, UsedIs
    <3> QED
      BY <1>1, <3>1 DEF IInv, HeldInv
  <2> QED
    BY <2>2, <2>3 DEF UsedIsHeld
<1> QED
  BY <1>1, HeapInvariance, PTL

\* The assertion of kfree on the magic number never fails for a pointer that
\* is held: no split or merge of other blocks disturbs its header.
THEOREM KfreeNeverPanics == Spec => [][\A r \in held : kfree(r) => phase' = phase]_vars
<1>1. IInv => \A r \in held : kfree(r) => phase' = phase
  BY FreeShape
<1> QED
  BY <1>1, HeapInvariance, PTL DEF Spec

\* What kmalloc returns lies in the heap and overlaps no block that is held.
LEMMA TakeAllocates == ASSUME IInv, NEW n \in Sizes, Take(n) PROVE Allocator!Alloc(n)
<1>0. phase = "up" /\ HEAP_END' = HEAP_END
  BY DEF Take
<1>1. PICK i \in 1..Len(blocks), b \in BlockType :
              /\ ~ blocks[i].used /\ b.used /\ b.addr = blocks[i].addr
              /\ n <= b.size /\ b.size <= align_up(n) + HEADER_SIZE + ALIGN
              /\ b.size <= blocks[i].size
              /\ blocks' \in Seq(BlockType) /\ blocks' # << >> /\ Tiles(blocks', HEAP_END)
              /\ Used(blocks') = Used(blocks) \cup {b}
              /\ held' = held \cup {[ptr |-> b.addr + HEADER_SIZE, len |-> n]}
  BY TakeShape
<1> DEFINE r == [ptr |-> b.addr + HEADER_SIZE, len |-> n]
<1>2. r.ptr = b.addr + HEADER_SIZE /\ r.len = n /\ held' = held \cup {r}
  BY <1>1
<1> HIDE DEF r
<1>3. /\ blocks \in Seq(BlockType) /\ Tiles(blocks, HEAP_END) /\ Len(blocks) \in Nat
      /\ \A j \in 1..Len(blocks) : blocks[j] \in BlockType
  BY ListIs
<1>4. /\ n \in Nat \ {0} /\ HEADER_SIZE \in Nat \ {0} /\ HEAP_START \in Nat
      /\ HEAP_END \in Nat
  BY HeapAssumption DEF IInv, TypeOK
<1>5. /\ blocks[i].addr \in Nat /\ blocks[i].size \in Nat
      /\ End(blocks[i]) = blocks[i].addr + HEADER_SIZE + blocks[i].size
      /\ b.size \in Nat
  BY <1>3, EndIs
<1>6. HEAP_START <= blocks[i].addr /\ End(blocks[i]) <= HEAP_END
  BY <1>3, Ordered
<1>7. r.ptr \in Nat /\ blocks[i].addr < r.ptr /\ r.ptr + n <= End(blocks[i])
  BY <1>1, <1>2, <1>4, <1>5
<1>8. ASSUME NEW q \in held
      PROVE  /\ q.ptr \in Nat /\ q.len \in Nat \ {0}
             /\ q.ptr + q.len <= r.ptr \/ r.ptr + n <= q.ptr
  <2>1. PICK c \in Used(blocks) : Holds(q, c)
    BY <1>0 DEF IInv, HeldInv
  <2>2. PICK j \in 1..Len(blocks) : blocks[j] = c /\ c.used
    BY UsedIs
  <2>3. c \in BlockType
    BY <1>3, <2>2
  <2>4. c.addr \in Nat /\ c.size \in Nat /\ End(c) = c.addr + HEADER_SIZE + c.size
    BY <2>3, EndIs
  <2>5. q.ptr \in Nat /\ q.len \in Nat \ {0}
    BY HeapAssumption DEF IInv, TypeOK
  <2>6. q.ptr = c.addr + HEADER_SIZE /\ q.len <= c.size
    BY <2>1 DEF Holds
  <2>7. j # i
    BY <1>1, <2>2
  <2>8. CASE j < i
    <3>1. i \in (j + 1)..Len(blocks)
      BY <1>3, <2>8
    <3>2. End(c) <= blocks[i].addr
      BY <1>3, <2>2, <3>1, Ordered
    <3>3. q.ptr + q.len <= End(c)
      BY <1>4, <2>4, <2>5, <2>6
    <3>4. End(c) \in Nat /\ q.ptr + q.len \in Nat
      <4> DEFINE a == c.addr
                 z == c.size
                 x == q.ptr
                 y == q.len
      <4>1. HEADER_SIZE \in Nat /\ a \in Nat /\ z \in Nat /\ x \in Nat /\ y \in Nat
        BY <1>4, <2>4, <2>5
      <4>2. End(c) = a + HEADER_SIZE + z
        BY <2>4
      <4> HIDE DEF a, z, x, y
      <4>3. a + HEADER_SIZE + z \in Nat /\ x + y \in Nat
        BY ONLY <4>1
      <4> QED
        BY <4>2, <4>3 DEF x, y
    <3>5. blocks[i].addr \in Nat
      BY <1>5
    <3>6. q.ptr + q.len <= r.ptr
      BY ONLY <1>7, <3>2, <3>3, <3>4, <3>5
    <3> QED
      BY <2>5, <3>6
  <2>9. CASE j > i
    <3>1. j \in (i + 1)..Len(blocks)
      BY <1>3, <2>9
    <3>2. End(blocks[i]) <= c.addr
      BY <1>3, <2>2, <3>1, Ordered
    <3>3. c.addr < q.ptr
      BY <1>4, <2>4, <2>6
    <3>4. End(blocks[i]) \in Nat
      BY <1>4, <1>5
    <3>5. r.ptr + n <= q.ptr
      BY ONLY <1>4, <1>7, <2>4, <2>5, <3>2, <3>3, <3>4
    <3> QED
      BY <2>5, <3>5
  <2> QED
    BY <1>3, <2>5, <2>7, <2>8, <2>9
<1>9. \A q \in held : Allocator!Bytes(q) \cap Allocator!Bytes(r) = {}
  <2> SUFFICES ASSUME NEW q \in held, NEW x \in Allocator!Bytes(q), x \in Allocator!Bytes(r)
               PROVE  FALSE
    OBVIOUS
  <2>1. x \in q.ptr..(q.ptr + q.len - 1) /\ x \in r.ptr..(r.ptr + n - 1)
    BY <1>2 DEF Allocator!Bytes
  <2>2. /\ q.ptr \in Nat /\ q.len \in Nat /\ r.ptr \in Nat /\ n \in Nat
        /\ q.ptr + q.len <= r.ptr \/ r.ptr + n <= q.ptr
    BY <1>4, <1>7, <1>8
  <2> QED
    BY ONLY <2>1, <2>2
<1>10. r \notin held
  <2> SUFFICES ASSUME r \in held PROVE FALSE
    OBVIOUS
  <2>1. r.ptr + r.len <= r.ptr \/ r.ptr + n <= r.ptr
    BY <1>8
  <2> QED
    BY <1>2, <1>4, <1>7, <2>1
<1>11. r \in held' \ held
  BY <1>2, <1>10
<1>12. HEAP_START <= r.ptr /\ r.ptr + n <= HEAP_END
  BY <1>4, <1>5, <1>6, <1>7
<1> QED
  BY <1>0, <1>2, <1>9, <1>11, <1>12 DEF Allocator!Alloc

\* The heap implements BlockAllocator: its memory only grows, kmalloc returns
\* memory in it that overlaps nothing held, and kfree takes back one pointer.
THEOREM HeapImplementsAllocator == Spec => ImplementsAllocator
<1>1. Init => Allocator!Init
  BY DEF Init, Allocator!Init
<1>2. IInv /\ [Next]_vars => [Allocator!Next]_(Allocator!vars)
  <2> SUFFICES ASSUME IInv, [Next]_vars PROVE [Allocator!Next]_(Allocator!vars)
    OBVIOUS
  <2>1. CASE FirstBlock
    BY <2>1, FirstBlockIInv DEF Allocator!Next, Allocator!Grow
  <2>2. CASE OutOfPages \/ \E n \in Sizes : TooLarge(n)
    BY <2>2 DEF OutOfPages, TooLarge, Allocator!vars
  <2>3. CASE \E n \in Sizes : Take(n)
    BY <2>3, TakeAllocates DEF Allocator!Next
  <2>4. CASE \E n \in Sizes : Extend(n)
    BY <2>4, ExtendIInv DEF Allocator!Next, Allocator!Grow
  <2>5. CASE \E r \in held : kfree(r)
    <3>1. PICK r \in held : kfree(r)
      BY <2>5
    <3>2. held' = held \ {r} /\ HEAP_END' = HEAP_END
      BY <3>1, FreeShape
    <3> QED
      BY <3>2 DEF Allocator!Next, Allocator!Free
  <2>6. CASE UNCHANGED vars
    BY <2>6 DEF vars, Allocator!vars
  <2> QED
    BY <2>1, <2>2, <2>3, <2>4, <2>5, <2>6, NextIs
<1> QED
  BY <1>1, <1>2, HeapInvariance, PTL DEF Spec, ImplementsAllocator, Allocator!Spec
=============================================================================
