--------------------------- MODULE KeyboardProofs ---------------------------
(***************************************************************************)
(* The keyboard buffer, for every size, every set of keys and whatever the *)
(* keyboard sends: the ring with its two indices is the queue KeyQueue     *)
(* that loses the newest.                                                  *)
(***************************************************************************)
EXTENDS Keyboard, SequenceTheorems, TLAPS

-----------------------------------------------------------------------------
(* The ring's indices                                                        *)

\* Indices wrap around at BUF_SIZE, those below zero included.
LEMMA Wraps ==
    /\ \A x \in 0..(BUF_SIZE - 1) : x % BUF_SIZE = x
    /\ \A x \in BUF_SIZE..(2 * BUF_SIZE - 1) : x % BUF_SIZE = x - BUF_SIZE
    /\ \A x \in (1 - BUF_SIZE)..(-1) : x % BUF_SIZE = x + BUF_SIZE
<1>1. BUF_SIZE \in Nat \ {0}
  BY KeyboardAssumption
<1>2. \A x \in 0..(BUF_SIZE - 1) : x % BUF_SIZE = x
  BY <1>1
<1>3. \A x \in BUF_SIZE..(2 * BUF_SIZE - 1) : x % BUF_SIZE = x - BUF_SIZE
  BY <1>1
<1>4. \A x \in (1 - BUF_SIZE)..(-1) : x % BUF_SIZE = x + BUF_SIZE
  BY <1>1
<1> QED
  BY <1>2, <1>3, <1>4

\* How many characters wait when the indices are h and t, and the slot of the
\* i-th of them.
Count(h, t) == IF h >= t THEN h - t ELSE h - t + BUF_SIZE
At(t, i) == IF t + i - 1 < BUF_SIZE THEN t + i - 1 ELSE t + i - 1 - BUF_SIZE

\* The next index.
Succ(x) == IF x + 1 < BUF_SIZE THEN x + 1 ELSE 0

\* The remainders of the code are these numbers.
LEMMA RingIndices ==
    ASSUME NEW h \in Slots, NEW t \in Slots
    PROVE  /\ (h - t) % BUF_SIZE = Count(h, t)
           /\ (h + 1) % BUF_SIZE = Succ(h)
           /\ Count(h, t) \in 0..(BUF_SIZE - 1)
           /\ Succ(h) \in Slots
           /\ \A i \in 1..Count(h, t) : (t + i - 1) % BUF_SIZE = At(t, i) /\ At(t, i) \in Slots
<1>1. BUF_SIZE \in Nat \ {0} /\ h \in 0..(BUF_SIZE - 1) /\ t \in 0..(BUF_SIZE - 1)
  BY KeyboardAssumption DEF Slots
<1>2. (h - t) % BUF_SIZE = Count(h, t)
  BY <1>1, Wraps DEF Count
<1>3. (h + 1) % BUF_SIZE = Succ(h)
  BY <1>1, Wraps DEF Succ
<1>4. Count(h, t) \in 0..(BUF_SIZE - 1)
  BY <1>1 DEF Count
<1>5. Succ(h) \in Slots
  BY <1>1 DEF Succ, Slots
<1>6. ASSUME NEW i \in 1..Count(h, t)
      PROVE  (t + i - 1) % BUF_SIZE = At(t, i) /\ At(t, i) \in Slots
  <2>1. i \in 1..(BUF_SIZE - 1)
    BY <1>1, <1>4
  <2>2. (t + i - 1) % BUF_SIZE = At(t, i)
    BY <1>1, <2>1, Wraps DEF At
  <2>3. At(t, i) \in Slots
    BY <1>1, <2>1 DEF At, Slots
  <2> QED
    BY <2>2, <2>3
<1> QED
  BY <1>2, <1>3, <1>4, <1>5, <1>6

-----------------------------------------------------------------------------
(* The invariant                                                             *)

\* What waits was typed: the shell never takes the NoChar of an empty slot.
WaitingIsTyped == \A i \in 1..Count(head, tail) : buf[At(tail, i)] \in Chars

IInv == TypeOK /\ WaitingIsTyped

\* A stored character is behind those that wait already, and none of them is
\* overwritten.
LEMMA PushStores ==
    ASSUME TypeOK, NEW c \in Chars, push(c), (head + 1) % BUF_SIZE # tail
    PROVE  /\ head' = Succ(head) /\ head' \in Slots /\ head' # head
           /\ Count(head', tail) = Count(head, tail) + 1
           /\ Count(head, tail) < BUF_SIZE - 1
           /\ buf' \in [Slots -> Chars \cup {NoChar}]
           /\ \A i \in 1..Count(head, tail) : buf'[At(tail, i)] = buf[At(tail, i)]
           /\ buf'[At(tail, Count(head, tail) + 1)] = c
<1>1. BUF_SIZE \in Nat \ {0} /\ head \in 0..(BUF_SIZE - 1) /\ tail \in 0..(BUF_SIZE - 1)
  BY KeyboardAssumption DEF TypeOK, Slots
<1>2. head' = Succ(head) /\ Succ(head) # tail /\ Succ(head) \in Slots
  BY RingIndices DEF TypeOK, push
<1>3. buf' = [buf EXCEPT ![head] = c]
  BY DEF push
<1>4. buf' \in [Slots -> Chars \cup {NoChar}] /\ \A x \in Slots : buf'[x] = IF x = head THEN c ELSE buf[x]
  BY <1>3 DEF TypeOK
<1>5. Succ(head) # head
  BY <1>1, <1>2 DEF Succ
<1>6. Count(Succ(head), tail) = Count(head, tail) + 1 /\ Count(head, tail) < BUF_SIZE - 1
  BY <1>1, <1>2 DEF Succ, Count
<1>7. ASSUME NEW i \in 1..Count(head, tail) PROVE buf'[At(tail, i)] = buf[At(tail, i)]
  <2>1. At(tail, i) # head
    BY <1>1 DEF At, Count
  <2>2. At(tail, i) \in Slots
    BY RingIndices DEF TypeOK
  <2> QED
    BY <1>4, <2>1, <2>2
<1>8. At(tail, Count(head, tail) + 1) = head
  BY <1>1 DEF At, Count
<1>9. buf'[head] = c
  BY <1>4 DEF TypeOK
<1> QED
  BY <1>2, <1>4, <1>5, <1>6, <1>7, <1>8, <1>9

\* The character of a key is one of the table's.
LEMMA AsciiIsChar == ASSUME TypeOK, NEW k \in Keys PROVE Ascii(k) \in Chars
  BY KeyboardAssumption DEF TypeOK, Ascii, Chars

\* At first.
LEMMA InitIInv == Init => IInv
<1> SUFFICES ASSUME Init PROVE IInv
  OBVIOUS
<1>1. TypeOK
  <2>1. 0 \in Slots
    BY KeyboardAssumption DEF Slots
  <2>2. buf \in [Slots -> Chars \cup {NoChar}]
    BY DEF Init
  <2>3. got \in Chars \cup {NoChar}
    BY DEF Init
  <2> QED
    BY <2>1, <2>2, <2>3 DEF Init, TypeOK
<1>2. Count(head, tail) = 0
  BY DEF Init, Count
<1> QED
  BY <1>1, <1>2 DEF Init, IInv, WaitingIsTyped

\* A scancode.
LEMMA IrqIInv == ASSUME IInv, on_irq1 PROVE IInv'
<1> USE DEF IInv
<1>1. PICK sc \in Scancodes : handle_irq(sc)
  BY DEF on_irq1
<1>2. sc.key \in Keys \cup Shifts \cup {Dead} /\ sc.up \in BOOLEAN
  BY DEF Scancodes
<1>3. UNCHANGED <<tail, running, got>>
  BY DEF on_irq1
<1>4. shift' \in BOOLEAN
  BY <1>1, <1>2 DEF TypeOK, handle_irq, ShiftAfter
<1>5. CASE UNCHANGED <<buf, head>>
  <2>1. dropped' \in BOOLEAN
    BY <1>1 DEF TypeOK, handle_irq
  <2>2. TypeOK'
    BY <1>3, <1>4, <1>5, <2>1 DEF TypeOK
  <2>3. WaitingIsTyped'
    BY <1>3, <1>5 DEF WaitingIsTyped
  <2> QED
    BY <2>2, <2>3
<1>6. CASE ~ UNCHANGED <<buf, head>>
  <2>1. sc.key \in Keys /\ push(Ascii(sc.key)) /\ dropped' = (head' = head)
    BY <1>1, <1>6 DEF handle_irq
  <2>2. (head + 1) % BUF_SIZE # tail
    BY <1>6, <2>1 DEF push
  <2> DEFINE c == Ascii(sc.key)
  <2>3. c \in Chars
    BY <2>1, AsciiIsChar
  <2> HIDE DEF c
  <2>4. push(c)
    BY <2>1 DEF c
  <2>5. /\ head' \in Slots
        /\ Count(head', tail) = Count(head, tail) + 1
        /\ buf' \in [Slots -> Chars \cup {NoChar}]
        /\ \A i \in 1..Count(head, tail) : buf'[At(tail, i)] = buf[At(tail, i)]
        /\ buf'[At(tail, Count(head, tail) + 1)] = c
    BY <2>2, <2>3, <2>4, PushStores
  <2>6. TypeOK'
    BY <1>3, <1>4, <2>1, <2>5 DEF TypeOK
  <2>7. Count(head, tail) \in Nat
    <3>1. head \in Slots /\ tail \in Slots
      BY DEF TypeOK
    <3>2. Count(head, tail) \in 0..(BUF_SIZE - 1)
      BY <3>1, RingIndices
    <3> QED
      BY <3>2, KeyboardAssumption
  <2>8. \A i \in 1..(Count(head, tail) + 1) : buf'[At(tail, i)] \in Chars
    BY <2>3, <2>5, <2>7 DEF WaitingIsTyped
  <2>9. WaitingIsTyped'
    BY <1>3, <2>5, <2>8 DEF WaitingIsTyped
  <2> QED
    BY <2>6, <2>9
<1> QED
  BY <1>5, <1>6

\* The indices after pop.
LEMMA PopMoves ==
    ASSUME TypeOK, head # tail
    PROVE  /\ Succ(tail) \in Slots /\ (tail + 1) % BUF_SIZE = Succ(tail)
           /\ Count(head, tail) > 0
           /\ At(tail, 1) = tail
           /\ Count(head, Succ(tail)) = Count(head, tail) - 1
           /\ \A i \in 1..Count(head, Succ(tail)) : At(Succ(tail), i) = At(tail, i + 1)
<1>1. BUF_SIZE \in Nat \ {0} /\ head \in 0..(BUF_SIZE - 1) /\ tail \in 0..(BUF_SIZE - 1)
  BY KeyboardAssumption DEF TypeOK, Slots
<1>2. Succ(tail) \in Slots /\ (tail + 1) % BUF_SIZE = Succ(tail)
  BY RingIndices DEF TypeOK
<1>3. Count(head, tail) > 0 /\ At(tail, 1) = tail
  BY <1>1 DEF Count, At
<1>4. Count(head, Succ(tail)) = Count(head, tail) - 1
  BY <1>1 DEF Count, Succ
<1>5. ASSUME NEW i \in 1..Count(head, Succ(tail)) PROVE At(Succ(tail), i) = At(tail, i + 1)
  BY <1>1 DEF Count, Succ, At
<1> QED
  BY <1>2, <1>3, <1>4, <1>5

\* A character taken.
LEMMA PopIInv == ASSUME IInv, Pop PROVE IInv'
<1> USE DEF IInv
<1>1. head # tail /\ got' = buf[tail] /\ tail' = (tail + 1) % BUF_SIZE
  BY DEF Pop, pop
<1>2. UNCHANGED <<buf, head, shift, dropped>> /\ running' \in BOOLEAN
  BY DEF Pop, TypeOK
<1>3. tail' = Succ(tail) /\ tail' \in Slots
  BY <1>1, PopMoves
<1>4. got' \in Chars \cup {NoChar}
  BY <1>1 DEF TypeOK
<1>5. TypeOK'
  BY <1>2, <1>3, <1>4 DEF TypeOK
<1>6. Count(head, tail) \in Nat
  BY KeyboardAssumption, RingIndices DEF TypeOK
<1>7. \A i \in 1..Count(head, Succ(tail)) : buf[At(Succ(tail), i)] \in Chars
  BY <1>1, <1>6, PopMoves DEF WaitingIsTyped
<1>8. WaitingIsTyped'
  BY <1>2, <1>3, <1>7 DEF WaitingIsTyped
<1> QED
  BY <1>5, <1>8

\* Every step keeps the invariant.
LEMMA NextIInv == IInv /\ [Next]_vars => IInv'
<1> SUFFICES ASSUME IInv, [Next]_vars PROVE IInv'
  OBVIOUS
<1>1. CASE on_irq1
  BY <1>1, IrqIInv
<1>2. CASE Pop
  BY <1>2, PopIInv
<1>3. CASE PopNone
  BY <1>3 DEF PopNone, IInv, TypeOK, WaitingIsTyped
<1>4. CASE Resume
  BY <1>4 DEF Resume, IInv, TypeOK, WaitingIsTyped
<1>5. CASE UNCHANGED vars
  BY <1>5 DEF vars, IInv, TypeOK, WaitingIsTyped
<1> QED
  BY <1>1, <1>2, <1>3, <1>4, <1>5 DEF Next

\* The invariant of the keyboard: types, and that what waits in the ring was
\* typed.
THEOREM KeyboardInvariance == Spec => []IInv
  BY InitIInv, NextIInv, PTL DEF Spec

\* Keyboard and KeyBuffer keep their types; the indices never leave the array.
THEOREM KeyboardTypes == Spec => []TypeOK
  BY KeyboardInvariance, PTL DEF IInv

-----------------------------------------------------------------------------
(* The queue                                                                 *)

\* What waits, as a sequence of Count characters.
LEMMA WaitingIs ==
    ASSUME IInv
    PROVE  /\ Waiting = [i \in 1..Count(head, tail) |-> buf[At(tail, i)]]
           /\ Waiting \in Seq(Chars) /\ Len(Waiting) = Count(head, tail)
           /\ Count(head, tail) \in Nat
<1>1. (head - tail) % BUF_SIZE = Count(head, tail) /\ Count(head, tail) \in Nat
  <2>1. head \in Slots /\ tail \in Slots
    BY DEF IInv, TypeOK
  <2>2. (head - tail) % BUF_SIZE = Count(head, tail) /\ Count(head, tail) \in 0..(BUF_SIZE - 1)
    BY <2>1, RingIndices
  <2> QED
    BY <2>2, KeyboardAssumption
<1>2. \A i \in 1..Count(head, tail) : (tail + i - 1) % BUF_SIZE = At(tail, i)
  BY RingIndices DEF IInv, TypeOK
<1>3. Waiting = [i \in 1..Count(head, tail) |-> buf[At(tail, i)]]
  BY <1>1, <1>2 DEF Waiting
<1>4. Waiting \in Seq(Chars) /\ Len(Waiting) = Count(head, tail)
  BY <1>1, <1>3 DEF IInv, WaitingIsTyped
<1> QED
  BY <1>1, <1>3, <1>4

\* The same in the next state.
LEMMA WaitingNext ==
    ASSUME IInv'
    PROVE  /\ Waiting' = [i \in 1..Count(head', tail') |-> buf'[At(tail', i)]]
           /\ Waiting' \in Seq(Chars) /\ Len(Waiting') = Count(head', tail')
           /\ Count(head', tail') \in Nat
<1>1. (head' - tail') % BUF_SIZE = Count(head', tail') /\ Count(head', tail') \in Nat
  <2>1. head' \in Slots /\ tail' \in Slots
    BY DEF IInv, TypeOK
  <2>2. (head' - tail') % BUF_SIZE = Count(head', tail') /\ Count(head', tail') \in 0..(BUF_SIZE - 1)
    BY <2>1, RingIndices
  <2> QED
    BY <2>2, KeyboardAssumption
<1>2. \A i \in 1..Count(head', tail') : (tail' + i - 1) % BUF_SIZE = At(tail', i)
  BY RingIndices DEF IInv, TypeOK
<1>3. Waiting' = [i \in 1..Count(head', tail') |-> buf'[At(tail', i)]]
  BY <1>1, <1>2 DEF Waiting
<1>4. Waiting' \in Seq(Chars) /\ Len(Waiting') = Count(head', tail')
  BY <1>1, <1>3 DEF IInv, WaitingIsTyped
<1> QED
  BY <1>1, <1>3, <1>4

\* Both start empty.
LEMMA QueueInit == Init => Queue!Init
<1> SUFFICES ASSUME Init PROVE Queue!Init
  OBVIOUS
<1>1. Count(head, tail) = 0
  BY DEF Init, Count
<1>2. Waiting \in Seq(Chars) /\ Len(Waiting) = 0
  BY <1>1, InitIInv, WaitingIs
<1>3. Waiting = << >>
  BY <1>2, EmptySeq
<1> QED
  BY <1>3 DEF Init, Queue!Init

\* A scancode puts its character at the end of the queue, finds the queue full
\* and loses it, or is none of the queue's business.
LEMMA IrqQueue == ASSUME IInv, IInv', on_irq1 PROVE [Queue!Next]_(Queue!vars)
<1>1. PICK sc \in Scancodes : handle_irq(sc)
  BY DEF on_irq1
<1>2. UNCHANGED <<tail, got>>
  BY DEF on_irq1
<1>3. CASE ~ (sc.key \in Keys /\ ~ sc.up)
  <2>1. UNCHANGED <<buf, head, dropped>>
    BY <1>1, <1>3 DEF handle_irq
  <2>2. Waiting' = Waiting
    BY <1>2, <2>1, WaitingIs, WaitingNext
  <2> QED
    BY <1>2, <2>1, <2>2 DEF Queue!vars
<1>4. CASE sc.key \in Keys /\ ~ sc.up
  <2> DEFINE c == Ascii(sc.key)
  <2>1. push(c) /\ dropped' = (head' = head)
    BY <1>1, <1>4 DEF handle_irq
  <2>2. c \in Chars
    BY <1>4, AsciiIsChar DEF IInv
  <2> HIDE DEF c
  <2>3. CASE (head + 1) % BUF_SIZE = tail
    <3>1. UNCHANGED <<buf, head>> /\ dropped' = TRUE
      BY <2>1, <2>3 DEF push
    <3>2. Waiting' = Waiting
      BY <1>2, <3>1, WaitingIs, WaitingNext
    <3>3. Count(head, tail) = BUF_SIZE - 1
      <4>1. BUF_SIZE \in Nat \ {0} /\ head \in 0..(BUF_SIZE - 1) /\ tail \in 0..(BUF_SIZE - 1)
        BY KeyboardAssumption DEF IInv, TypeOK, Slots
      <4>2. tail = Succ(head)
        BY <2>3, RingIndices DEF IInv, TypeOK
      <4> QED
        BY <4>1, <4>2 DEF Succ, Count
    <3>4. Len(Waiting) = BUF_SIZE - 1
      BY <3>3, WaitingIs
    <3>5. Queue!Drop
      BY <1>2, <3>1, <3>2, <3>4 DEF Queue!Drop
    <3> QED
      BY <3>5 DEF Queue!Next
  <2>4. CASE (head + 1) % BUF_SIZE # tail
    <3>1. /\ head' # head
          /\ Count(head', tail) = Count(head, tail) + 1
          /\ Count(head, tail) < BUF_SIZE - 1
          /\ \A i \in 1..Count(head, tail) : buf'[At(tail, i)] = buf[At(tail, i)]
          /\ buf'[At(tail, Count(head, tail) + 1)] = c
      BY <2>1, <2>2, <2>4, PushStores DEF IInv
    <3>2. Waiting' \in Seq(Chars) /\ Len(Waiting') = Len(Waiting) + 1
      BY <1>2, <3>1, WaitingIs, WaitingNext
    <3>3. Len(Waiting) \in Nat /\ Waiting \in Seq(Chars)
      BY WaitingIs
    <3>4. \A i \in 1..(Len(Waiting) + 1) :
             Waiting'[i] = IF i = Len(Waiting) + 1 THEN c ELSE Waiting[i]
      <4>1. Len(Waiting) = Count(head, tail) /\ Count(head, tail) \in Nat
        BY WaitingIs
      <4>2. \A i \in 1..Count(head, tail) : Waiting[i] = buf[At(tail, i)]
        BY WaitingIs
      <4>3. \A i \in 1..(Count(head, tail) + 1) : Waiting'[i] = buf'[At(tail, i)]
        BY <1>2, <3>1, WaitingNext
      <4> QED
        BY <3>1, <4>1, <4>2, <4>3
    <3>5. Append(Waiting, c) \in Seq(Chars) /\ Len(Append(Waiting, c)) = Len(Waiting) + 1
      BY <2>2, <3>3, AppendProperties
    <3>6. \A i \in 1..Len(Waiting) : Append(Waiting, c)[i] = Waiting[i]
      BY <2>2, <3>3, AppendProperties
    <3>7. Append(Waiting, c)[Len(Waiting) + 1] = c
      BY <2>2, <3>3, AppendProperties
    <3>8. \A i \in 1..(Len(Waiting) + 1) : Waiting'[i] = Append(Waiting, c)[i]
      BY <3>3, <3>4, <3>6, <3>7
    <3>9. Waiting' = Append(Waiting, c)
      BY <3>2, <3>5, <3>8, SeqEqual
    <3>10. dropped' = FALSE
      BY <2>1, <3>1
    <3>11. Len(Waiting) < BUF_SIZE - 1
      BY <3>1, WaitingIs
    <3>12. Queue!Put(c)
      BY <1>2, <3>9, <3>10, <3>11 DEF Queue!Put
    <3> QED
      BY <2>2, <3>12 DEF Queue!Next
  <2> QED
    BY <2>3, <2>4
<1> QED
  BY <1>3, <1>4

\* pop takes the head of the queue.
LEMMA PopQueue == ASSUME IInv, IInv', Pop PROVE Queue!Get
<1>1. head # tail /\ got' = buf[tail] /\ tail' = (tail + 1) % BUF_SIZE /\ UNCHANGED <<buf, head, dropped>>
  BY DEF Pop, pop
<1>2. /\ tail' = Succ(tail) /\ Count(head, tail) > 0 /\ At(tail, 1) = tail
      /\ Count(head, tail') = Count(head, tail) - 1
      /\ \A i \in 1..Count(head, tail') : At(tail', i) = At(tail, i + 1)
  BY <1>1, PopMoves DEF IInv
<1>3. Waiting \in Seq(Chars) /\ Len(Waiting) = Count(head, tail) /\ Count(head, tail) \in Nat
  BY WaitingIs
<1>4. \A i \in 1..Count(head, tail) : Waiting[i] = buf[At(tail, i)]
  BY WaitingIs
<1>5. Waiting # << >>
  BY <1>2, <1>3, EmptySeq
<1>6. Head(Waiting) = buf[tail]
  <2>1. Head(Waiting) = Waiting[1]
    BY <1>3, <1>5
  <2> QED
    BY <1>2, <1>3, <1>4, <2>1
<1>7. Waiting' \in Seq(Chars) /\ Len(Waiting') = Count(head, tail')
  BY <1>1, WaitingNext
<1>8. \A i \in 1..Count(head, tail') : Waiting'[i] = buf[At(tail', i)]
  BY <1>1, WaitingNext
<1>9. Tail(Waiting) \in Seq(Chars) /\ Len(Tail(Waiting)) = Len(Waiting) - 1
  BY <1>3, <1>5, HeadTailProperties
<1>10. \A i \in 1..Len(Tail(Waiting)) : Tail(Waiting)[i] = Waiting[i + 1]
  BY <1>3, <1>5, HeadTailProperties
<1>11. Len(Waiting') = Len(Tail(Waiting))
  BY <1>2, <1>3, <1>7, <1>9
<1>12. \A i \in 1..Len(Waiting') : Waiting'[i] = Tail(Waiting)[i]
  <2> TAKE i \in 1..Len(Waiting')
  <2>1. i \in 1..Count(head, tail') /\ i + 1 \in 1..Count(head, tail)
    BY <1>2, <1>3, <1>7
  <2>2. Waiting'[i] = buf[At(tail, i + 1)]
    BY <1>2, <1>8, <2>1
  <2>3. Waiting[i + 1] = buf[At(tail, i + 1)]
    BY <1>4, <2>1
  <2> QED
    BY <1>10, <1>11, <2>2, <2>3
<1>13. Waiting' = Tail(Waiting)
  BY <1>7, <1>9, <1>11, <1>12, SeqEqual
<1> QED
  BY <1>1, <1>5, <1>6, <1>13 DEF Queue!Get

\* Every step is one of the queue's, or none.
LEMMA NextQueue == IInv /\ IInv' /\ [Next]_vars => [Queue!Next]_(Queue!vars)
<1> SUFFICES ASSUME IInv, IInv', [Next]_vars PROVE [Queue!Next]_(Queue!vars)
  OBVIOUS
<1>1. CASE on_irq1
  BY <1>1, IrqQueue
<1>2. CASE Pop
  BY <1>2, PopQueue DEF Queue!Next
<1>3. CASE PopNone \/ Resume \/ UNCHANGED vars
  <2>1. UNCHANGED <<buf, head, tail, got, dropped>>
    BY <1>3 DEF PopNone, Resume, vars
  <2>2. Waiting' = Waiting
    BY <2>1, WaitingIs, WaitingNext
  <2> QED
    BY <2>1, <2>2 DEF Queue!vars
<1> QED
  BY <1>1, <1>2, <1>3 DEF Next

\* KeyBuffer is a queue of BUF_SIZE - 1 characters: what the shell takes is what
\* was typed, in order, less what came while the buffer was full.
THEOREM KeyboardImplementsQueue == Spec => ImplementsQueue
<1>1. Init => Queue!Init
  BY QueueInit
<1>2. IInv /\ IInv' /\ [Next]_vars => [Queue!Next]_(Queue!vars)
  BY NextQueue
<1> QED
  BY <1>1, <1>2, KeyboardInvariance, PTL DEF Spec, ImplementsQueue, Queue!Spec
=============================================================================
