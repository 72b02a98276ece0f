----------------------------- MODULE Arithmetic -----------------------------
(***************************************************************************)
(* Facts about numbers that several proofs rest on: the least element of a *)
(* set, which stands in for induction along a list or a scan, and division *)
(* as the memory code rounds with it.                                      *)
(***************************************************************************)
EXTENDS Integers, WellFoundedInduction, TLAPS

LessThan == {p \in Nat \X Nat : p[1] < p[2]}

\* The order of the natural numbers is well-founded.
LEMMA LessThanWF == IsWellFoundedOn(LessThan, Nat)
<1>1. LessThan = OpToRel(<, Nat)
  BY DEF OpToRel, LessThan
<1> QED
  BY <1>1, NatLessThanWellFounded

\* A set of natural numbers has a least element.
LEMMA Least == ASSUME NEW S \in SUBSET Nat, S # {} PROVE \E m \in S : \A x \in S : m <= x
<1>1. \E m \in S : \A y \in S : ~ (<<y, m>> \in LessThan)
  BY LessThanWF, WFMin
<1>2. ASSUME NEW x \in Nat, NEW y \in Nat, ~ (<<x, y>> \in LessThan) PROVE y <= x
  <2>1. ~ (x < y)
    <3>1. SUFFICES ASSUME x < y PROVE <<x, y>> \in LessThan
      BY <1>2
    <3>2. <<x, y>> \in Nat \X Nat /\ <<x, y>>[1] = x /\ <<x, y>>[2] = y
      OBVIOUS
    <3> QED
      BY <3>1, <3>2 DEF LessThan
  <2> QED
    BY <2>1
<1> QED
  BY <1>1, <1>2

\* Division by a positive number, rounded down.
LEMMA RoundDown ==
    ASSUME NEW a \in Nat, NEW b \in Nat \ {0}
    PROVE  /\ a \div b \in Nat
           /\ a - (a \div b) * b \in 0..(b - 1)
           /\ (a + b) \div b = (a \div b) + 1
<1>1. a \div b \in Nat
  OBVIOUS
<1>2. a - (a \div b) * b \in 0..(b - 1)
  OBVIOUS
<1>3. (a + b) \div b = (a \div b) + 1
  OBVIOUS
<1> QED
  BY <1>1, <1>2, <1>3

\* Division rounded up, as a number of units that a have room in.
LEMMA RoundsUp ==
    ASSUME NEW a \in Nat, NEW b \in Nat \ {0}
    PROVE  (a + b - 1) \div b \in Nat /\ ((a + b - 1) \div b) * b >= a
<1>1. a + b - 1 \in Nat /\ (a + b - 1) \div b \in Nat
  OBVIOUS
<1>2. ((a + b - 1) \div b) * b >= a
  OBVIOUS
<1> QED
  BY <1>1, <1>2

\* The quotient of a number below a multiple.
LEMMA DivLess ==
    ASSUME NEW a \in Nat, NEW n \in Nat, NEW b \in Nat \ {0}, a < n * b
    PROVE  a \div b < n
  OBVIOUS

\* Adding units does not change the remainder.
LEMMA RemainderKept ==
    ASSUME NEW a \in Nat, NEW k \in Nat, NEW b \in Nat \ {0}
    PROVE  (a + k * b) % b = a % b
<1> DEFINE q == a \div b
           r == a - q * b
<1>1. q \in Nat /\ r \in 0..(b - 1)
  BY RoundDown
<1>2. a = q * b + r
  BY <1>1
<1> HIDE DEF q, r
<1>3. a + k * b = (q + k) * b + r
  BY <1>1, <1>2
<1>4. \A x \in Nat : (x * b + r) % b = r
  BY <1>1
<1> QED
  BY <1>1, <1>2, <1>3, <1>4

\* A number is what its quotient and its remainder say.
LEMMA DivMod ==
    ASSUME NEW a \in Nat, NEW b \in Nat \ {0}
    PROVE  a \div b \in Nat /\ a % b \in 0..(b - 1) /\ a = (a \div b) * b + (a % b)
<1>1. a \div b \in Nat /\ a % b \in 0..(b - 1)
  OBVIOUS
<1>2. a = (a \div b) * b + (a % b)
  OBVIOUS
<1> QED
  BY <1>1, <1>2

\* And no other quotient leaves a remainder below the divisor.
LEMMA Quotient ==
    ASSUME NEW q \in Nat, NEW b \in Nat \ {0}, NEW r \in 0..(b - 1)
    PROVE  (q * b + r) \div b = q
<1> DEFINE a == q * b + r
           p == a \div b
           s == a % b
<1>1. a \in Nat
  <2>1. q * b \in Nat
    OBVIOUS
  <2> QED
    BY <2>1
<1>2. p \in Nat /\ s \in 0..(b - 1) /\ a = p * b + s
  BY <1>1, DivMod
<1>3. a = q * b + r
  OBVIOUS
<1> HIDE DEF p, s, a
<1>4. ASSUME q < p PROVE FALSE
  <2>1. p * b >= (q + 1) * b /\ (q + 1) * b = q * b + b
    BY <1>2, <1>4
  <2>2. p * b \in Int /\ q * b \in Int
    BY <1>2
  <2> QED
    BY <1>2, <1>3, <2>1, <2>2
<1>5. ASSUME p < q PROVE FALSE
  <2>1. q * b >= (p + 1) * b /\ (p + 1) * b = p * b + b
    BY <1>2, <1>5
  <2>2. p * b \in Int /\ q * b \in Int
    BY <1>2
  <2> QED
    BY <1>2, <1>3, <2>1, <2>2
<1>6. p = q
  BY <1>2, <1>4, <1>5
<1> QED
  BY <1>6 DEF p, a

\* Dividing twice is dividing by the product.
LEMMA DivTwice ==
    ASSUME NEW a \in Nat, NEW b \in Nat \ {0}, NEW c \in Nat \ {0}
    PROVE  (a \div b) \div c = a \div (b * c)
<1> DEFINE p == a \div b
           r == a % b
           q == p \div c
           s == p % c
<1>1. p \in Nat /\ r \in 0..(b - 1) /\ a = p * b + r
  BY DivMod
<1> HIDE DEF p, r
<1>2. q \in Nat /\ s \in 0..(c - 1) /\ p = q * c + s
  BY <1>1, DivMod
<1> HIDE DEF q, s
<1>3. a = q * (b * c) + (s * b + r)
  <2>1. a = (q * c + s) * b + r
    BY <1>1, <1>2
  <2> QED
    BY <1>1, <1>2, <2>1
<1>4. s * b + r \in 0..(b * c - 1)
  <2>1. s * b <= (c - 1) * b /\ s * b \in Nat
    BY <1>2
  <2>2. (c - 1) * b = b * c - b
    OBVIOUS
  <2> QED
    BY <1>1, <1>2, <2>1, <2>2
<1>5. b * c \in Nat \ {0}
  OBVIOUS
<1>6. (q * (b * c) + (s * b + r)) \div (b * c) = q
  BY <1>2, <1>4, <1>5, Quotient
<1>7. a \div (b * c) = q
  BY <1>3, <1>6
<1> QED
  BY <1>7 DEF q, p

\* A positive factor cancels.
LEMMA Cancel ==
    ASSUME NEW a \in Int, NEW b \in Int, NEW p \in Nat \ {0}
    PROVE  /\ a * p <= b * p <=> a <= b
           /\ a * p < b * p <=> a < b
<1>1. ASSUME NEW c \in Int, NEW d \in Int, c < d PROVE c * p < d * p
  <2>1. (d - c) * p >= p
    BY <1>1
  <2>2. (d - c) * p = d * p - c * p
    OBVIOUS
  <2>3. c * p \in Int /\ d * p \in Int
    OBVIOUS
  <2> QED
    BY <2>1, <2>2, <2>3
<1>2. a * p \in Int /\ b * p \in Int
  OBVIOUS
<1>3. CASE a < b
  BY <1>1, <1>2, <1>3
<1>4. CASE b < a
  BY <1>1, <1>2, <1>4
<1>5. CASE a = b
  BY <1>2, <1>5
<1> QED
  BY <1>3, <1>4, <1>5

\* Induction up to a bound, over a set: it rests on the least element.
LEMMA UpTo ==
    ASSUME NEW n \in Nat, NEW S, 0 \in S, \A i \in 0..(n - 1) : i \in S => i + 1 \in S
    PROVE  \A i \in 0..n : i \in S
<1> DEFINE T == {i \in 0..n : i \notin S}
<1>1. SUFFICES ASSUME T # {} PROVE FALSE
  OBVIOUS
<1>2. T \in SUBSET Nat
  OBVIOUS
<1>3. PICK m \in T : \A x \in T : m <= x
  BY <1>1, <1>2, Least
<1>4. m \in 0..n /\ m \notin S /\ m # 0
  OBVIOUS
<1>5. m - 1 \in 0..(n - 1) /\ (m - 1) + 1 = m
  BY <1>4
<1>6. m - 1 \notin T
  BY <1>3, <1>5
<1>7. m - 1 \in S
  BY <1>5, <1>6
<1> QED
  BY <1>4, <1>5, <1>7

\* Cells of a grid, counted row by row, are told apart by their number.
LEMMA CellUnique ==
    ASSUME NEW n \in Nat \ {0}, NEW r \in Nat, NEW q \in Nat,
           NEW c \in 0..(n - 1), NEW b \in 0..(n - 1), r * n + c = q * n + b
    PROVE  r = q /\ c = b
<1>1. (r * n + c) \div n = r /\ (q * n + b) \div n = q
  BY Quotient
<1>2. r = q
  BY <1>1
<1>3. r * n \in Nat
  OBVIOUS
<1> QED
  BY <1>2, <1>3

\* One row more.
LEMMA NextRow ==
    ASSUME NEW n \in Nat \ {0}, NEW r \in Nat
    PROVE  r * n \in Nat /\ (r + 1) * n = r * n + n /\ (r + 1) * n \in Nat
  OBVIOUS

\* A row further on begins behind the row before.
LEMMA LaterRow ==
    ASSUME NEW n \in Nat \ {0}, NEW r \in Nat, NEW q \in Nat, r < q
    PROVE  r * n + n <= q * n
<1>1. PICK k \in Nat : q = r + 1 + k
  <2>1. q - r - 1 \in Nat /\ q = r + 1 + (q - r - 1)
    OBVIOUS
  <2> QED
    BY <2>1
<1>2. q * n = r * n + n + k * n
  BY <1>1
<1>3. k * n \in Nat /\ r * n \in Nat
  OBVIOUS
<1> QED
  BY <1>2, <1>3
=============================================================================
