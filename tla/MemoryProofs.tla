---------------------------- MODULE MemoryProofs ----------------------------
(***************************************************************************)
(* The memory of the kernel, for every table size, any number of frames,   *)
(* any tables of the boot loader that satisfy LoaderAssumption and         *)
(* DirectMapAssumption, and any sequence of calls: the page tables are a   *)
(* tree, each frame has one use, the heap is backed by frames, and the     *)
(* tables with the processor's cache implement AddressSpace.               *)
(***************************************************************************)
EXTENDS Memory, FiniteSetTheorems, Arithmetic

HP == INSTANCE HeapProofs

-----------------------------------------------------------------------------
(* Walks and roles                                                           *)

\* A walk with the indices ix in the tables m.
Down(m, t, i) == IF t = None THEN None ELSE m[t][i]
Pdpt(m, ix)    == Down(m, Root, ix[1])
Pd(m, ix)      == Down(m, Pdpt(m, ix), ix[2])
Pt(m, ix)      == Down(m, Pd(m, ix), ix[3])
Leaf(m, ix)    == Down(m, Pt(m, ix), ix[4])

\* Indices whose walk in the boot loader's tables meets no opaque frame.
Pdpts == LoaderBelow({Root})
Pds   == LoaderBelow(Pdpts)

Clear(ix) ==
    /\ ix[1] \in Idx /\ ix[2] \in Idx /\ ix[3] \in Idx /\ ix[4] \in Idx
    /\ Loader[Root][ix[1]] \notin Opaque
    /\ Loader[Root][ix[1]] \in Pdpts =>
          LET pdpt == Loader[Root][ix[1]] IN
          /\ Loader[pdpt][ix[2]] \notin Opaque
          /\ Loader[pdpt][ix[2]] \in Pds => Loader[Loader[pdpt][ix[2]]][ix[3]] \notin Opaque

\* Every frame has a role: 1 to 4 is a table of that level, the others are for
\* frames that alloc_page gives out (see Uses), 0 is for the frames of the boot
\* loader that are not walked.
Own    == 1..NPages
Upper  == 1..3
Free   == 5
InHand == 6
Lost   == 7
Stack0 == 8
Stack1 == 9
Mapped == 10

Typed(m, R) ==
    /\ m \in [Frames -> [Idx -> Frames \cup Phys \cup {None}]]
    /\ R \in [Frames -> 0..10]
    /\ R[Root] = 1

\* The boot loader's entries stay, and he has no table of the last level that
\* is walked.
LoaderKept(m, R) ==
    \A f \in DOMAIN Loader :
        /\ R[f] \in 0..3 /\ (f \in Opaque => R[f] = 0)
        /\ \A i \in Idx : Loader[f][i] # None \/ R[f] = 0 => m[f][i] = Loader[f][i]

\* An entry of a table leads to a table of the next level.
Levels(m, R) ==
    \A t \in Frames, i \in Idx :
        R[t] \in Upper /\ m[t][i] \notin Opaque \cup {None} =>
            m[t][i] \in Frames /\ R[m[t][i]] = R[t] + 1

\* An entry that leads to a frame of the boot loader is the boot loader's.
LoaderEntries(m, R) ==
    \A t \in Frames, i \in Idx :
        R[t] \in Upper /\ m[t][i] \in DOMAIN Loader =>
            t \in DOMAIN Loader /\ Loader[t][i] = m[t][i]

\* Every table but the root is named by one entry of one table.
OneParent(m, R) ==
    \A t, u \in Frames, i, j \in Idx :
        R[t] \in Upper /\ R[u] \in Upper /\ m[t][i] = m[u][j] /\ m[t][i] \notin Opaque \cup {None} =>
            t = u /\ i = j

HasParent(m, R) ==
    \A f \in Frames : R[f] \in 2..4 =>
        \E t \in Frames, i \in Idx : R[t] = R[f] - 1 /\ m[t][i] = f

\* The entries of the last level lead to what map_page was called with.
Leaves(m, R) ==
    \A t \in Frames, i \in Idx : R[t] = 4 => m[t][i] \in Phys \cup {None}

Tree(m, R) ==
    /\ Typed(m, R) /\ LoaderKept(m, R) /\ Levels(m, R) /\ LoaderEntries(m, R)
    /\ OneParent(m, R) /\ HasParent(m, R) /\ Leaves(m, R)

\* What the assumptions say of the sets of frames.
LEMMA Ground ==
    /\ None \notin Frames /\ None \notin Phys /\ None \notin Opaque
    /\ Opaque \subseteq DOMAIN Loader /\ DOMAIN Loader \subseteq Frames
    /\ Own \subseteq Frames /\ DOMAIN Loader \cap Own = {} /\ Frames = Own \cup DOMAIN Loader
    /\ Root \in DOMAIN Loader /\ Root \in Frames /\ Root \notin Opaque
    /\ Own \subseteq Phys /\ NPages \in Nat
  BY VmmAssumption, MemoryAssumption, LoaderAssumption DEF Frames, Own

\* The entry of a table on the way to a page is not opaque.
LEMMA EntryClear ==
    ASSUME NEW m, NEW R, Tree(m, R), NEW t \in Frames, R[t] \in Upper, NEW i \in Idx,
           t \in DOMAIN Loader => Loader[t][i] \notin Opaque
    PROVE  m[t][i] \notin Opaque
  BY Ground DEF Tree, LoaderEntries

\* So that the walk reaches tables of each level, or an entry not present.
LEMMA WalkIs ==
    ASSUME NEW m, NEW R, Tree(m, R), NEW ix, Clear(ix)
    PROVE  /\ Pdpt(m, ix) = m[Root][ix[1]] /\ m[Root][ix[1]] \notin Opaque
           /\ Pdpt(m, ix) # None => /\ Pdpt(m, ix) \in Frames /\ R[Pdpt(m, ix)] = 2
                                    /\ m[Pdpt(m, ix)][ix[2]] \notin Opaque
           /\ Pd(m, ix) # None => /\ Pd(m, ix) \in Frames /\ R[Pd(m, ix)] = 3
                                  /\ m[Pd(m, ix)][ix[3]] \notin Opaque
           /\ Pt(m, ix) # None => Pt(m, ix) \in Own /\ R[Pt(m, ix)] = 4
           /\ Leaf(m, ix) \in Phys \cup {None}
<1> DEFINE a == Pdpt(m, ix)
           b == Pd(m, ix)
           c == Pt(m, ix)
<1>1. a = m[Root][ix[1]]
  BY Ground DEF Pdpt, Down
<1>2. R[Root] = 1 /\ R[Root] \in Upper
  BY DEF Tree, Typed, Upper
<1>3. ix[1] \in Idx /\ ix[2] \in Idx /\ ix[3] \in Idx /\ ix[4] \in Idx
  BY DEF Clear
<1>4. a \notin Opaque
  BY <1>1, <1>2, <1>3, Ground, EntryClear DEF Clear
<1>5. ASSUME a # None PROVE a \in Frames /\ R[a] = 2
  BY <1>1, <1>2, <1>3, <1>4, <1>5, Ground DEF Tree, Levels
<1>6. ASSUME a # None, a \in DOMAIN Loader
      PROVE  a = Loader[Root][ix[1]] /\ a \in Pdpts
  <2>1. a = Loader[Root][ix[1]]
    BY <1>1, <1>2, <1>3, <1>6, Ground DEF Tree, LoaderEntries
  <2>2. <<Root, ix[1]>> \in {Root} \X Idx
    BY <1>3
  <2> QED
    BY <1>4, <1>6, <2>1, <2>2 DEF Pdpts, LoaderBelow
<1>7. ASSUME a # None PROVE m[a][ix[2]] \notin Opaque
  <2>1. R[a] \in Upper /\ a \in Frames
    BY <1>5, <1>7 DEF Upper
  <2>2. a \in DOMAIN Loader => Loader[a][ix[2]] \notin Opaque
    BY <1>6, <1>7 DEF Clear
  <2> QED
    BY <1>3, <2>1, <2>2, EntryClear
<1>8. ASSUME b # None PROVE a # None /\ b = m[a][ix[2]] /\ b \in Frames /\ R[b] = 3
  <2>1. a # None /\ b = m[a][ix[2]]
    BY <1>8 DEF Pd, Down
  <2>2. R[a] \in Upper /\ a \in Frames /\ R[a] = 2
    BY <1>5, <2>1 DEF Upper
  <2>3. b \notin Opaque
    BY <1>7, <2>1
  <2> QED
    BY <1>3, <1>8, <2>1, <2>2, <2>3 DEF Tree, Levels
<1>9. ASSUME b # None PROVE m[b][ix[3]] \notin Opaque
  <2>1. a # None /\ b = m[a][ix[2]] /\ b \in Frames /\ R[b] = 3 /\ R[b] \in Upper
    BY <1>8, <1>9 DEF Upper
  <2>2. ASSUME b \in DOMAIN Loader PROVE Loader[b][ix[3]] \notin Opaque
    <3>1. R[a] \in Upper /\ a \in Frames
      BY <1>5, <2>1 DEF Upper
    <3>2. a \in DOMAIN Loader /\ b = Loader[a][ix[2]]
      BY <1>3, <2>1, <2>2, <3>1 DEF Tree, LoaderEntries
    <3>3. a = Loader[Root][ix[1]] /\ a \in Pdpts
      BY <1>6, <2>1, <3>2
    <3>4. <<a, ix[2]>> \in Pdpts \X Idx
      BY <1>3, <3>3
    <3>5. b \notin Opaque
      BY <1>7, <2>1
    <3>6. b \in Pds
      BY <1>9, <3>2, <3>4, <3>5 DEF Pds, LoaderBelow
    <3> QED
      BY <3>2, <3>3, <3>6 DEF Clear
  <2> QED
    BY <1>3, <2>1, <2>2, EntryClear
<1>10. ASSUME c # None PROVE c \in Own /\ R[c] = 4 /\ b # None /\ c = m[b][ix[3]]
  <2>1. b # None /\ c = m[b][ix[3]]
    BY <1>10 DEF Pt, Down
  <2>2. R[b] \in Upper /\ b \in Frames /\ R[b] = 3
    BY <1>8, <2>1 DEF Upper
  <2>3. c \in Frames /\ R[c] = 4
    BY <1>3, <1>9, <1>10, <2>1, <2>2 DEF Tree, Levels
  <2>4. c \notin DOMAIN Loader
    BY <2>3 DEF Tree, LoaderKept
  <2> QED
    BY <2>1, <2>3, <2>4, Ground
<1>11. Leaf(m, ix) \in Phys \cup {None}
  <2>1. CASE c = None
    BY <2>1 DEF Leaf, Down
  <2>2. CASE c # None
    BY <1>3, <1>10, <2>2, Ground DEF Leaf, Down, Tree, Leaves
  <2> QED
    BY <2>1, <2>2
<1> QED
  BY <1>1, <1>4, <1>5, <1>7, <1>8, <1>9, <1>10, <1>11

\* Two pages with one table of the last level have the same first indices.
LEMMA SameTable ==
    ASSUME NEW m, NEW R, Tree(m, R), NEW ix, Clear(ix), NEW iy, Clear(iy),
           Pt(m, ix) # None, Pt(m, ix) = Pt(m, iy)
    PROVE  ix[1] = iy[1] /\ ix[2] = iy[2] /\ ix[3] = iy[3]
<1>1. /\ ix[1] \in Idx /\ ix[2] \in Idx /\ ix[3] \in Idx
      /\ iy[1] \in Idx /\ iy[2] \in Idx /\ iy[3] \in Idx
  BY DEF Clear
<1>2. /\ Pd(m, ix) # None /\ Pt(m, ix) = m[Pd(m, ix)][ix[3]]
      /\ Pd(m, iy) # None /\ Pt(m, iy) = m[Pd(m, iy)][iy[3]]
  BY DEF Pt, Down
<1>3. /\ Pdpt(m, ix) # None /\ Pd(m, ix) = m[Pdpt(m, ix)][ix[2]]
      /\ Pdpt(m, iy) # None /\ Pd(m, iy) = m[Pdpt(m, iy)][iy[2]]
  BY <1>2 DEF Pd, Down
<1>4. /\ Pdpt(m, ix) \in Frames /\ R[Pdpt(m, ix)] = 2 /\ m[Pdpt(m, ix)][ix[2]] \notin Opaque
      /\ Pd(m, ix) \in Frames /\ R[Pd(m, ix)] = 3 /\ m[Pd(m, ix)][ix[3]] \notin Opaque
      /\ m[Root][ix[1]] \notin Opaque /\ Pdpt(m, ix) = m[Root][ix[1]]
  BY <1>2, <1>3, WalkIs
<1>5. /\ Pdpt(m, iy) \in Frames /\ R[Pdpt(m, iy)] = 2 /\ Pdpt(m, iy) = m[Root][iy[1]]
      /\ Pd(m, iy) \in Frames /\ R[Pd(m, iy)] = 3
  BY <1>2, <1>3, WalkIs
<1>6. 2 \in Upper /\ 3 \in Upper /\ R[Root] \in Upper /\ Root \in Frames
  BY Ground DEF Upper, Tree, Typed
<1>7. OneParent(m, R)
  BY DEF Tree
<1>8. Pd(m, ix) = Pd(m, iy) /\ ix[3] = iy[3]
  <2>1. R[Pd(m, ix)] \in Upper /\ R[Pd(m, iy)] \in Upper
    BY <1>4, <1>5, <1>6
  <2>2. /\ m[Pd(m, ix)][ix[3]] = m[Pd(m, iy)][iy[3]]
        /\ m[Pd(m, ix)][ix[3]] \notin Opaque \cup {None}
    BY <1>2, <1>4
  <2> QED
    BY <1>1, <1>4, <1>5, <1>7, <2>1, <2>2 DEF OneParent
<1>9. Pdpt(m, ix) = Pdpt(m, iy) /\ ix[2] = iy[2]
  <2>1. R[Pdpt(m, ix)] \in Upper /\ R[Pdpt(m, iy)] \in Upper
    BY <1>4, <1>5, <1>6
  <2>2. /\ m[Pdpt(m, ix)][ix[2]] = m[Pdpt(m, iy)][iy[2]]
        /\ m[Pdpt(m, ix)][ix[2]] \notin Opaque \cup {None}
    BY <1>2, <1>3, <1>4, <1>8
  <2> QED
    BY <1>1, <1>4, <1>5, <1>7, <2>1, <2>2 DEF OneParent
<1>10. ix[1] = iy[1]
  <2>1. m[Root][ix[1]] = m[Root][iy[1]] /\ m[Root][ix[1]] \notin Opaque \cup {None}
    BY <1>3, <1>4, <1>5, <1>9
  <2> QED
    BY <1>1, <1>6, <1>7, <2>1 DEF OneParent
<1> QED
  BY <1>8, <1>9, <1>10

-----------------------------------------------------------------------------
(* A new table                                                               *)

\* The tables with a new one, f, that entry i of table t names.
WithTable(m, t, i, f) == [m EXCEPT ![f] = Zeroed, ![t][i] = f]

\* Entry by entry.
LEMMA WithTableIs ==
    ASSUME NEW m \in [Frames -> [Idx -> Frames \cup Phys \cup {None}]],
           NEW t \in Frames, NEW i \in Idx, NEW f \in Own, t # f,
           NEW n, n = WithTable(m, t, i, f)
    PROVE  /\ n \in [Frames -> [Idx -> Frames \cup Phys \cup {None}]]
           /\ \A j \in Idx : n[f][j] = None
           /\ n[t][i] = f
           /\ \A g \in Frames, j \in Idx : g # f /\ (g # t \/ j # i) => n[g][j] = m[g][j]
<1>0. f \in Frames
  BY Ground
<1>1. Zeroed \in [Idx -> Frames \cup Phys \cup {None}] /\ \A j \in Idx : Zeroed[j] = None
  BY DEF Zeroed
<1> DEFINE z == [m EXCEPT ![f] = Zeroed]
<1>2. /\ z \in [Frames -> [Idx -> Frames \cup Phys \cup {None}]]
      /\ z[f] = Zeroed /\ \A g \in Frames : g # f => z[g] = m[g]
  BY <1>0, <1>1
<1>3. n = [z EXCEPT ![t] = [z[t] EXCEPT ![i] = f]]
  BY DEF WithTable
<1> HIDE DEF z
<1> DEFINE row == [z[t] EXCEPT ![i] = f]
<1>4. /\ row \in [Idx -> Frames \cup Phys \cup {None}]
      /\ row[i] = f /\ \A j \in Idx : j # i => row[j] = z[t][j]
  BY <1>0, <1>2
<1> HIDE DEF row
<1>5. n = [z EXCEPT ![t] = row]
  BY <1>3 DEF row
<1>6. /\ n \in [Frames -> [Idx -> Frames \cup Phys \cup {None}]]
      /\ n[t] = row /\ \A g \in Frames : g # t => n[g] = z[g]
  BY <1>2, <1>4, <1>5
<1> QED
  BY <1>0, <1>1, <1>2, <1>4, <1>6

\* The roles with a new table f of a level.
WithLevel(R, f, l) == [R EXCEPT ![f] = l]

\* A free frame becomes a table that an entry of a table, not present until
\* now, names.  The tables are a tree as before.
LEMMA NewTableTree ==
    ASSUME NEW m, NEW R, Tree(m, R), NEW t \in Frames, R[t] \in Upper, NEW i \in Idx,
           m[t][i] = None, NEW f \in Own, R[f] = Free,
           NEW n, n = WithTable(m, t, i, f), NEW Q, Q = WithLevel(R, f, R[t] + 1)
    PROVE  Tree(n, Q)
<1>0. /\ m \in [Frames -> [Idx -> Frames \cup Phys \cup {None}]] /\ R \in [Frames -> 0..10]
      /\ R[Root] = 1 /\ f \in Frames /\ f \notin DOMAIN Loader /\ f # None
  BY Ground DEF Tree, Typed
<1>1. t # f /\ Root # f /\ R[t] \in 1..3
  BY <1>0 DEF Upper, Free
<1>2. /\ n \in [Frames -> [Idx -> Frames \cup Phys \cup {None}]]
      /\ \A j \in Idx : n[f][j] = None
      /\ n[t][i] = f
      /\ \A g \in Frames, j \in Idx : g # f /\ (g # t \/ j # i) => n[g][j] = m[g][j]
  BY <1>0, <1>1, WithTableIs
<1>3. Q \in [Frames -> 0..10] /\ Q[f] = R[t] + 1 /\ \A g \in Frames : g # f => Q[g] = R[g]
  BY <1>0, <1>1 DEF WithLevel
<1>4. Typed(n, Q)
  BY <1>0, <1>1, <1>2, <1>3, Ground DEF Typed
<1>5. LoaderKept(n, Q)
  <2> SUFFICES ASSUME NEW g \in DOMAIN Loader
               PROVE  /\ Q[g] \in 0..3 /\ (g \in Opaque => Q[g] = 0)
                      /\ \A j \in Idx : Loader[g][j] # None \/ Q[g] = 0 => n[g][j] = Loader[g][j]
    BY DEF LoaderKept
  <2>1. g # f /\ g \in Frames
    BY <1>0, Ground
  <2>2. /\ R[g] \in 0..3 /\ (g \in Opaque => R[g] = 0)
        /\ \A j \in Idx : Loader[g][j] # None \/ R[g] = 0 => m[g][j] = Loader[g][j]
    BY DEF Tree, LoaderKept
  <2>3. ASSUME NEW j \in Idx, Loader[g][j] # None \/ R[g] = 0 PROVE g # t \/ j # i
    <3>1. m[g][j] = Loader[g][j]
      BY <2>2, <2>3
    <3>2. CASE R[g] = 0
      BY <1>1, <3>2
    <3>3. CASE Loader[g][j] # None
      BY <3>1, <3>3
    <3> QED
      BY <2>3, <3>2, <3>3
  <2> QED
    BY <1>2, <1>3, <2>1, <2>2, <2>3
<1>6. ASSUME NEW g \in Frames, NEW j \in Idx, Q[g] \in Upper, n[g][j] # None, n[g][j] # f
      PROVE  g # f /\ R[g] = Q[g] /\ R[g] \in Upper /\ n[g][j] = m[g][j]
  <2>1. g # f
    BY <1>2, <1>6
  <2>2. ~ (g = t /\ j = i)
    BY <1>2, <1>6
  <2> QED
    BY <1>2, <1>3, <1>6, <2>1, <2>2
<1>7. ASSUME NEW g \in Frames, NEW j \in Idx, R[g] \in Upper, m[g][j] = f PROVE FALSE
  <2>1. f \notin Opaque \cup {None}
    BY <1>0, Ground
  <2>2. R[f] = R[g] + 1
    BY <1>7, <2>1 DEF Tree, Levels
  <2> QED
    BY <1>7, <2>2 DEF Upper, Free
<1>8. ASSUME NEW g \in Frames, NEW j \in Idx, Q[g] \in Upper, n[g][j] = f PROVE g = t /\ j = i
  <2>1. g # f
    BY <1>0, <1>2, <1>8
  <2>2. R[g] \in Upper
    BY <1>3, <1>8, <2>1
  <2>3. ASSUME g # t \/ j # i PROVE FALSE
    <3>1. m[g][j] = f
      BY <1>2, <1>8, <2>1, <2>3
    <3> QED
      BY <1>7, <2>2, <3>1
  <2> QED
    BY <2>3
<1>9. Levels(n, Q)
  <2> SUFFICES ASSUME NEW g \in Frames, NEW j \in Idx, Q[g] \in Upper, n[g][j] \notin Opaque \cup {None}
               PROVE  n[g][j] \in Frames /\ Q[n[g][j]] = Q[g] + 1
    BY DEF Levels
  <2>1. CASE n[g][j] = f
    <3>1. g = t
      BY <1>8, <2>1
    <3> QED
      BY <1>0, <1>1, <1>3, <2>1, <3>1
  <2>2. CASE n[g][j] # f
    <3>1. g # f /\ R[g] = Q[g] /\ R[g] \in Upper /\ n[g][j] = m[g][j]
      BY <1>6, <2>2
    <3>2. m[g][j] \in Frames /\ R[m[g][j]] = R[g] + 1
      BY <3>1 DEF Tree, Levels
    <3> QED
      BY <1>3, <2>2, <3>1, <3>2
  <2> QED
    BY <2>1, <2>2
<1>10. LoaderEntries(n, Q)
  <2> SUFFICES ASSUME NEW g \in Frames, NEW j \in Idx, Q[g] \in Upper, n[g][j] \in DOMAIN Loader
               PROVE  g \in DOMAIN Loader /\ Loader[g][j] = n[g][j]
    BY DEF LoaderEntries
  <2>1. n[g][j] # f /\ n[g][j] # None
    BY <1>0, Ground
  <2>2. R[g] \in Upper /\ n[g][j] = m[g][j]
    BY <1>6, <2>1
  <2> QED
    BY <2>2 DEF Tree, LoaderEntries
<1>11. OneParent(n, Q)
  <2> SUFFICES ASSUME NEW g \in Frames, NEW h \in Frames, NEW j \in Idx, NEW k \in Idx,
                      Q[g] \in Upper, Q[h] \in Upper, n[g][j] = n[h][k],
                      n[g][j] \notin Opaque \cup {None}
               PROVE  g = h /\ j = k
    BY DEF OneParent
  <2>1. CASE n[g][j] = f
    BY <1>8, <2>1
  <2>2. CASE n[g][j] # f
    <3>1. R[g] \in Upper /\ n[g][j] = m[g][j]
      BY <1>6, <2>2
    <3>2. R[h] \in Upper /\ n[h][k] = m[h][k]
      BY <1>6, <2>2
    <3> QED
      <4>1. m[g][j] = m[h][k] /\ m[g][j] \notin Opaque \cup {None}
        BY <3>1, <3>2
      <4>2. OneParent(m, R)
        BY DEF Tree
      <4> QED
        BY <3>1, <3>2, <4>1, <4>2 DEF OneParent
  <2> QED
    BY <2>1, <2>2
<1>12. HasParent(n, Q)
  <2> SUFFICES ASSUME NEW g \in Frames, Q[g] \in 2..4
               PROVE  \E u \in Frames, j \in Idx : Q[u] = Q[g] - 1 /\ n[u][j] = g
    BY DEF HasParent
  <2>1. CASE g = f
    <3>1. Q[t] = Q[g] - 1 /\ n[t][i] = g
      BY <1>1, <1>2, <1>3, <2>1
    <3> QED
      BY <3>1
  <2>2. CASE g # f
    <3>1. R[g] = Q[g]
      BY <1>3, <2>2
    <3>2. PICK u \in Frames, j \in Idx : R[u] = R[g] - 1 /\ m[u][j] = g
      BY <3>1 DEF Tree, HasParent
    <3>3. u # f
      BY <3>1, <3>2 DEF Free
    <3>4. ~ (u = t /\ j = i)
      BY <3>2, Ground
    <3>5. n[u][j] = m[u][j] /\ Q[u] = R[u]
      BY <1>2, <1>3, <3>3, <3>4
    <3> QED
      BY <3>1, <3>2, <3>5
  <2> QED
    BY <2>1, <2>2
<1>13. Leaves(n, Q)
  <2> SUFFICES ASSUME NEW g \in Frames, NEW j \in Idx, Q[g] = 4
               PROVE  n[g][j] \in Phys \cup {None}
    BY DEF Leaves
  <2>1. CASE g = f
    BY <1>2, <2>1
  <2>2. CASE g # f
    <3>1. R[g] = 4 /\ g # t
      BY <1>1, <1>3, <2>2
    <3>2. n[g][j] = m[g][j]
      BY <1>2, <2>2, <3>1
    <3> QED
      BY <3>1, <3>2 DEF Tree, Leaves
  <2> QED
    BY <2>1, <2>2
<1> QED
  BY <1>4, <1>5, <1>9, <1>10, <1>11, <1>12, <1>13 DEF Tree

\* Walks go on where they went, and reach nothing new: the new table is empty.
SameLeaves(m, n) == \A ix : Clear(ix) => Leaf(n, ix) = Leaf(m, ix)

\* Entries of the upper levels that are present stay.
Keeps(m, n, R) ==
    \A t \in Frames, i \in Idx : R[t] \in Upper /\ m[t][i] # None => n[t][i] = m[t][i]

\* A table made in an entry that is not present changes no walk to a frame, and
\* no entry of the upper levels that was present.
LEMMA NewTableWalks ==
    ASSUME NEW m, NEW R, Tree(m, R), NEW t \in Frames, R[t] \in Upper, NEW i \in Idx,
           m[t][i] = None, NEW f \in Own, R[f] = Free,
           NEW n, n = WithTable(m, t, i, f)
    PROVE  SameLeaves(m, n) /\ Keeps(m, n, R)
<1>0. /\ m \in [Frames -> [Idx -> Frames \cup Phys \cup {None}]] /\ R[Root] = 1
      /\ f \in Frames /\ f # None /\ t # f
  BY Ground DEF Tree, Typed, Upper, Free
<1>1. /\ \A j \in Idx : n[f][j] = None
      /\ \A g \in Frames, j \in Idx : g # f /\ (g # t \/ j # i) => n[g][j] = m[g][j]
      /\ n[t][i] = f
  BY <1>0, WithTableIs
<1>2. ASSUME NEW g \in Frames, NEW j \in Idx, R[g] \in 1..4, m[g][j] # None
      PROVE  n[g][j] = m[g][j]
  <2>1. g # f
    BY <1>2 DEF Free
  <2> QED
    BY <1>1, <1>2, <2>1
<1>3. Keeps(m, n, R)
  BY <1>2 DEF Keeps, Upper
\* One step of a walk: as before, or to the new table where there was none.
<1> DEFINE Same(a, b) == b = a \/ (a = None /\ b = f)
<1>4. ASSUME NEW a, NEW b, Same(a, b), NEW j \in Idx,
             a # None => a \in Frames /\ R[a] \in 1..4
      PROVE  Same(Down(m, a, j), Down(n, b, j))
  <2>1. CASE a = None /\ b = f
    BY <1>0, <1>1, <2>1 DEF Down
  <2>2. CASE b = a /\ a = None
    BY <2>2 DEF Down
  <2>3. CASE b = a /\ a # None
    <3>1. CASE m[a][j] # None
      BY <1>2, <1>4, <2>3, <3>1 DEF Down
    <3>2. CASE m[a][j] = None
      <4>1. a # f
        BY <1>4, <2>3 DEF Free
      <4>2. n[a][j] = None \/ n[a][j] = f
        BY <1>1, <1>4, <2>3, <3>2, <4>1
      <4> QED
        BY <2>3, <3>2, <4>2 DEF Down
    <3> QED
      BY <3>1, <3>2
  <2> QED
    BY <1>4, <2>1, <2>2, <2>3
<1>5. ASSUME NEW a, NEW b, Same(a, b), NEW j \in Idx,
             a # None => a \in Frames /\ R[a] = 4
      PROVE  Down(n, b, j) = Down(m, a, j)
  <2>1. CASE a = None /\ b = f
    BY <1>0, <1>1, <2>1 DEF Down
  <2>2. CASE b = a /\ a = None
    BY <2>2 DEF Down
  <2>3. CASE b = a /\ a # None
    <3>1. a # f /\ a # t
      BY <1>5, <2>3 DEF Free, Upper
    <3> QED
      BY <1>1, <1>5, <2>3, <3>1 DEF Down
  <2> QED
    BY <1>5, <2>1, <2>2, <2>3
<1>6. ASSUME NEW ix, Clear(ix) PROVE Leaf(n, ix) = Leaf(m, ix)
  <2>1. ix[1] \in Idx /\ ix[2] \in Idx /\ ix[3] \in Idx /\ ix[4] \in Idx
    BY <1>6 DEF Clear
  <2>2. Root \in Frames /\ Same(Root, Root) /\ R[Root] \in 1..4
    BY <1>0, Ground
  <2>3. /\ Pdpt(m, ix) # None => Pdpt(m, ix) \in Frames /\ R[Pdpt(m, ix)] \in 1..4
        /\ Pd(m, ix) # None => Pd(m, ix) \in Frames /\ R[Pd(m, ix)] \in 1..4
        /\ Pt(m, ix) # None => Pt(m, ix) \in Frames /\ R[Pt(m, ix)] = 4
    BY <1>6, WalkIs, Ground
  <2> HIDE DEF Same
  <2>4. Same(Pdpt(m, ix), Pdpt(n, ix))
    BY <1>4, <2>1, <2>2 DEF Pdpt
  <2>5. Same(Pd(m, ix), Pd(n, ix))
    BY <1>4, <2>1, <2>3, <2>4 DEF Pd
  <2>6. Same(Pt(m, ix), Pt(n, ix))
    BY <1>4, <2>1, <2>3, <2>5 DEF Pt
  <2> QED
    BY <1>5, <2>1, <2>3, <2>6 DEF Leaf
<1> QED
  BY <1>3, <1>6 DEF SameLeaves

-----------------------------------------------------------------------------
(* next_table_or_create                                                      *)

\* A walk of map_page in progress.
Walk(table, m, free, oom) == [table |-> table, mem |-> m, free |-> free, oom |-> oom]

\* The least frame of a set.
LEMMA FirstFreeIs ==
    ASSUME NEW free \in SUBSET Own, free # {}
    PROVE  FirstFree(free) \in free
<1>1. free \in SUBSET Nat
  BY Ground DEF Own
<1>2. \E f \in free : \A g \in free : f <= g
  BY <1>1, Least
<1> QED
  BY <1>2 DEF FirstFree

\* Its fields, and the walk with another value in one of them.
LEMMA WalkFields ==
    ASSUME NEW a, NEW m, NEW free, NEW b
    PROVE  /\ Walk(a, m, free, b).table = a /\ Walk(a, m, free, b).mem = m
           /\ Walk(a, m, free, b).free = free /\ Walk(a, m, free, b).oom = b
           /\ \A c : [Walk(a, m, free, b) EXCEPT !.table = c] = Walk(c, m, free, b)
           /\ \A c : [Walk(a, m, free, b) EXCEPT !.mem = c] = Walk(a, c, free, b)
           /\ \A c : [Walk(a, m, free, b) EXCEPT !.free = c] = Walk(a, m, c, b)
           /\ \A c : [Walk(a, m, free, b) EXCEPT !.oom = c] = Walk(a, m, free, c)
<1> DEFINE w == Walk(a, m, free, b)
<1>1. w.table = a /\ w.mem = m /\ w.free = free /\ w.oom = b
  BY DEF Walk
<1>2. ASSUME NEW c PROVE [w EXCEPT !.table = c] = Walk(c, m, free, b)
  BY DEF Walk
<1>3. ASSUME NEW c PROVE [w EXCEPT !.mem = c] = Walk(a, c, free, b)
  BY DEF Walk
<1>4. ASSUME NEW c PROVE [w EXCEPT !.free = c] = Walk(a, m, c, b)
  BY DEF Walk
<1>5. ASSUME NEW c PROVE [w EXCEPT !.oom = c] = Walk(a, m, free, c)
  BY DEF Walk
<1> HIDE DEF w
<1>6. /\ w.table = a /\ w.mem = m /\ w.free = free /\ w.oom = b
      /\ \A c : [w EXCEPT !.table = c] = Walk(c, m, free, b)
      /\ \A c : [w EXCEPT !.mem = c] = Walk(a, c, free, b)
      /\ \A c : [w EXCEPT !.free = c] = Walk(a, m, c, b)
      /\ \A c : [w EXCEPT !.oom = c] = Walk(a, m, free, c)
  BY <1>1, <1>2, <1>3, <1>4, <1>5
<1> QED
  BY <1>6 DEF w

\* A new table in a walk.
LEMMA NewTableIs ==
    ASSUME NEW a, NEW m, NEW free, NEW b, NEW i, NEW f
    PROVE  NewTable(Walk(a, m, free, b), i, f) = Walk(f, WithTable(m, a, i, f), free \ {f}, b)
<1> DEFINE w == Walk(a, m, free, b)
<1>1. w.table = a /\ w.mem = m /\ w.free = free
  BY WalkFields
<1>2. ASSUME NEW x, NEW y
      PROVE  [w EXCEPT !.mem = x, !.free = y, !.table = f] = Walk(f, x, y, b)
  <2>1. [w EXCEPT !.mem = x] = Walk(a, x, free, b)
    BY WalkFields
  <2>2. [Walk(a, x, free, b) EXCEPT !.free = y] = Walk(a, x, y, b)
    BY WalkFields
  <2>3. [Walk(a, x, y, b) EXCEPT !.table = f] = Walk(f, x, y, b)
    BY WalkFields
  <2> QED
    BY <2>1, <2>2, <2>3
<1> HIDE DEF w
<1>3. NewTable(w, i, f) =
        [w EXCEPT !.mem = WithTable(w.mem, w.table, i, f), !.free = w.free \ {f}, !.table = f]
  BY DEF NewTable, WithTable
<1>4. NewTable(w, i, f) =
        [w EXCEPT !.mem = WithTable(m, a, i, f), !.free = free \ {f}, !.table = f]
  BY <1>1, <1>3
<1>5. NewTable(w, i, f) = Walk(f, WithTable(m, a, i, f), free \ {f}, b)
  BY <1>2, <1>4
<1> QED
  BY <1>5 DEF w

\* Whether alloc_page found none.
Yes == TRUE
No  == FALSE

\* The four outcomes.
LEMMA NextTableIs ==
    ASSUME NEW a, NEW m, NEW free, NEW i
    PROVE  /\ m[a][i] # None =>
                 next_table_or_create(Walk(a, m, free, No), i) = Walk(m[a][i], m, free, No)
           /\ m[a][i] = None /\ free = {} =>
                 next_table_or_create(Walk(a, m, free, No), i) = Walk(a, m, free, Yes)
           /\ m[a][i] = None /\ free # {} =>
                 next_table_or_create(Walk(a, m, free, No), i) =
                    Walk(FirstFree(free), WithTable(m, a, i, FirstFree(free)),
                         free \ {FirstFree(free)}, No)
           /\ next_table_or_create(Walk(a, m, free, Yes), i) = Walk(a, m, free, Yes)
<1> DEFINE w == Walk(a, m, free, No)
           x == Walk(a, m, free, Yes)
<1>1. w.table = a /\ w.mem = m /\ w.free = free
  BY WalkFields
<1>2. ~ w.oom /\ x.oom
  <2>1. w.oom = No /\ x.oom = Yes
    BY WalkFields
  <2> HIDE DEF w, x
  <2> QED
    BY <2>1 DEF Yes, No
<1>3. /\ [w EXCEPT !.table = m[a][i]] = Walk(m[a][i], m, free, No)
      /\ [w EXCEPT !.oom = Yes] = Walk(a, m, free, Yes)
  BY WalkFields
<1>4. NewTable(w, i, FirstFree(free)) =
        Walk(FirstFree(free), WithTable(m, a, i, FirstFree(free)), free \ {FirstFree(free)}, No)
  BY NewTableIs
<1> HIDE DEF w, x
<1>5. next_table_or_create(x, i) = x
  BY <1>2 DEF next_table_or_create
<1>6. /\ m[a][i] # None => next_table_or_create(w, i) = Walk(m[a][i], m, free, No)
      /\ m[a][i] = None /\ free = {} => next_table_or_create(w, i) = Walk(a, m, free, Yes)
      /\ m[a][i] = None /\ free # {} => next_table_or_create(w, i) = NewTable(w, i, FirstFree(free))
  BY <1>1, <1>2, <1>3 DEF next_table_or_create, Yes
<1> QED
  BY <1>4, <1>5, <1>6 DEF w, x

\* The frames that are free.
FreeOf(R) == {f \in Own : R[f] = Free}

\* Free frames become tables.
Grown(R, Q) == \A f \in Frames : Q[f] = R[f] \/ (R[f] = Free /\ f \in Own /\ Q[f] \in 2..4)

\* What tables made on the way leave as it was.
After(m, R, n, Q) == Tree(n, Q) /\ Grown(R, Q) /\ SameLeaves(m, n) /\ Keeps(m, n, R)

\* Making no table is a case of making tables.
LEMMA AfterSelf == ASSUME NEW m, NEW R, Tree(m, R) PROVE After(m, R, m, R)
  BY DEF After, Grown, SameLeaves, Keeps

\* Making tables twice is making tables.
LEMMA AfterAfter ==
    ASSUME NEW m, NEW R, NEW n, NEW Q, NEW o, NEW P, After(m, R, n, Q), After(n, Q, o, P)
    PROVE  After(m, R, o, P)
<1>1. Tree(o, P)
  BY DEF After
<1>2. Grown(R, P)
  <2> SUFFICES ASSUME NEW f \in Frames
               PROVE  P[f] = R[f] \/ (R[f] = Free /\ f \in Own /\ P[f] \in 2..4)
    BY DEF Grown
  <2>1. Q[f] = R[f] \/ (R[f] = Free /\ f \in Own /\ Q[f] \in 2..4)
    BY DEF After, Grown
  <2>2. P[f] = Q[f] \/ (Q[f] = Free /\ f \in Own /\ P[f] \in 2..4)
    BY DEF After, Grown
  <2> QED
    BY <2>1, <2>2 DEF Free
<1>3. SameLeaves(m, o)
  BY DEF After, SameLeaves
<1>4. Keeps(m, o, R)
  <2> SUFFICES ASSUME NEW t \in Frames, NEW i \in Idx, R[t] \in Upper, m[t][i] # None
               PROVE  o[t][i] = m[t][i]
    BY DEF Keeps
  <2>1. n[t][i] = m[t][i]
    BY DEF After, Keeps
  <2>2. Q[t] = R[t]
    BY DEF After, Grown, Upper, Free
  <2> QED
    BY <2>1, <2>2 DEF After, Keeps
<1> QED
  BY <1>1, <1>2, <1>3, <1>4 DEF After

\* One level of the walk: it ends in a table of the next level, or finds no
\* free frame and leaves all as it is.
LEMMA NextTable ==
    ASSUME NEW m, NEW R, Tree(m, R), NEW a \in Frames, R[a] \in Upper, NEW i \in Idx,
           m[a][i] \notin Opaque
    PROVE  \E n, Q, c, b :
             /\ next_table_or_create(Walk(a, m, FreeOf(R), No), i) = Walk(c, n, FreeOf(Q), b)
             /\ After(m, R, n, Q)
             /\ b = Yes \/ (b = No /\ c # None /\ n[a][i] = c)
<1> DEFINE w == Walk(a, m, FreeOf(R), No)
           u == next_table_or_create(w, i)
<1>1. CASE m[a][i] # None
  <2>1. u = Walk(m[a][i], m, FreeOf(R), No)
    BY <1>1, NextTableIs
  <2>2. After(m, R, m, R)
    BY AfterSelf
  <2> QED
    BY <1>1, <2>1, <2>2
<1>2. CASE m[a][i] = None /\ FreeOf(R) = {}
  <2>1. u = Walk(a, m, FreeOf(R), Yes)
    BY <1>2, NextTableIs
  <2>2. After(m, R, m, R)
    BY AfterSelf
  <2> QED
    BY <2>1, <2>2
<1>3. CASE m[a][i] = None /\ FreeOf(R) # {}
  <2> DEFINE f == FirstFree(FreeOf(R))
             n == WithTable(m, a, i, f)
             Q == WithLevel(R, f, R[a] + 1)
  <2>1. f \in Own /\ R[f] = Free
    <3>1. FreeOf(R) \in SUBSET Own
      BY DEF FreeOf
    <3>2. f \in FreeOf(R)
      BY <1>3, <3>1, FirstFreeIs
    <3> QED
      BY <3>2 DEF FreeOf
  <2>2. u = Walk(f, n, FreeOf(R) \ {f}, No)
    BY <1>3, NextTableIs
  <2> HIDE DEF f
  <2>3. R \in [Frames -> 0..10] /\ f \in Frames /\ f # None /\ a # f
    BY <2>1, Ground DEF Tree, Typed, Upper, Free
  <2>4. Q[f] = R[a] + 1 /\ R[a] \in 1..3 /\ \A g \in Frames : g # f => Q[g] = R[g]
    BY <2>3 DEF WithLevel, Upper
  <2>5. Tree(n, Q)
    BY <1>3, <2>1, NewTableTree
  <2>6. SameLeaves(m, n) /\ Keeps(m, n, R)
    BY <1>3, <2>1, NewTableWalks
  <2>7. n[a][i] = f
    <3>1. m \in [Frames -> [Idx -> Frames \cup Phys \cup {None}]]
      BY DEF Tree, Typed
    <3> QED
      BY <2>1, <2>3, <3>1, WithTableIs
  <2> HIDE DEF Q, n
  <2>8. FreeOf(Q) = FreeOf(R) \ {f}
    BY <2>1, <2>4, Ground DEF FreeOf, Free
  <2>9. Grown(R, Q)
    BY <2>1, <2>4 DEF Grown
  <2>10. After(m, R, n, Q)
    BY <2>5, <2>6, <2>9 DEF After
  <2>11. u = Walk(f, n, FreeOf(Q), No)
    BY <2>2, <2>8 DEF n
  <2> QED
    BY <2>3, <2>7, <2>10, <2>11
<1> QED
  BY <1>1, <1>2, <1>3

\* The three calls of map_page.
ThreeLevels(m, free, ix) ==
    next_table_or_create(
        next_table_or_create(
            next_table_or_create(Walk(Root, m, free, No), ix[1]), ix[2]), ix[3])

\* They end in the table of the last level, or find no free frame on the way.
LEMMA ThreeLevelsIs ==
    ASSUME NEW m, NEW R, Tree(m, R), NEW ix, Clear(ix)
    PROVE  \E n, Q, c, b :
             /\ ThreeLevels(m, FreeOf(R), ix) = Walk(c, n, FreeOf(Q), b)
             /\ After(m, R, n, Q)
             /\ b = Yes \/ (b = No /\ c # None /\ c = Pt(n, ix))
<1> DEFINE pml4 == Walk(Root, m, FreeOf(R), No)
           pdpt == next_table_or_create(pml4, ix[1])
           pd   == next_table_or_create(pdpt, ix[2])
           pt   == next_table_or_create(pd, ix[3])
<1>0. ix[1] \in Idx /\ ix[2] \in Idx /\ ix[3] \in Idx
  BY DEF Clear
<1>a. \A a, n, free, i : next_table_or_create(Walk(a, n, free, Yes), i) = Walk(a, n, free, Yes)
  BY NextTableIs
<1>b. ThreeLevels(m, FreeOf(R), ix) = pt
  BY DEF ThreeLevels
<1>1. PICK n1, Q1, c1, b1 :
        /\ pdpt = Walk(c1, n1, FreeOf(Q1), b1)
        /\ After(m, R, n1, Q1)
        /\ b1 = Yes \/ (b1 = No /\ c1 # None /\ n1[Root][ix[1]] = c1)
  <2>1. Root \in Frames /\ R[Root] \in Upper
    BY Ground DEF Tree, Typed, Upper
  <2>2. m[Root][ix[1]] \notin Opaque
    BY WalkIs
  <2> QED
    BY <1>0, <2>1, <2>2, NextTable
<1> HIDE DEF pdpt
<1>2. CASE b1 = Yes
  <2>1. pt = Walk(c1, n1, FreeOf(Q1), Yes)
    BY <1>a, <1>1, <1>2
  <2> QED
    BY <1>b, <1>1, <1>2, <2>1
<1>3. CASE b1 = No /\ c1 # None /\ n1[Root][ix[1]] = c1
  <2>0. Tree(n1, Q1)
    BY <1>1 DEF After
  <2>1. c1 = Pdpt(n1, ix)
    BY <1>3, Ground DEF Pdpt, Down
  <2>2. c1 \in Frames /\ Q1[c1] \in Upper /\ Q1[Root] \in Upper /\ n1[c1][ix[2]] \notin Opaque
    BY <1>3, <2>0, <2>1, WalkIs DEF Upper, Tree, Typed
  <2>3. PICK n2, Q2, c2, b2 :
          /\ pd = Walk(c2, n2, FreeOf(Q2), b2)
          /\ After(n1, Q1, n2, Q2)
          /\ b2 = Yes \/ (b2 = No /\ c2 # None /\ n2[c1][ix[2]] = c2)
    BY <1>0, <1>1, <1>3, <2>0, <2>2, NextTable
  <2> HIDE DEF pd
  <2>4. After(m, R, n2, Q2)
    BY <1>1, <2>3, AfterAfter
  <2>5. CASE b2 = Yes
    <3>1. pt = Walk(c2, n2, FreeOf(Q2), Yes)
      BY <1>a, <2>3, <2>5
    <3> QED
      BY <1>b, <2>4, <2>5, <3>1
  <2>6. CASE b2 = No /\ c2 # None /\ n2[c1][ix[2]] = c2
    <3>0. Tree(n2, Q2)
      BY <2>3 DEF After
    <3>1. n2[Root][ix[1]] = c1
      BY <1>0, <1>3, <2>2, <2>3, Ground DEF After, Keeps
    <3>2. c1 = Pdpt(n2, ix) /\ c2 = Pd(n2, ix)
      BY <1>3, <2>6, <3>1, Ground DEF Pdpt, Pd, Down
    <3>3. /\ c1 \in Frames /\ Q2[c1] \in Upper /\ Q2[Root] \in Upper
          /\ c2 \in Frames /\ Q2[c2] \in Upper /\ n2[c2][ix[3]] \notin Opaque
      BY <1>3, <2>6, <3>0, <3>2, WalkIs DEF Upper, Tree, Typed
    <3>4. PICK n3, Q3, c3, b3 :
            /\ pt = Walk(c3, n3, FreeOf(Q3), b3)
            /\ After(n2, Q2, n3, Q3)
            /\ b3 = Yes \/ (b3 = No /\ c3 # None /\ n3[c2][ix[3]] = c3)
      BY <1>0, <2>3, <2>6, <3>0, <3>3, NextTable
    <3> HIDE DEF pt
    <3>5. After(m, R, n3, Q3)
      BY <2>4, <3>4, AfterAfter
    <3>6. CASE b3 = Yes
      BY <1>b, <3>4, <3>5, <3>6
    <3>7. CASE b3 = No /\ c3 # None /\ n3[c2][ix[3]] = c3
      <4>1. n3[Root][ix[1]] = c1 /\ n3[c1][ix[2]] = c2
        BY <1>0, <1>3, <2>6, <3>1, <3>3, <3>4, Ground DEF After, Keeps
      <4>2. c1 = Pdpt(n3, ix) /\ c2 = Pd(n3, ix) /\ c3 = Pt(n3, ix)
        BY <1>3, <2>6, <3>7, <4>1, Ground DEF Pdpt, Pd, Pt, Down
      <4> QED
        BY <1>b, <3>4, <3>5, <3>7, <4>2
    <3> QED
      BY <3>4, <3>6, <3>7
  <2> QED
    BY <2>3, <2>5, <2>6
<1> QED
  BY <1>1, <1>2, <1>3

\* What map_page walks through is three levels below the root.
LEMMA PageTableIs ==
    ASSUME NEW ix
    PROVE  PageTable(ix) = ThreeLevels(mem, freePages, ix)
<1>1. [table |-> Root, mem |-> mem, free |-> freePages, oom |-> FALSE]
        = Walk(Root, mem, freePages, No)
  BY DEF Walk, No
<1> QED
  BY <1>1 DEF PageTable, ThreeLevels

-----------------------------------------------------------------------------
(* The indices of a page                                                     *)

\* They are indices, and say which page it is.
LEMMA SplitIs ==
    ASSUME NEW v \in Pages, NEW ix, ix = split_indices(v)
    PROVE  /\ ix[1] \in Idx /\ ix[2] \in Idx /\ ix[3] \in Idx /\ ix[4] \in Idx
           /\ ((ix[1] * TABLE_SIZE + ix[2]) * TABLE_SIZE + ix[3]) * TABLE_SIZE + ix[4] = v
<1> DEFINE T  == TABLE_SIZE
           q1 == v \div T
           q2 == q1 \div T
           q3 == q2 \div T
<1>1. T \in Nat \ {0} /\ v \in Nat /\ v < ((T * T) * T) * T
  <2>1. T \in Nat \ {0, 1} /\ v \in 0..(((T * T) * T) * T - 1)
    BY VmmAssumption
  <2>2. (T * T) * T \in Int
    BY <2>1
  <2>3. ((T * T) * T) * T \in Int
    BY <2>1, <2>2
  <2> QED
    BY <2>1, <2>3
<1>2. T * T \in Nat \ {0} /\ (T * T) * T \in Nat \ {0}
  <2>1. T * T \in Nat \ {0}
    BY <1>1
  <2> QED
    BY <1>1, <2>1
<1>3. ix[1] = v \div ((T * T) * T) /\ ix[2] = (v \div (T * T)) % T /\ ix[3] = q1 % T /\ ix[4] = v % T
  BY DEF split_indices
<1> HIDE DEF T
<1>4. v \div (T * T) = q2
  BY <1>1, DivTwice
<1>5. v \div ((T * T) * T) = q3
  <2>1. \A b \in Nat \ {0} : (v \div b) \div T = v \div (b * T)
    BY <1>1, DivTwice
  <2>2. (v \div (T * T)) \div T = v \div ((T * T) * T)
    BY <1>2, <2>1
  <2> QED
    BY <1>4, <2>2
<1>6. q1 \in Nat /\ v % T \in 0..(T - 1) /\ v = q1 * T + (v % T) /\ q1 < (T * T) * T
  <2>1. q1 < (T * T) * T
    BY <1>1, <1>2, DivLess
  <2> QED
    BY <1>1, <2>1, DivMod
<1> HIDE DEF q1
<1>7. q2 \in Nat /\ q1 % T \in 0..(T - 1) /\ q1 = q2 * T + (q1 % T) /\ q2 < T * T
  <2>1. q2 < T * T
    BY <1>1, <1>2, <1>6, DivLess
  <2> QED
    BY <1>1, <1>6, <2>1, DivMod
<1> HIDE DEF q2
<1>8. q3 \in Nat /\ q2 % T \in 0..(T - 1) /\ q2 = q3 * T + (q2 % T) /\ q3 < T
  <2>1. q3 < T
    BY <1>1, <1>7, DivLess
  <2> QED
    BY <1>1, <1>7, <2>1, DivMod
<1> HIDE DEF q3
<1>9. ix[1] = q3 /\ ix[2] = q2 % T
  BY <1>3, <1>4, <1>5
<1>10. ix[1] \in 0..(T - 1) /\ ix[2] \in 0..(T - 1) /\ ix[3] \in 0..(T - 1) /\ ix[4] \in 0..(T - 1)
  BY <1>1, <1>3, <1>6, <1>7, <1>8, <1>9
<1>11. ((ix[1] * T + ix[2]) * T + ix[3]) * T + ix[4] = v
  BY ONLY <1>3, <1>6, <1>7, <1>8, <1>9
<1> QED
  BY <1>10, <1>11 DEF T, Idx

\* No opaque frame of the boot loader is on the way.
LEMMA SplitClear ==
    ASSUME NEW v \in Pages
    PROVE  Clear(split_indices(v))
<1> DEFINE ix == split_indices(v)
<1>1. /\ ix[1] \in Idx /\ ix[2] \in Idx /\ ix[3] \in Idx /\ ix[4] \in Idx
      /\ ((ix[1] * TABLE_SIZE + ix[2]) * TABLE_SIZE + ix[3]) * TABLE_SIZE + ix[4] \in Pages
  BY SplitIs
<1> HIDE DEF ix
<1>2. \A i, j, k, l \in Idx :
          ((i * TABLE_SIZE + j) * TABLE_SIZE + k) * TABLE_SIZE + l \in Pages =>
             /\ Loader[Root][i] \notin Opaque
             /\ Loader[Root][i] \in Pdpts =>
                  LET pdpt == Loader[Root][i] IN
                  /\ Loader[pdpt][j] \notin Opaque
                  /\ Loader[pdpt][j] \in Pds => Loader[Loader[pdpt][j]][k] \notin Opaque
  BY DirectMapAssumption DEF Pdpts, Pds
<1>3. Clear(ix)
  BY <1>1, <1>2 DEF Clear
<1> QED
  BY <1>3 DEF ix

\* Two pages have different indices.
LEMMA SplitInjective ==
    ASSUME NEW v \in Pages, NEW u \in Pages, NEW ix, NEW iy,
           ix = split_indices(v), iy = split_indices(u),
           ix[1] = iy[1], ix[2] = iy[2], ix[3] = iy[3], ix[4] = iy[4]
    PROVE  v = u
  BY SplitIs

-----------------------------------------------------------------------------
(* The entry of a page                                                       *)

WithLeaf(m, t, j, p) == [m EXCEPT ![t][j] = p]

\* Writing an entry changes that entry and no other.
LEMMA WithLeafIs ==
    ASSUME NEW m \in [Frames -> [Idx -> Frames \cup Phys \cup {None}]],
           NEW t \in Frames, NEW j \in Idx, NEW p \in Phys \cup {None},
           NEW n, n = WithLeaf(m, t, j, p)
    PROVE  /\ n \in [Frames -> [Idx -> Frames \cup Phys \cup {None}]]
           /\ n[t][j] = p
           /\ \A g \in Frames, i \in Idx : g # t \/ i # j => n[g][i] = m[g][i]
<1> DEFINE row == [m[t] EXCEPT ![j] = p]
<1>1. /\ row \in [Idx -> Frames \cup Phys \cup {None}]
      /\ row[j] = p /\ \A i \in Idx : i # j => row[i] = m[t][i]
  OBVIOUS
<1>2. n = [m EXCEPT ![t] = row]
  BY DEF WithLeaf
<1> HIDE DEF row
<1>3. /\ n \in [Frames -> [Idx -> Frames \cup Phys \cup {None}]]
      /\ n[t] = row /\ \A g \in Frames : g # t => n[g] = m[g]
  BY <1>1, <1>2
<1> QED
  BY <1>1, <1>3

\* It is in a table of the last level: the upper levels stay as they are.
LEMMA WithLeafTree ==
    ASSUME NEW m, NEW R, Tree(m, R), NEW t \in Frames, R[t] = 4, NEW j \in Idx,
           NEW p \in Phys \cup {None}, NEW n, n = WithLeaf(m, t, j, p)
    PROVE  /\ Tree(n, R)
           /\ \A g \in Frames, i \in Idx : R[g] \in Upper => n[g][i] = m[g][i]
<1>0. m \in [Frames -> [Idx -> Frames \cup Phys \cup {None}]] /\ R \in [Frames -> 0..10] /\ R[Root] = 1
  BY DEF Tree, Typed
<1>1. /\ n \in [Frames -> [Idx -> Frames \cup Phys \cup {None}]]
      /\ n[t][j] = p
      /\ \A g \in Frames, i \in Idx : g # t \/ i # j => n[g][i] = m[g][i]
  BY <1>0, WithLeafIs
<1>2. \A g \in Frames, i \in Idx : R[g] # 4 => n[g][i] = m[g][i]
  BY <1>1
<1>3. \A g \in Frames, i \in Idx : R[g] \in Upper => n[g][i] = m[g][i]
  BY <1>2 DEF Upper
<1>4. Typed(n, R)
  BY <1>0, <1>1 DEF Typed
<1>5. LoaderKept(n, R)
  <2> SUFFICES ASSUME NEW g \in DOMAIN Loader
               PROVE  /\ R[g] \in 0..3 /\ (g \in Opaque => R[g] = 0)
                      /\ \A i \in Idx : Loader[g][i] # None \/ R[g] = 0 => n[g][i] = Loader[g][i]
    BY DEF LoaderKept
  <2>1. /\ R[g] \in 0..3 /\ (g \in Opaque => R[g] = 0)
        /\ \A i \in Idx : Loader[g][i] # None \/ R[g] = 0 => m[g][i] = Loader[g][i]
    BY DEF Tree, LoaderKept
  <2>2. g \in Frames /\ R[g] # 4
    BY <2>1, Ground
  <2> QED
    BY <1>2, <2>1, <2>2
<1>6. Levels(n, R)
  BY <1>3 DEF Tree, Levels
<1>7. LoaderEntries(n, R)
  BY <1>3 DEF Tree, LoaderEntries
<1>8. OneParent(n, R)
  <2> SUFFICES ASSUME NEW g \in Frames, NEW h \in Frames, NEW i \in Idx, NEW k \in Idx,
                      R[g] \in Upper, R[h] \in Upper, n[g][i] = n[h][k],
                      n[g][i] \notin Opaque \cup {None}
               PROVE  g = h /\ i = k
    BY DEF OneParent
  <2>1. m[g][i] = m[h][k] /\ m[g][i] \notin Opaque \cup {None}
    BY <1>3
  <2>2. OneParent(m, R)
    BY DEF Tree
  <2> QED
    BY <2>1, <2>2 DEF OneParent
<1>9. HasParent(n, R)
  <2> SUFFICES ASSUME NEW f \in Frames, R[f] \in 2..4
               PROVE  \E u \in Frames, i \in Idx : R[u] = R[f] - 1 /\ n[u][i] = f
    BY DEF HasParent
  <2>1. PICK u \in Frames, i \in Idx : R[u] = R[f] - 1 /\ m[u][i] = f
    BY DEF Tree, HasParent
  <2>2. n[u][i] = m[u][i]
    BY <1>2, <2>1
  <2> QED
    BY <2>1, <2>2
<1>10. Leaves(n, R)
  <2> SUFFICES ASSUME NEW g \in Frames, NEW i \in Idx, R[g] = 4
               PROVE  n[g][i] \in Phys \cup {None}
    BY DEF Leaves
  <2>1. m[g][i] \in Phys \cup {None}
    BY DEF Tree, Leaves
  <2> QED
    BY <1>1, <2>1
<1> QED
  BY <1>3, <1>4, <1>5, <1>6, <1>7, <1>8, <1>9, <1>10 DEF Tree

\* It changes the walks with these indices, and no other.
LEMMA WithLeafWalks ==
    ASSUME NEW m, NEW R, Tree(m, R), NEW ix, Clear(ix), Pt(m, ix) # None,
           NEW p \in Phys \cup {None}, NEW n, n = WithLeaf(m, Pt(m, ix), ix[4], p)
    PROVE  /\ Leaf(n, ix) = p
           /\ \A iy : Clear(iy) =>
                \/ Leaf(n, iy) = Leaf(m, iy)
                \/ ix[1] = iy[1] /\ ix[2] = iy[2] /\ ix[3] = iy[3] /\ ix[4] = iy[4]
<1> DEFINE t == Pt(m, ix)
<1>0. /\ m \in [Frames -> [Idx -> Frames \cup Phys \cup {None}]] /\ R[Root] \in Upper
      /\ t \in Frames /\ R[t] = 4 /\ t # None /\ ix[4] \in Idx
  <2>1. t \in Own /\ R[t] = 4
    BY WalkIs
  <2>2. t \in Frames /\ t # None
    BY <2>1, Ground
  <2> QED
    BY <2>1, <2>2 DEF Tree, Typed, Clear, Upper
<1> HIDE DEF t
<1>1. n[t][ix[4]] = p /\ \A g \in Frames, i \in Idx : g # t \/ i # ix[4] => n[g][i] = m[g][i]
  BY <1>0, WithLeafIs DEF t
<1>2. \A g \in Frames, i \in Idx : R[g] \in Upper => n[g][i] = m[g][i]
  BY <1>0, WithLeafTree DEF t
<1>3. ASSUME NEW iy, Clear(iy) PROVE Pt(n, iy) = Pt(m, iy)
  <2>1. iy[1] \in Idx /\ iy[2] \in Idx /\ iy[3] \in Idx
    BY <1>3 DEF Clear
  <2>2. Pdpt(n, iy) = Pdpt(m, iy)
    BY <1>0, <1>2, <2>1, Ground DEF Pdpt, Down
  <2>3. Pd(n, iy) = Pd(m, iy)
    <3>1. Pdpt(m, iy) # None => Pdpt(m, iy) \in Frames /\ R[Pdpt(m, iy)] \in Upper
      BY <1>3, WalkIs DEF Upper
    <3> QED
      BY <1>2, <2>1, <2>2, <3>1 DEF Pd, Down
  <2> QED
    <3>1. Pd(m, iy) # None => Pd(m, iy) \in Frames /\ R[Pd(m, iy)] \in Upper
      BY <1>3, WalkIs DEF Upper
    <3> QED
      BY <1>2, <2>1, <2>3, <3>1 DEF Pt, Down
<1>4. Leaf(n, ix) = p
  <2>1. Pt(n, ix) = t
    BY <1>3 DEF t
  <2> QED
    BY <1>0, <1>1, <2>1 DEF Leaf, Down
<1>5. ASSUME NEW iy, Clear(iy), Leaf(n, iy) # Leaf(m, iy)
      PROVE  ix[1] = iy[1] /\ ix[2] = iy[2] /\ ix[3] = iy[3] /\ ix[4] = iy[4]
  <2>1. Pt(n, iy) = Pt(m, iy)
    BY <1>3, <1>5
  <2>2. Pt(m, iy) # None /\ n[Pt(m, iy)][iy[4]] # m[Pt(m, iy)][iy[4]]
    BY <1>5, <2>1 DEF Leaf, Down
  <2>3. Pt(m, iy) \in Frames /\ iy[4] \in Idx
    BY <1>5, <2>2, WalkIs, Ground DEF Clear
  <2>4. Pt(m, iy) = t /\ iy[4] = ix[4]
    BY <1>1, <2>2, <2>3
  <2> QED
    BY <1>5, <2>4, SameTable DEF t
<1> QED
  BY <1>4, <1>5

-----------------------------------------------------------------------------
(* map_page and unmap_page                                                   *)

\* The frame of a page in the tables m.
AtPage(m, v) == Leaf(m, split_indices(v))

\* What walk_existing and get_phys_addr return are the walks in mem.
LEMMA PhysIs ==
    /\ \A v : get_phys_addr(v) = AtPage(mem, v) /\ get_phys_addr(v)' = AtPage(mem', v)
    /\ \A ix : walk_existing(ix) = Pt(mem, ix)
<1>1. \A ix : walk_existing(ix) = Pt(mem, ix)
  BY DEF walk_existing, Entry, Pt, Pd, Pdpt, Down
<1>2. \A v : get_phys_addr(v) = AtPage(mem, v)
  BY DEF get_phys_addr, walk_existing, Entry, AtPage, Leaf, Pt, Pd, Pdpt, Down
<1>3. \A v : get_phys_addr(v)' = AtPage(mem', v)
  BY DEF get_phys_addr, walk_existing, Entry, AtPage, Leaf, Pt, Pd, Pdpt, Down
<1> QED
  BY <1>1, <1>2, <1>3

\* Page v leads to p, every other page to where it did.
Updated(m, n, v, p) ==
    AtPage(n, v) = p /\ \A u \in Pages : u # v => AtPage(n, u) = AtPage(m, u)

\* Tables whose clear walks agree lead every page to the same frame.
LEMMA SameLeavesAt ==
    ASSUME NEW m, NEW n, SameLeaves(m, n), NEW v \in Pages
    PROVE  AtPage(n, v) = AtPage(m, v)
  BY SplitClear DEF SameLeaves, AtPage

\* Writing the entry of a page.
LEMMA LeafOfPage ==
    ASSUME NEW m, NEW R, Tree(m, R), NEW v \in Pages, NEW ix, ix = split_indices(v),
           Pt(m, ix) # None, NEW p \in Phys \cup {None},
           NEW n, n = WithLeaf(m, Pt(m, ix), ix[4], p)
    PROVE  Tree(n, R) /\ Updated(m, n, v, p)
<1>1. Clear(ix)
  BY SplitClear
<1>2. Pt(m, ix) \in Frames /\ R[Pt(m, ix)] = 4 /\ ix[4] \in Idx
  BY <1>1, WalkIs, Ground DEF Clear
<1>3. Tree(n, R)
  BY <1>2, WithLeafTree
<1>4. AtPage(n, v) = p
  BY <1>1, WithLeafWalks DEF AtPage
<1>5. ASSUME NEW u \in Pages, u # v PROVE AtPage(n, u) = AtPage(m, u)
  <2> DEFINE iy == split_indices(u)
  <2>1. Clear(iy)
    BY SplitClear
  <2>2. ~ (ix[1] = iy[1] /\ ix[2] = iy[2] /\ ix[3] = iy[3] /\ ix[4] = iy[4])
    BY <1>5, SplitInjective
  <2> HIDE DEF iy
  <2>3. Leaf(n, iy) = Leaf(m, iy)
    BY <1>1, <2>1, <2>2, WithLeafWalks
  <2> QED
    BY <2>3 DEF iy, AtPage
<1> QED
  BY <1>3, <1>4, <1>5 DEF Updated

\* map_page maps its page and changes no other, or panics and changes none.
LEMMA MapPage ==
    ASSUME NEW R, Tree(mem, R), freePages = FreeOf(R), NEW v \in Pages, NEW p \in Phys,
           map_page(v, p)
    PROVE  /\ \E Q : /\ Tree(mem', Q) /\ Grown(R, Q) /\ freePages' = FreeOf(Q)
                     /\ \/ /\ panicked' = TRUE /\ tlb' = tlb
                           /\ \A u \in Pages : AtPage(mem', u) = AtPage(mem, u)
                        \/ /\ panicked' = FALSE /\ tlb' = [tlb EXCEPT ![v] = None]
                           /\ Updated(mem, mem', v, p)
           /\ seen' = Unseen
<1> DEFINE ix == split_indices(v)
           pt == PageTable(ix)
<1>1. Clear(ix)
  BY SplitClear
<1>2. PICK n, Q, c, b :
        /\ pt = Walk(c, n, FreeOf(Q), b)
        /\ After(mem, R, n, Q)
        /\ b = Yes \/ (b = No /\ c # None /\ c = Pt(n, ix))
  <2> HIDE DEF ix
  <2>1. pt = ThreeLevels(mem, FreeOf(R), ix)
    BY PageTableIs
  <2> HIDE DEF pt
  <2> QED
    BY <1>1, <2>1, ThreeLevelsIs
<1>3. /\ freePages' = pt.free /\ panicked' = pt.oom /\ seen' = Unseen
      /\ pt.oom => mem' = pt.mem /\ tlb' = tlb
      /\ ~ pt.oom => mem' = WithLeaf(pt.mem, pt.table, ix[4], p) /\ tlb' = [tlb EXCEPT ![v] = None]
  BY DEF map_page, invlpg, WithLeaf
<1> HIDE DEF ix, pt
<1>4. pt.table = c /\ pt.mem = n /\ pt.free = FreeOf(Q) /\ pt.oom = b
  BY <1>2, WalkFields
<1>5. Tree(n, Q) /\ Grown(R, Q)
  BY <1>2 DEF After
<1>6. \A u \in Pages : AtPage(n, u) = AtPage(mem, u)
  BY <1>2, SameLeavesAt DEF After
<1>7. CASE b = Yes
  <2>1. pt.oom
    BY <1>4, <1>7 DEF Yes
  <2>2. mem' = n /\ tlb' = tlb /\ panicked' = TRUE /\ freePages' = FreeOf(Q)
    BY <1>3, <1>4, <1>7, <2>1 DEF Yes
  <2> QED
    BY <1>3, <1>5, <1>6, <2>2
<1>8. CASE b = No /\ c # None /\ c = Pt(n, ix)
  <2>1. ~ pt.oom
    BY <1>4, <1>8 DEF No
  <2>2. /\ mem' = WithLeaf(n, Pt(n, ix), ix[4], p)
        /\ tlb' = [tlb EXCEPT ![v] = None] /\ freePages' = FreeOf(Q)
    BY <1>3, <1>4, <1>8, <2>1
  <2>3. panicked' = FALSE
    BY <1>3, <1>4, <1>8 DEF No
  <2>4. Tree(mem', Q) /\ Updated(n, mem', v, p)
    BY <1>5, <1>8, <2>2, LeafOfPage DEF ix
  <2>5. Updated(mem, mem', v, p)
    BY <1>6, <2>4 DEF Updated
  <2> QED
    BY <1>3, <1>5, <2>2, <2>3, <2>4, <2>5
<1> QED
  BY <1>2, <1>7, <1>8

\* unmap_page removes its page and changes no other.
LEMMA UnmapPage ==
    ASSUME NEW R, Tree(mem, R), NEW v \in Pages, unmap_page(v)
    PROVE  /\ Tree(mem', R) /\ Updated(mem, mem', v, None)
           /\ tlb' = [tlb EXCEPT ![v] = None] /\ seen' = Unseen
           /\ UNCHANGED <<freePages, panicked>>
<1> DEFINE ix == split_indices(v)
<1>1. Pt(mem, ix) # None /\ mem' = WithLeaf(mem, Pt(mem, ix), ix[4], None)
  BY PhysIs DEF unmap_page, WithLeaf
<1>2. /\ tlb' = [tlb EXCEPT ![v] = None] /\ seen' = Unseen
      /\ UNCHANGED <<freePages, panicked>>
  BY DEF unmap_page, invlpg
<1>3. Tree(mem', R) /\ Updated(mem, mem', v, None)
  BY <1>1, LeafOfPage
<1> QED
  BY <1>2, <1>3

-----------------------------------------------------------------------------
(* map_fresh_pages, and the heap                                             *)

\* The pages that are mapped at the end of the heap, or will be the first.
ForBoot == phase = "boot" /\ job.size = 0 /\ job.n = H!InitPages /\ job.virt = PageOf(HEAP_START)

ForExpansion ==
    /\ job.size \in Sizes /\ H!Exhausted(job.size) /\ H!InBounds(job.size)
    /\ job.n = H!ExtraPages(job.size) /\ job.virt = PageOf(HEAP_END)

\* While pages are mapped one by one, what kmalloc_init or expand_heap was
\* called for stays as it was.
JobInv ==
    /\ job \in [size : Sizes \cup {0, None}, virt : Nat, n : Nat, i : Nat]
    /\ job.i <= job.n /\ (job # NoJob => job.n # 0)
    /\ hand # None => job.i < job.n
    /\ phase # "panic" /\ job # NoJob => ForBoot \/ ForExpansion

HeapEnd == HEAP_END \in Nat /\ HEAP_START <= HEAP_END

\* The heap's constants satisfy what HeapProofs assumes, and its page counts
\* are the same in both instances.
LEMMA HeapConstants ==
    /\ HP!HeapAssumption
    /\ H!InitPages = HP!InitPages
    /\ \A n : H!ExtraPages(n) = HP!ExtraPages(n) /\ H!ExtraBytes(n) = HP!ExtraBytes(n)
<1>1. HP!HeapAssumption
  BY MemoryAssumption DEF HP!HeapAssumption
<1>2. H!InitPages = HP!InitPages
  BY DEF H!InitPages, HP!InitPages, H!RoundUp, HP!RoundUp
<1>3. \A n : H!ExtraPages(n) = HP!ExtraPages(n) /\ H!ExtraBytes(n) = HP!ExtraBytes(n)
  BY DEF H!ExtraPages, HP!ExtraPages, H!ExtraBytes, HP!ExtraBytes, H!align_up, HP!align_up,
         H!RoundUp, HP!RoundUp
<1> QED
  BY <1>1, <1>2, <1>3

\* There are pages to map.
LEMMA PageCounts ==
    /\ H!InitPages \in Nat \ {0}
    /\ \A n \in Sizes : n \in Nat \ {0} /\ H!ExtraPages(n) \in Nat \ {0}
    /\ NoJob.n = 0 /\ NoJob.i = 0
    /\ NoJob \in [size : Sizes \cup {0, None}, virt : Nat, n : Nat, i : Nat]
<1>1. HEADER_SIZE \in Nat \ {0} /\ PAGE_SIZE \in Nat \ {0}
  BY MemoryAssumption
<1>2. H!InitPages \in Nat \ {0}
  BY <1>1, HeapConstants, HP!InitPagesIs
<1>3. ASSUME NEW n \in Sizes PROVE n \in Nat \ {0} /\ H!ExtraPages(n) \in Nat \ {0}
  <2>1. /\ n \in Nat \ {0} /\ HP!ExtraPages(n) \in Nat
        /\ HP!ExtraPages(n) * PAGE_SIZE - HEADER_SIZE \in Nat \ {0}
    BY HeapConstants, HP!ExtraPagesIs
  <2>2. HP!ExtraPages(n) # 0
    BY <1>1, <2>1
  <2> QED
    BY <2>1, <2>2, HeapConstants
<1>4. PageOf(0) \in Nat
  BY <1>1 DEF PageOf
<1> QED
  BY <1>2, <1>3, <1>4 DEF NoJob, Job

\* At first no pages are being mapped.
LEMMA JobInit == MemoryInit => JobInv
  BY PageCounts DEF MemoryInit, JobInv

\* The heap and the pages in progress stay.
LEMMA JobSame ==
    ASSUME JobInv, job' = job, UNCHANGED heap, hand' # None => job.i < job.n
    PROVE  JobInv'
<1>1. /\ phase' = phase /\ blocks' = blocks /\ HEAP_END' = HEAP_END /\ retry' = retry
  BY DEF heap
<1>2. ForBoot' <=> ForBoot
  BY <1>1 DEF ForBoot
<1>3. ForExpansion' <=> ForExpansion
  BY <1>1 DEF ForExpansion, H!Exhausted, H!InBounds, H!Fits
<1> QED
  BY <1>1, <1>2, <1>3 DEF JobInv

\* None are being mapped afterwards.
LEMMA JobNone ==
    ASSUME job' = NoJob, hand' = None
    PROVE  JobInv'
  BY PageCounts DEF JobInv

\* Every step keeps what is known of the pages being mapped.
LEMMA JobStep ==
    ASSUME JobInv, HeapEnd, [MemoryNext]_memoryVars
    PROVE  JobInv'
<1>0. job = NoJob => hand = None
  BY PageCounts DEF JobInv
<1>1. CASE kmalloc_init
  <2>1. /\ phase = "boot" /\ job' = Job(0, HEAP_START, H!InitPages)
        /\ phase' = phase /\ hand' = None
    BY <1>0, <1>1 DEF kmalloc_init, Ready, heap
  <2>2. PageOf(HEAP_START) \in Nat
    BY MemoryAssumption DEF PageOf
  <2>3. job'.i <= job'.n /\ job' \in [size : Sizes \cup {0, None}, virt : Nat, n : Nat, i : Nat]
    BY <2>1, <2>2, PageCounts DEF Job
  <2>4. job'.n # 0
    BY <2>1, PageCounts DEF Job
  <2>5. ForBoot'
    BY <2>1 DEF ForBoot, Job
  <2> QED
    BY <2>1, <2>3, <2>4, <2>5 DEF JobInv
<1>2. ASSUME NEW n \in Sizes, expand_heap(n) PROVE JobInv'
  <2>1. /\ H!Exhausted(n) /\ H!InBounds(n) /\ job' = Job(n, HEAP_END, H!ExtraPages(n))
        /\ phase' = phase /\ blocks' = blocks /\ HEAP_END' = HEAP_END /\ retry' = retry
        /\ hand' = None
    BY <1>0, <1>2 DEF expand_heap, Ready, heap
  <2>2. PageOf(HEAP_END) \in Nat
    BY MemoryAssumption DEF PageOf, HeapEnd
  <2>3. job'.i <= job'.n /\ job' \in [size : Sizes \cup {0, None}, virt : Nat, n : Nat, i : Nat]
    BY <2>1, <2>2, PageCounts DEF Job
  <2>4. job'.n # 0
    BY <2>1, PageCounts DEF Job
  <2>5. job'.size = n /\ job'.n = H!ExtraPages(n) /\ job'.virt = PageOf(HEAP_END)
    BY <2>1 DEF Job
  <2>6. H!Exhausted(n)' /\ H!InBounds(n)'
    BY <2>1 DEF H!Exhausted, H!InBounds, H!Fits
  <2>7. ForExpansion'
    BY <2>1, <2>5, <2>6 DEF ForExpansion
  <2> QED
    BY <2>1, <2>3, <2>4, <2>7 DEF JobInv
<1>3. CASE AllocFresh
  <2>1. job' = job /\ job.i < job.n
    BY <1>3 DEF AllocFresh
  <2>2. UNCHANGED heap \/ (phase' = "panic" /\ hand' = hand)
    BY <1>3 DEF AllocFresh, H!OutOfPages
  <2> QED
    BY <2>1, <2>2, JobSame DEF JobInv
<1>4. CASE MapFresh
  <2>1. hand # None /\ UNCHANGED heap
    BY <1>4 DEF MapFresh
  <2>2. CASE UNCHANGED fresh
    BY <2>1, <2>2, JobSame DEF fresh, JobInv
  <2>3. CASE hand' = None /\ job' = [job EXCEPT !.i = @ + 1]
    <3>1. /\ job.size \in Sizes \cup {0, None} /\ job.virt \in Nat /\ job.n \in Nat /\ job.i \in Nat
          /\ job.i < job.n /\ job # NoJob
      BY <2>1, PageCounts DEF JobInv
    <3>2. /\ job' \in [size : Sizes \cup {0, None}, virt : Nat, n : Nat, i : Nat]
          /\ job'.size = job.size /\ job'.virt = job.virt /\ job'.n = job.n /\ job'.i = job.i + 1
      BY <2>3, <3>1 DEF JobInv
    <3>3. phase' = phase /\ blocks' = blocks /\ HEAP_END' = HEAP_END /\ retry' = retry
      BY <2>1 DEF heap
    <3>4. ForBoot' <=> ForBoot
      BY <3>2, <3>3 DEF ForBoot
    <3>5. ForExpansion' <=> ForExpansion
      BY <3>2, <3>3 DEF ForExpansion, H!Exhausted, H!InBounds, H!Fits
    <3> QED
      BY <2>3, <3>1, <3>2, <3>3, <3>4, <3>5 DEF JobInv
  <2> QED
    BY <1>4, <2>2, <2>3 DEF MapFresh
<1>5. CASE Built
  <2>1. job' = NoJob /\ hand' = None
    BY <1>5 DEF Built, JobInv
  <2> QED
    BY <2>1, JobNone
<1>6. CASE UseHeap
  <2>1. job' = NoJob /\ hand' = None
    BY <1>0, <1>6 DEF UseHeap, Ready, fresh
  <2> QED
    BY <2>1, JobNone
<1>7. CASE new_kernel_task \/ terminate \/ UseDevice
  <2>1. job' = job /\ hand' = hand /\ UNCHANGED heap
    BY <1>7 DEF new_kernel_task, terminate, UseDevice, fresh
  <2> QED
    BY <2>1, JobSame DEF JobInv
<1>8. CASE UNCHANGED memoryVars
  <2>1. job' = job /\ hand' = hand /\ UNCHANGED heap
    BY <1>8 DEF memoryVars, fresh
  <2> QED
    BY <2>1, JobSame DEF JobInv
<1> QED
  BY <1>1, <1>2, <1>3, <1>4, <1>5, <1>6, <1>7, <1>8 DEF MemoryNext

\* The heap only grows.
LEMMA EndStep ==
    ASSUME JobInv, HeapEnd, [MemoryNext]_memoryVars
    PROVE  HeapEnd'
<1>1. \/ HEAP_END' = HEAP_END
      \/ H!FirstBlock
      \/ job.size \in Sizes /\ H!Extend(job.size)
  <2>1. CASE AllocFresh
    BY <2>1 DEF AllocFresh, H!OutOfPages, heap
  <2>2. CASE Built
    <3>1. job.size = 0 \/ job.size \in Sizes
      BY <2>2 DEF Built, Up, JobInv, ForBoot, ForExpansion
    <3> QED
      BY <2>2, <3>1 DEF Built
  <2>3. CASE UseHeap
    <3>1. CASE \E n \in Sizes : H!Take(n) \/ H!TooLarge(n)
      BY <3>1 DEF H!Take, H!TooLarge
    <3>2. CASE \E r \in held : H!kfree(r)
      BY <3>2 DEF H!kfree
    <3> QED
      BY <2>3, <3>1, <3>2 DEF UseHeap
  <2>4. ASSUME NEW n \in Sizes, expand_heap(n) PROVE HEAP_END' = HEAP_END
    BY <2>4 DEF expand_heap, heap
  <2>5. CASE kmalloc_init \/ MapFresh \/ new_kernel_task \/ terminate \/ UseDevice
    BY <2>5 DEF kmalloc_init, MapFresh, new_kernel_task, terminate, UseDevice, heap
  <2>6. CASE UNCHANGED memoryVars
    BY <2>6 DEF memoryVars, heap
  <2> QED
    BY <2>1, <2>2, <2>3, <2>4, <2>5, <2>6 DEF MemoryNext
<1>2. CASE HEAP_END' = HEAP_END
  BY <1>2 DEF HeapEnd
<1>3. CASE H!FirstBlock
  <2>1. HEAP_END' = HEAP_START + H!InitPages * PAGE_SIZE
    BY <1>3 DEF H!FirstBlock
  <2>2. H!InitPages * PAGE_SIZE \in Nat
    BY PageCounts, MemoryAssumption
  <2> QED
    BY <2>1, <2>2, MemoryAssumption DEF HeapEnd
<1>4. CASE job.size \in Sizes /\ H!Extend(job.size)
  <2>1. HEAP_END' = HEAP_END + H!ExtraPages(job.size) * PAGE_SIZE
    BY <1>4 DEF H!Extend
  <2>2. H!ExtraPages(job.size) * PAGE_SIZE \in Nat
    <3>1. H!ExtraPages(job.size) \in Nat /\ PAGE_SIZE \in Nat
      BY <1>4, PageCounts, MemoryAssumption
    <3> QED
      BY <3>1
  <2> QED
    BY <2>1, <2>2, MemoryAssumption DEF HeapEnd
<1> QED
  BY <1>1, <1>2, <1>3, <1>4

\* Heap and the Heap of its proofs are the same.
LEMMA HeapSame == HP!Next => H!Next
<1>1. CASE HP!FirstBlock
  BY <1>1, HeapConstants DEF H!FirstBlock, HP!FirstBlock, H!Next, H!kmalloc_init, H!Block, HP!Block
<1>2. CASE phase = "boot" /\ HP!OutOfPages
  BY <1>2 DEF H!OutOfPages, HP!OutOfPages, H!Next, H!kmalloc_init
<1>3. ASSUME NEW n \in Sizes, HP!Take(n) PROVE H!Next
  <2>1. H!Take(n)
    BY <1>3
       DEF H!Take, HP!Take, H!FirstFit, HP!FirstFit, H!Fits, HP!Fits, H!Splits, HP!Splits,
           H!SplitAt, HP!SplitAt, H!InsertAt, HP!InsertAt, H!align_up, HP!align_up,
           H!RoundUp, HP!RoundUp, H!Block, HP!Block
  <2> QED
    BY <2>1 DEF H!Next, H!kmalloc
<1>4. ASSUME NEW n \in Sizes, HP!expand_heap(n) PROVE H!Next
  <2>1. (HP!Exhausted(n) => H!Exhausted(n)) /\ (HP!InBounds(n) <=> H!InBounds(n))
    BY HeapConstants
       DEF H!Exhausted, HP!Exhausted, H!InBounds, HP!InBounds, H!Fits, HP!Fits,
           H!align_up, HP!align_up, H!RoundUp, HP!RoundUp
  <2>2. H!expand_heap(n)
    BY <1>4, <2>1, HeapConstants
       DEF H!expand_heap, HP!expand_heap, H!Extend, HP!Extend, H!TooLarge, HP!TooLarge,
           H!OutOfPages, HP!OutOfPages, H!Block, HP!Block
  <2> QED
    BY <2>2 DEF H!Next, H!kmalloc
<1>5. ASSUME NEW r \in held, HP!kfree(r) PROVE H!Next
  <2>1. H!kfree(r)
    BY <1>5 DEF H!kfree, HP!kfree, H!coalesce, HP!coalesce, H!RemoveAt, HP!RemoveAt
  <2> QED
    BY <2>1 DEF H!Next
<1> QED
  BY <1>1, <1>2, <1>3, <1>4, <1>5 DEF HP!Next, HP!kmalloc_init, HP!kmalloc

\* Every step is one of the heap alone, or none of it: frames that run out in
\* map_fresh_pages end an expansion that was called for.
LEMMA HeapStep ==
    ASSUME JobInv, [MemoryNext]_memoryVars
    PROVE  HP!Next \/ UNCHANGED HP!vars
<1>0. UNCHANGED heap => UNCHANGED HP!vars
  BY DEF heap, HP!vars
<1>1. CASE AllocFresh
  <2>1. CASE H!OutOfPages
    <3>1. HP!OutOfPages
      BY <2>1 DEF H!OutOfPages, HP!OutOfPages
    <3>2. CASE ForBoot
      BY <3>1, <3>2 DEF ForBoot, HP!Next, HP!kmalloc_init
    <3>3. CASE ForExpansion
      <4>1. HP!Exhausted(job.size) /\ HP!InBounds(job.size)
        BY <3>3, HeapConstants DEF ForExpansion, H!Exhausted, HP!Exhausted, H!InBounds, HP!InBounds,
              H!Fits, HP!Fits, H!align_up, HP!align_up, H!RoundUp, HP!RoundUp
      <4>2. HP!kmalloc(job.size) /\ job.size \in Sizes
        BY <3>1, <3>3, <4>1 DEF HP!kmalloc, HP!expand_heap, ForExpansion
      <4> QED
        BY <4>2 DEF HP!Next
    <3> QED
      BY <1>1, <3>2, <3>3 DEF JobInv, AllocFresh, Up
  <2>2. CASE UNCHANGED heap
    BY <1>0, <2>2
  <2> QED
    BY <1>1, <2>1, <2>2 DEF AllocFresh
<1>2. CASE Built
  <2>1. CASE H!FirstBlock
    BY <2>1, HeapConstants DEF H!FirstBlock, HP!FirstBlock, HP!Next, HP!kmalloc_init, H!Block, HP!Block
  <2>2. CASE job.size # 0 /\ H!Extend(job.size)
    <3>1. job.size \in Sizes
      BY <1>2, <2>2 DEF Built, Up, JobInv, ForBoot, ForExpansion
    <3>2. HP!Extend(job.size)
      BY <2>2, HeapConstants
         DEF H!Extend, HP!Extend, H!Exhausted, HP!Exhausted, H!InBounds, HP!InBounds,
             H!Fits, HP!Fits, H!align_up, HP!align_up, H!RoundUp, HP!RoundUp, H!Block, HP!Block
    <3> QED
      BY <3>1, <3>2 DEF HP!Next, HP!kmalloc, HP!expand_heap
  <2> QED
    BY <1>2, <2>1, <2>2 DEF Built
<1>3. CASE UseHeap
  <2>1. ASSUME NEW n \in Sizes, H!Take(n) PROVE HP!Next
    <3>1. HP!Take(n)
      BY <2>1
         DEF H!Take, HP!Take, H!FirstFit, HP!FirstFit, H!Fits, HP!Fits, H!Splits, HP!Splits,
             H!SplitAt, HP!SplitAt, H!InsertAt, HP!InsertAt, H!align_up, HP!align_up, H!RoundUp, HP!RoundUp, H!Block, HP!Block
    <3> QED
      BY <3>1 DEF HP!Next, HP!kmalloc
  <2>2. ASSUME NEW n \in Sizes, H!TooLarge(n) PROVE HP!Next
    <3>1. HP!TooLarge(n)
      BY <2>2, HeapConstants
         DEF H!TooLarge, HP!TooLarge, H!Exhausted, HP!Exhausted, H!InBounds, HP!InBounds,
             H!Fits, HP!Fits, H!align_up, HP!align_up, H!RoundUp, HP!RoundUp
    <3> QED
      BY <3>1 DEF HP!Next, HP!kmalloc, HP!expand_heap
  <2>3. ASSUME NEW r \in held, H!kfree(r) PROVE HP!Next
    <3>1. HP!kfree(r)
      BY <2>3 DEF H!kfree, HP!kfree, H!coalesce, HP!coalesce, H!RemoveAt, HP!RemoveAt
    <3> QED
      BY <3>1 DEF HP!Next
  <2> QED
    BY <1>3, <2>1, <2>2, <2>3 DEF UseHeap
<1>4. ASSUME NEW n \in Sizes, expand_heap(n) PROVE UNCHANGED HP!vars
  BY <1>0, <1>4 DEF expand_heap
<1>5. CASE kmalloc_init \/ MapFresh \/ new_kernel_task \/ terminate \/ UseDevice
  BY <1>0, <1>5 DEF kmalloc_init, MapFresh, new_kernel_task, terminate, UseDevice
<1>6. CASE UNCHANGED memoryVars
  BY <1>0, <1>6 DEF memoryVars
<1> QED
  BY <1>1, <1>2, <1>3, <1>4, <1>5, <1>6 DEF MemoryNext

\* So it always holds.
LEMMA JobAlways == MemorySpec => [](JobInv /\ HeapEnd)
<1>1. MemoryInit => JobInv /\ HeapEnd
  <2>1. MemoryInit => HEAP_END = HEAP_START
    BY DEF MemoryInit, H!Init
  <2> QED
    BY <2>1, JobInit, MemoryAssumption DEF HeapEnd
<1>2. JobInv /\ HeapEnd /\ [MemoryNext]_memoryVars => (JobInv /\ HeapEnd)'
  BY JobStep, EndStep
<1> QED
  BY <1>1, <1>2, PTL DEF MemorySpec

\* The heap with frames that run out, and with its pages mapped one by one, is
\* a behaviour of Heap, and so all that is proved of Heap holds of it.
THEOREM HeapOnFrames == MemorySpec => H!Spec
<1>1. MemoryInit => HP!Init
  BY DEF MemoryInit, H!Init, HP!Init
<1>2. JobInv /\ HeapEnd /\ [MemoryNext]_memoryVars => [HP!Next]_HP!vars
  BY HeapStep
<1>3. MemorySpec => HP!Spec
  BY <1>1, <1>2, JobAlways, PTL DEF MemorySpec, HP!Spec
<1>4. HP!Init => H!Init
  BY DEF HP!Init, H!Init
<1>5. HP!Next => H!Next
  BY HeapSame
<1>6. [HP!Next]_HP!vars => [H!Next]_H!vars
  BY <1>5 DEF HP!vars, H!vars
<1>7. HP!Spec => H!Spec
  BY <1>4, <1>6, PTL DEF HP!Spec, H!Spec
<1> QED
  BY <1>3, <1>7

\* And so does the inductive invariant of the heap.
LEMMA HeapAlways == MemorySpec => []HP!IInv
<1>1. MemoryInit => HP!Init
  BY DEF MemoryInit, H!Init, HP!Init
<1>2. JobInv /\ HeapEnd /\ [MemoryNext]_memoryVars => [HP!Next]_HP!vars
  BY HeapStep
<1>3. MemorySpec => HP!Spec
  BY <1>1, <1>2, JobAlways, PTL DEF MemorySpec, HP!Spec
<1>4. HP!Spec => []HP!IInv
  BY HeapConstants, HP!HeapInvariance DEF HP!HeapAssumption
<1> QED
  BY <1>3, <1>4

-----------------------------------------------------------------------------
(* The uses of frames                                                        *)

\* What the role of a frame stands for: where the frame is named.
Roles(m, R, free, h, ss, ls) ==
    /\ free = FreeOf(R)
    /\ \A f \in Own :
        /\ R[f] \in 2..10
        /\ R[f] = InHand <=> h = f
        /\ R[f] = Lost <=> f \in ls
        /\ R[f] = Stack0 <=> \E st \in ss : st[1] = f
        /\ R[f] = Stack1 <=> \E st \in ss : st[2] = f
        /\ R[f] = Mapped <=> \E v \in Pages : AtPage(m, v) = f

\* It is named there once.
Once(m, R, ss) ==
    /\ \A f \in Frames : R[f] = 1 => f = Root
    /\ \A st, su \in ss : st[1] = su[1] \/ st[2] = su[2] => st = su
    /\ \A u, v \in Pages : AtPage(m, u) = AtPage(m, v) /\ AtPage(m, u) \in Own => u = v

Uses(m, R, free, h, ss, ls) ==
    /\ h \in Own \cup {None} /\ ls \subseteq Own /\ ss \subseteq Own \X Own
    /\ Tree(m, R) /\ Roles(m, R, free, h, ss, ls) /\ Once(m, R, ss)

\* Frames that are not tables may change their role.
Relabelled(R, Q) ==
    /\ Q \in [Frames -> 0..10]
    /\ \A f \in Frames : Q[f] = R[f] \/ (f \in Own /\ R[f] \in 5..10 /\ Q[f] \in 5..10)

\* A tree stays one when frames that are not tables change their role.
LEMMA Relabel ==
    ASSUME NEW m, NEW R, NEW Q, Tree(m, R), Relabelled(R, Q)
    PROVE  Tree(m, Q)
<1>1. \A f \in Frames : /\ R[f] \in 0..4 => Q[f] = R[f]
                        /\ Q[f] \in 0..4 => Q[f] = R[f]
  BY DEF Relabelled
<1>2. \A f \in Frames : (R[f] \in Upper <=> Q[f] \in Upper) /\ (R[f] \in Upper => Q[f] = R[f])
  BY <1>1 DEF Upper
<1>3. Typed(m, Q)
  BY <1>1, Ground DEF Tree, Typed, Relabelled
<1>4. LoaderKept(m, Q)
  <2>1. \A f \in DOMAIN Loader : Q[f] = R[f]
    BY <1>1, Ground DEF Tree, LoaderKept
  <2> QED
    BY <2>1 DEF Tree, LoaderKept
<1>5. Levels(m, Q)
  <2> SUFFICES ASSUME NEW t \in Frames, NEW i \in Idx, Q[t] \in Upper, m[t][i] \notin Opaque \cup {None}
               PROVE  m[t][i] \in Frames /\ Q[m[t][i]] = Q[t] + 1
    BY DEF Levels
  <2>1. R[t] \in Upper /\ Q[t] = R[t]
    BY <1>2
  <2>2. m[t][i] \in Frames /\ R[m[t][i]] = R[t] + 1
    BY <2>1 DEF Tree, Levels
  <2>3. R[m[t][i]] \in 0..4
    BY <2>1, <2>2 DEF Upper
  <2> QED
    BY <1>1, <2>1, <2>2, <2>3
<1>6. LoaderEntries(m, Q)
  BY <1>2 DEF Tree, LoaderEntries
<1>7. OneParent(m, Q)
  <2>1. OneParent(m, R)
    BY DEF Tree
  <2> QED
    BY <1>2, <2>1 DEF OneParent
<1>8. HasParent(m, Q)
  <2> SUFFICES ASSUME NEW f \in Frames, Q[f] \in 2..4
               PROVE  \E t \in Frames, i \in Idx : Q[t] = Q[f] - 1 /\ m[t][i] = f
    BY DEF HasParent
  <2>1. R[f] = Q[f]
    BY <1>1
  <2>2. PICK t \in Frames, i \in Idx : R[t] = R[f] - 1 /\ m[t][i] = f
    BY <2>1 DEF Tree, HasParent
  <2>3. Q[t] = R[t]
    BY <1>1, <2>1, <2>2
  <2> QED
    BY <2>1, <2>2, <2>3
<1>9. Leaves(m, Q)
  BY <1>1 DEF Tree, Leaves
<1> QED
  BY <1>3, <1>4, <1>5, <1>6, <1>7, <1>8, <1>9 DEF Tree

\* map_fresh_pages takes a free frame.
LEMMA TakeInHand ==
    ASSUME NEW m, NEW R, NEW free, NEW ss, NEW ls, Uses(m, R, free, None, ss, ls),
           NEW f \in free
    PROVE  \E Q : Uses(m, Q, free \ {f}, f, ss, ls)
<1> DEFINE Q == [R EXCEPT ![f] = InHand]
<1>0. /\ f \in Own /\ R[f] = Free /\ f \in Frames /\ f # None
      /\ R \in [Frames -> 0..10]
  BY Ground DEF Uses, Roles, FreeOf, Tree, Typed
<1>1. Q \in [Frames -> 0..10] /\ Q[f] = InHand /\ \A g \in Frames : g # f => Q[g] = R[g]
  BY <1>0 DEF InHand
<1> HIDE DEF Q
<1>2. Tree(m, Q)
  <2>1. Relabelled(R, Q)
    BY <1>0, <1>1 DEF Relabelled, Free, InHand
  <2> QED
    BY <2>1, Relabel DEF Uses
<1>3. Roles(m, Q, free \ {f}, f, ss, ls)
  <2>1. free \ {f} = FreeOf(Q)
    BY <1>0, <1>1, Ground DEF Uses, Roles, FreeOf, Free, InHand
  <2>2. ASSUME NEW g \in Own
        PROVE  /\ Q[g] \in 2..10
               /\ Q[g] = InHand <=> f = g
               /\ Q[g] = Lost <=> g \in ls
               /\ Q[g] = Stack0 <=> \E st \in ss : st[1] = g
               /\ Q[g] = Stack1 <=> \E st \in ss : st[2] = g
               /\ Q[g] = Mapped <=> \E v \in Pages : AtPage(m, v) = g
    <3>1. /\ R[g] \in 2..10
          /\ R[g] = InHand <=> None = g
          /\ R[g] = Lost <=> g \in ls
          /\ R[g] = Stack0 <=> \E st \in ss : st[1] = g
          /\ R[g] = Stack1 <=> \E st \in ss : st[2] = g
          /\ R[g] = Mapped <=> \E v \in Pages : AtPage(m, v) = g
      BY DEF Uses, Roles
    <3>2. CASE g = f
      BY <1>0, <1>1, <3>1, <3>2 DEF Free, InHand, Lost, Stack0, Stack1, Mapped
    <3>3. CASE g # f
      <4>1. Q[g] = R[g] /\ g # None
        BY <1>1, <3>3, Ground
      <4> QED
        BY <3>1, <3>3, <4>1
    <3> QED
      BY <3>2, <3>3
  <2> QED
    BY <2>1, <2>2 DEF Roles
<1>4. Once(m, Q, ss)
  <2>1. \A g \in Frames : Q[g] = 1 => g = Root
    BY <1>1 DEF Uses, Once, InHand
  <2> QED
    BY <2>1 DEF Uses, Once
<1>5. Uses(m, Q, free \ {f}, f, ss, ls)
  BY <1>0, <1>2, <1>3, <1>4 DEF Uses
<1> QED
  BY <1>5

\* Tables that are made on the way take free frames alone.
LEMMA GrownRoles ==
    ASSUME NEW R, NEW Q, Grown(R, Q), NEW f \in Own, R[f] \in 2..10
    PROVE  /\ Q[f] \in 2..10
           /\ \A r \in 6..10 : Q[f] = r <=> R[f] = r
  BY Ground DEF Grown, Free

\* Making tables makes no second root.
LEMMA GrownRoot ==
    ASSUME NEW R, NEW Q, Grown(R, Q), \A f \in Frames : R[f] = 1 => f = Root
    PROVE  \A f \in Frames : Q[f] = 1 => f = Root
  BY DEF Grown

\* Tables are made, and no page comes to or from a frame of the kernel.
LEMMA KeepUses ==
    ASSUME NEW m, NEW R, NEW free, NEW h, NEW ss, NEW ls, Uses(m, R, free, h, ss, ls),
           NEW n, NEW Q, Tree(n, Q), Grown(R, Q),
           \A u \in Pages : AtPage(n, u) = AtPage(m, u) \/ (AtPage(n, u) \notin Own /\ AtPage(m, u) \notin Own)
    PROVE  Uses(n, Q, FreeOf(Q), h, ss, ls)
<1>1. ASSUME NEW g \in Own
      PROVE  /\ Q[g] \in 2..10
             /\ Q[g] = InHand <=> h = g
             /\ Q[g] = Lost <=> g \in ls
             /\ Q[g] = Stack0 <=> \E st \in ss : st[1] = g
             /\ Q[g] = Stack1 <=> \E st \in ss : st[2] = g
             /\ Q[g] = Mapped <=> \E v \in Pages : AtPage(n, v) = g
  <2>1. /\ R[g] \in 2..10
        /\ R[g] = InHand <=> h = g
        /\ R[g] = Lost <=> g \in ls
        /\ R[g] = Stack0 <=> \E st \in ss : st[1] = g
        /\ R[g] = Stack1 <=> \E st \in ss : st[2] = g
        /\ R[g] = Mapped <=> \E v \in Pages : AtPage(m, v) = g
    BY DEF Uses, Roles
  <2>2. /\ Q[g] \in 2..10 /\ (Q[g] = InHand <=> R[g] = InHand) /\ (Q[g] = Lost <=> R[g] = Lost)
        /\ (Q[g] = Stack0 <=> R[g] = Stack0) /\ (Q[g] = Stack1 <=> R[g] = Stack1)
        /\ (Q[g] = Mapped <=> R[g] = Mapped)
    BY <2>1, GrownRoles DEF InHand, Lost, Stack0, Stack1, Mapped
  <2>3. (\E v \in Pages : AtPage(n, v) = g) <=> (\E v \in Pages : AtPage(m, v) = g)
    OBVIOUS
  <2> QED
    BY <2>1, <2>2, <2>3
<1>2. Roles(n, Q, FreeOf(Q), h, ss, ls)
  BY <1>1 DEF Roles
<1>3. Once(n, Q, ss)
  <2>1. \A f \in Frames : Q[f] = 1 => f = Root
    BY GrownRoot DEF Uses, Once
  <2>2. \A u, v \in Pages : AtPage(n, u) = AtPage(n, v) /\ AtPage(n, u) \in Own => u = v
    BY DEF Uses, Once
  <2> QED
    BY <2>1, <2>2 DEF Uses, Once
<1> QED
  BY <1>2, <1>3 DEF Uses

\* map_fresh_pages maps the frame that it has taken.
LEMMA MapInHand ==
    ASSUME NEW m, NEW R, NEW free, NEW h \in Own, NEW ss, NEW ls, Uses(m, R, free, h, ss, ls),
           NEW n, NEW P, Tree(n, P), Grown(R, P),
           NEW v \in Pages, AtPage(m, v) = None, Updated(m, n, v, h)
    PROVE  \E Q : Uses(n, Q, FreeOf(P), None, ss, ls)
<1> DEFINE Q == [P EXCEPT ![h] = Mapped]
<1>0. h \in Frames /\ h # None /\ R[h] = InHand /\ P[h] = InHand /\ P \in [Frames -> 0..10]
  <2>1. h \in Frames /\ h # None /\ P \in [Frames -> 0..10]
    BY Ground DEF Tree, Typed
  <2>2. R[h] = InHand
    BY DEF Uses, Roles
  <2> QED
    BY <2>1, <2>2 DEF Grown, InHand, Free
<1>1. Q \in [Frames -> 0..10] /\ Q[h] = Mapped /\ \A g \in Frames : g # h => Q[g] = P[g]
  BY <1>0 DEF Mapped
<1> HIDE DEF Q
<1>2. Tree(n, Q)
  <2>1. Relabelled(P, Q)
    BY <1>0, <1>1 DEF Relabelled, InHand, Mapped
  <2> QED
    BY <2>1, Relabel
<1>3. AtPage(n, v) = h /\ \A u \in Pages : u # v => AtPage(n, u) = AtPage(m, u)
  BY DEF Updated
<1>4. ASSUME NEW g \in Own
      PROVE  /\ Q[g] \in 2..10
             /\ Q[g] = InHand <=> None = g
             /\ Q[g] = Lost <=> g \in ls
             /\ Q[g] = Stack0 <=> \E st \in ss : st[1] = g
             /\ Q[g] = Stack1 <=> \E st \in ss : st[2] = g
             /\ Q[g] = Mapped <=> \E u \in Pages : AtPage(n, u) = g
  <2>1. /\ R[g] \in 2..10
        /\ R[g] = InHand <=> h = g
        /\ R[g] = Lost <=> g \in ls
        /\ R[g] = Stack0 <=> \E st \in ss : st[1] = g
        /\ R[g] = Stack1 <=> \E st \in ss : st[2] = g
        /\ R[g] = Mapped <=> \E u \in Pages : AtPage(m, u) = g
    BY DEF Uses, Roles
  <2>2. /\ P[g] \in 2..10 /\ (P[g] = InHand <=> R[g] = InHand) /\ (P[g] = Lost <=> R[g] = Lost)
        /\ (P[g] = Stack0 <=> R[g] = Stack0) /\ (P[g] = Stack1 <=> R[g] = Stack1)
        /\ (P[g] = Mapped <=> R[g] = Mapped)
    BY <2>1, GrownRoles DEF InHand, Lost, Stack0, Stack1, Mapped
  <2>3. g # None
    BY Ground
  <2>4. CASE g = h
    <3>1. \E u \in Pages : AtPage(n, u) = g
      BY <1>3, <2>4
    <3> QED
      BY <1>0, <1>1, <2>1, <2>3, <2>4, <3>1 DEF InHand, Lost, Stack0, Stack1, Mapped
  <2>5. CASE g # h
    <3>1. (\E u \in Pages : AtPage(n, u) = g) <=> (\E u \in Pages : AtPage(m, u) = g)
      BY <1>3, <2>3, <2>5
    <3>2. Q[g] = P[g]
      BY <1>1, <2>5, Ground
    <3> QED
      BY <2>1, <2>2, <2>3, <2>5, <3>1, <3>2
  <2> QED
    BY <2>4, <2>5
<1>5. FreeOf(P) = FreeOf(Q)
  BY <1>0, <1>1, Ground DEF FreeOf, Free, InHand, Mapped
<1>6. Roles(n, Q, FreeOf(P), None, ss, ls)
  BY <1>4, <1>5 DEF Roles
<1>7. Once(n, Q, ss)
  <2>1. \A f \in Frames : P[f] = 1 => f = Root
    BY GrownRoot DEF Uses, Once
  <2>2. \A f \in Frames : Q[f] = 1 => f = Root
    BY <1>1, <2>1 DEF Mapped
  <2>3. \A u \in Pages : AtPage(m, u) # h
    BY <1>0 DEF Uses, Roles, InHand, Mapped
  <2>4. \A u, w \in Pages : AtPage(m, u) = AtPage(m, w) /\ AtPage(m, u) \in Own => u = w
    BY DEF Uses, Once
  <2>5. \A u, w \in Pages : AtPage(n, u) = AtPage(n, w) /\ AtPage(n, u) \in Own => u = w
    BY <1>3, <2>3, <2>4
  <2> QED
    BY <2>2, <2>5 DEF Uses, Once
<1>8. Uses(n, Q, FreeOf(P), None, ss, ls)
  BY <1>2, <1>6, <1>7 DEF Uses
<1> QED
  BY <1>8

\* A new stack takes two free frames.
LEMMA TakeStack ==
    ASSUME NEW m, NEW R, NEW free, NEW h, NEW ss, NEW ls, Uses(m, R, free, h, ss, ls),
           NEW f \in free, NEW g \in free, f # g,
           NEW st, st = <<f, g>>
    PROVE  \E Q : Uses(m, Q, free \ {f, g}, h, ss \cup {st}, ls)
<1> DEFINE Q == [R EXCEPT ![f] = Stack0, ![g] = Stack1]
           tt == ss \cup {st}
<1>0. /\ f \in Own /\ R[f] = Free /\ f \in Frames /\ g \in Own /\ R[g] = Free /\ g \in Frames
      /\ R \in [Frames -> 0..10]
  BY Ground DEF Uses, Roles, FreeOf, Tree, Typed
<1>1. /\ Q \in [Frames -> 0..10] /\ Q[f] = Stack0 /\ Q[g] = Stack1
      /\ \A e \in Frames : e # f /\ e # g => Q[e] = R[e]
  BY <1>0 DEF Stack0, Stack1
<1> HIDE DEF Q
<1>2. Tree(m, Q)
  <2>1. Relabelled(R, Q)
    BY <1>0, <1>1 DEF Relabelled, Free, Stack0, Stack1
  <2> QED
    BY <2>1, Relabel DEF Uses
<1>3. st[1] = f /\ st[2] = g /\ st \in Own \X Own
  BY <1>0
<1>4. ASSUME NEW e \in Own
      PROVE  /\ Q[e] \in 2..10
             /\ Q[e] = InHand <=> h = e
             /\ Q[e] = Lost <=> e \in ls
             /\ Q[e] = Stack0 <=> \E su \in tt : su[1] = e
             /\ Q[e] = Stack1 <=> \E su \in tt : su[2] = e
             /\ Q[e] = Mapped <=> \E v \in Pages : AtPage(m, v) = e
  <2>1. /\ R[e] \in 2..10
        /\ R[e] = InHand <=> h = e
        /\ R[e] = Lost <=> e \in ls
        /\ R[e] = Stack0 <=> \E su \in ss : su[1] = e
        /\ R[e] = Stack1 <=> \E su \in ss : su[2] = e
        /\ R[e] = Mapped <=> \E v \in Pages : AtPage(m, v) = e
    BY DEF Uses, Roles
  <2>2. /\ (\E su \in tt : su[1] = e) <=> (e = f \/ \E su \in ss : su[1] = e)
        /\ (\E su \in tt : su[2] = e) <=> (e = g \/ \E su \in ss : su[2] = e)
    BY <1>3
  <2> HIDE DEF tt
  <2>3. CASE e = f
    BY <1>0, <1>1, <2>1, <2>2, <2>3 DEF Free, InHand, Lost, Stack0, Stack1, Mapped
  <2>4. CASE e = g
    BY <1>0, <1>1, <2>1, <2>2, <2>4 DEF Free, InHand, Lost, Stack0, Stack1, Mapped
  <2>5. CASE e # f /\ e # g
    <3>1. Q[e] = R[e]
      BY <1>1, <2>5, Ground
    <3> QED
      BY <2>1, <2>2, <2>5, <3>1
  <2> QED
    BY <2>3, <2>4, <2>5
<1>5. free \ {f, g} = FreeOf(Q)
  BY <1>0, <1>1, Ground DEF Uses, Roles, FreeOf, Free, Stack0, Stack1
<1>6. Roles(m, Q, free \ {f, g}, h, tt, ls)
  BY <1>4, <1>5 DEF Roles
<1>7. Once(m, Q, tt)
  <2>1. \A e \in Frames : Q[e] = 1 => e = Root
    BY <1>1 DEF Uses, Once, Stack0, Stack1
  <2>2. \A su \in ss : su[1] # f /\ su[2] # g
    BY <1>0 DEF Uses, Roles, Free, Stack0, Stack1
  <2>3. \A su, sv \in ss : su[1] = sv[1] \/ su[2] = sv[2] => su = sv
    BY DEF Uses, Once
  <2>4. \A su, sv \in tt : su[1] = sv[1] \/ su[2] = sv[2] => su = sv
    BY <1>3, <2>2, <2>3
  <2> QED
    BY <2>1, <2>4 DEF Uses, Once
<1>8. Uses(m, Q, free \ {f, g}, h, tt, ls)
  BY <1>2, <1>3, <1>6, <1>7 DEF Uses
<1> QED
  BY <1>8

\* A stack gives its lower frame back and loses its upper one.
LEMMA FreeStack ==
    ASSUME NEW m, NEW R, NEW free, NEW h, NEW ss, NEW ls, Uses(m, R, free, h, ss, ls),
           NEW st \in ss, NEW f, f = st[1], NEW g, g = st[2]
    PROVE  \E Q : Uses(m, Q, free \cup {f}, h, ss \ {st}, ls \cup {g})
<1> DEFINE Q == [R EXCEPT ![f] = Free, ![g] = Lost]
           tt == ss \ {st}
<1>0. /\ f \in Own /\ f \in Frames /\ g \in Own /\ g \in Frames /\ R \in [Frames -> 0..10]
  BY Ground DEF Uses, Tree, Typed
<1>1. R[f] = Stack0 /\ R[g] = Stack1
  BY <1>0 DEF Uses, Roles
<1>2. f # g
  BY <1>1 DEF Stack0, Stack1
<1>3. /\ Q \in [Frames -> 0..10] /\ Q[f] = Free /\ Q[g] = Lost
      /\ \A e \in Frames : e # f /\ e # g => Q[e] = R[e]
  BY <1>0, <1>2 DEF Free, Lost
<1> HIDE DEF Q
<1>4. Tree(m, Q)
  <2>1. Relabelled(R, Q)
    BY <1>0, <1>1, <1>3 DEF Relabelled, Free, Lost, Stack0, Stack1
  <2> QED
    BY <2>1, Relabel DEF Uses
<1>5. \A su, sv \in ss : su[1] = sv[1] \/ su[2] = sv[2] => su = sv
  BY DEF Uses, Once
<1>6. ASSUME NEW e \in Own
      PROVE  /\ Q[e] \in 2..10
             /\ Q[e] = InHand <=> h = e
             /\ Q[e] = Lost <=> e \in ls \cup {g}
             /\ Q[e] = Stack0 <=> \E su \in tt : su[1] = e
             /\ Q[e] = Stack1 <=> \E su \in tt : su[2] = e
             /\ Q[e] = Mapped <=> \E v \in Pages : AtPage(m, v) = e
  <2>1. /\ R[e] \in 2..10
        /\ R[e] = InHand <=> h = e
        /\ R[e] = Lost <=> e \in ls
        /\ R[e] = Stack0 <=> \E su \in ss : su[1] = e
        /\ R[e] = Stack1 <=> \E su \in ss : su[2] = e
        /\ R[e] = Mapped <=> \E v \in Pages : AtPage(m, v) = e
    BY DEF Uses, Roles
  <2>2. /\ (\E su \in tt : su[1] = e) <=> (e # f /\ \E su \in ss : su[1] = e)
        /\ (\E su \in tt : su[2] = e) <=> (e # g /\ \E su \in ss : su[2] = e)
    BY <1>5
  <2> HIDE DEF tt
  <2>3. CASE e = f
    BY <1>1, <1>2, <1>3, <2>1, <2>2, <2>3 DEF Free, InHand, Lost, Stack0, Stack1, Mapped
  <2>4. CASE e = g
    BY <1>1, <1>2, <1>3, <2>1, <2>2, <2>4 DEF Free, InHand, Lost, Stack0, Stack1, Mapped
  <2>5. CASE e # f /\ e # g
    <3>1. Q[e] = R[e]
      BY <1>3, <2>5, Ground
    <3> QED
      BY <2>1, <2>2, <2>5, <3>1
  <2> QED
    BY <2>3, <2>4, <2>5
<1>7. free \cup {f} = FreeOf(Q)
  BY <1>0, <1>1, <1>2, <1>3, Ground DEF Uses, Roles, FreeOf, Free, Lost, Stack0, Stack1
<1>8. Roles(m, Q, free \cup {f}, h, tt, ls \cup {g})
  BY <1>6, <1>7 DEF Roles
<1>9. Once(m, Q, tt)
  <2>1. \A e \in Frames : Q[e] = 1 => e = Root
    BY <1>3 DEF Uses, Once, Free, Lost
  <2> QED
    BY <1>5, <2>1 DEF Uses, Once
<1>10. Uses(m, Q, free \cup {f}, h, tt, ls \cup {g})
  BY <1>0, <1>4, <1>8, <1>9 DEF Uses
<1> QED
  BY <1>10

-----------------------------------------------------------------------------
(* The pages of the heap                                                     *)

\* The end of a page is the start of the next.
LEMMA PageOfIs ==
    ASSUME NEW a \in Nat, a % PAGE_SIZE = 0, NEW k \in Nat
    PROVE  PageOf(a) \in Nat /\ a = PageOf(a) * PAGE_SIZE /\ PageOf(a + k * PAGE_SIZE) = PageOf(a) + k
<1>1. PAGE_SIZE \in Nat \ {0}
  BY MemoryAssumption
<1>2. PageOf(a) \in Nat /\ a = PageOf(a) * PAGE_SIZE
  BY <1>1, DivMod DEF PageOf
<1> DEFINE q == PageOf(a)
<1>3. a + k * PAGE_SIZE = (q + k) * PAGE_SIZE + 0
  <2>1. (q + k) * PAGE_SIZE = q * PAGE_SIZE + k * PAGE_SIZE
    BY <1>1, <1>2
  <2>2. q * PAGE_SIZE \in Nat /\ k * PAGE_SIZE \in Nat
    BY <1>1, <1>2
  <2> QED
    BY <1>2, <2>1, <2>2
<1> HIDE DEF q
<1>4. ((q + k) * PAGE_SIZE + 0) \div PAGE_SIZE = q + k
  <2>1. q + k \in Nat /\ 0 \in 0..(PAGE_SIZE - 1)
    BY <1>1, <1>2 DEF q
  <2> QED
    BY <1>1, <2>1, Quotient
<1>5. PageOf(a + k * PAGE_SIZE) = q + k
  BY <1>3, <1>4 DEF PageOf
<1> QED
  BY <1>2, <1>5 DEF q

\* The end of the heap's pages.
LEMMA HeapPagesIs ==
    /\ PAGE_SIZE \in Nat \ {0} /\ HEAP_START \in Nat /\ HEAP_MAX_SIZE \in Nat
    /\ HEAP_START = PageOf(HEAP_START) * PAGE_SIZE /\ PageOf(HEAP_START) \in Nat
    /\ HEAP_MAX_SIZE = PageOf(HEAP_MAX_SIZE) * PAGE_SIZE /\ PageOf(HEAP_MAX_SIZE) \in Nat
    /\ HeapPages = PageOf(HEAP_START)..(PageOf(HEAP_START) + PageOf(HEAP_MAX_SIZE) - 1)
<1>1. /\ PAGE_SIZE \in Nat \ {0} /\ HEAP_START \in Nat /\ HEAP_MAX_SIZE \in Nat
      /\ HEAP_START % PAGE_SIZE = 0 /\ HEAP_MAX_SIZE % PAGE_SIZE = 0
  BY MemoryAssumption
<1> DEFINE b == PageOf(HEAP_MAX_SIZE)
<1>2. b \in Nat /\ HEAP_MAX_SIZE = b * PAGE_SIZE
  BY <1>1, PageOfIs
<1> HIDE DEF b
<1>3. /\ PageOf(HEAP_START) \in Nat /\ HEAP_START = PageOf(HEAP_START) * PAGE_SIZE
      /\ PageOf(HEAP_START + b * PAGE_SIZE) = PageOf(HEAP_START) + b
  BY <1>1, <1>2, PageOfIs
<1>4. PageOf(HEAP_START + HEAP_MAX_SIZE) = PageOf(HEAP_START) + b
  BY <1>2, <1>3
<1> QED
  BY <1>1, <1>2, <1>3, <1>4 DEF HeapPages, b

\* The pages that are mapped one by one are pages of the heap.
JobPages == job # NoJob => job.virt..(job.virt + job.n - 1) \subseteq HeapPages

\* The pages that kmalloc_init maps are pages of the heap.
LEMMA BootPages ==
    PageOf(HEAP_START)..(PageOf(HEAP_START) + H!InitPages - 1) \subseteq HeapPages
<1> DEFINE a == PageOf(HEAP_START)
           b == PageOf(HEAP_MAX_SIZE)
           r == HP!RoundUp(InitBytes, PAGE_SIZE)
           x == r \div PAGE_SIZE
<1>1. PAGE_SIZE \in Nat \ {0} /\ a \in Nat /\ b \in Nat /\ HEAP_MAX_SIZE = b * PAGE_SIZE /\ HeapPages = a..(a + b - 1)
  BY HeapPagesIs
<1>2. InitBytes \in Nat /\ InitBytes <= HEAP_MAX_SIZE
  BY MemoryAssumption
<1>3. x \in Nat /\ x * PAGE_SIZE = r /\ r = ((InitBytes + PAGE_SIZE - 1) \div PAGE_SIZE) * PAGE_SIZE
  BY <1>1, <1>2, HeapConstants, HP!RoundUpIs DEF HP!RoundUp
<1>4. H!InitPages = x
  BY HeapConstants DEF HP!InitPages
<1>5. (InitBytes + PAGE_SIZE - 1) \in Nat
  BY <1>1, <1>2
<1>6. ((InitBytes + PAGE_SIZE - 1) \div PAGE_SIZE) * PAGE_SIZE <= InitBytes + PAGE_SIZE - 1
  <2> DEFINE z == InitBytes + PAGE_SIZE - 1
             q == z \div PAGE_SIZE
  <2>1. z \in Nat
    BY <1>5
  <2> HIDE DEF z
  <2>2. q \in Nat /\ z - q * PAGE_SIZE \in 0..(PAGE_SIZE - 1)
    BY <1>1, <2>1, RoundDown
  <2> HIDE DEF q
  <2>3. q * PAGE_SIZE \in Nat
    BY <1>1, <2>2
  <2>4. q * PAGE_SIZE <= z
    BY <1>1, <2>1, <2>2, <2>3
  <2> QED
    BY <2>4 DEF q, z
<1> HIDE DEF a, b, r, x
<1>7. x * PAGE_SIZE < (b + 1) * PAGE_SIZE
  <2>1. (b + 1) * PAGE_SIZE = b * PAGE_SIZE + PAGE_SIZE /\ b * PAGE_SIZE \in Nat /\ x * PAGE_SIZE \in Nat
    BY <1>1, <1>3
  <2> QED
    BY <1>1, <1>2, <1>3, <1>5, <1>6, <2>1
<1>8. x < b + 1
  <2>1. x \in Int /\ b + 1 \in Int
    BY <1>1, <1>3
  <2> QED
    BY <1>1, <1>7, <2>1, Cancel
<1>9. a..(a + x - 1) \subseteq HeapPages
  BY <1>1, <1>3, <1>8
<1> QED
  BY <1>4, <1>9 DEF a

\* The pages that expand_heap maps are pages of the heap.
LEMMA ExpansionPages ==
    ASSUME HeapEnd, HEAP_END % PAGE_SIZE = 0, NEW n \in Sizes, H!InBounds(n)
    PROVE  PageOf(HEAP_END)..(PageOf(HEAP_END) + H!ExtraPages(n) - 1) \subseteq HeapPages
<1> DEFINE a == PageOf(HEAP_START)
           b == PageOf(HEAP_MAX_SIZE)
           e == PageOf(HEAP_END)
           y == H!ExtraBytes(n)
           x == H!ExtraPages(n)
<1>1. /\ PAGE_SIZE \in Nat \ {0} /\ a \in Nat /\ b \in Nat /\ HEAP_MAX_SIZE = b * PAGE_SIZE
      /\ HEAP_START = a * PAGE_SIZE /\ HeapPages = a..(a + b - 1)
  BY HeapPagesIs
<1>2. HEAP_END \in Nat /\ HEAP_START <= HEAP_END /\ e \in Nat /\ HEAP_END = e * PAGE_SIZE
  BY PageOfIs DEF HeapEnd
<1>3. y \in Nat /\ x \in Nat
  <2>1. n \in Nat /\ HEADER_SIZE \in Nat /\ x \in Nat
    BY PageCounts, MemoryAssumption
  <2>2. HP!align_up(n) \in Nat
    BY <2>1, HeapConstants, HP!AlignUp
  <2>3. HP!align_up(n) + HEADER_SIZE + PAGE_SIZE \in Nat
    BY <1>1, <2>1, <2>2
  <2>4. HP!ExtraBytes(n) \in Nat
    BY <2>3, HeapConstants, HP!AlignUp DEF HP!ExtraBytes
  <2> QED
    BY <2>1, <2>4, HeapConstants
<1>4. x = y \div PAGE_SIZE /\ HEAP_END + y - HEAP_START <= HEAP_MAX_SIZE
  BY DEF H!InBounds, H!ExtraPages
<1> HIDE DEF a, b, e, x, y
<1>5. x * PAGE_SIZE <= y
  BY <1>1, <1>3, <1>4, RoundDown
<1>6. (e + x) * PAGE_SIZE <= (a + b) * PAGE_SIZE
  <2>1. (e + x) * PAGE_SIZE = e * PAGE_SIZE + x * PAGE_SIZE /\ (a + b) * PAGE_SIZE = a * PAGE_SIZE + b * PAGE_SIZE
    BY <1>1, <1>2, <1>3
  <2>2. /\ e * PAGE_SIZE \in Nat /\ x * PAGE_SIZE \in Nat
        /\ a * PAGE_SIZE \in Nat /\ b * PAGE_SIZE \in Nat
    BY <1>1, <1>2, <1>3
  <2> QED
    BY <1>1, <1>2, <1>3, <1>4, <1>5, <2>1, <2>2
<1>7. e + x <= a + b /\ a <= e
  <2>1. e + x \in Int /\ a + b \in Int /\ a \in Int /\ e \in Int
    BY <1>1, <1>2, <1>3
  <2> QED
    BY <1>1, <1>2, <1>6, <2>1, Cancel
<1>8. e..(e + x - 1) \subseteq HeapPages
  BY <1>1, <1>2, <1>3, <1>7
<1> QED
  BY <1>8 DEF e, x

-----------------------------------------------------------------------------
(* The invariant                                                             *)

\* The pages of the heap that are mapped are those before its end, and those
\* that map_fresh_pages has mapped so far; each is mapped to a frame that
\* alloc_page gave out, and no device's page is.
MapsInv ==
    /\ \A v \in HeapPages : /\ AtPage(mem, v) \in Own \cup {None}
                            /\ AtPage(mem, v) # None <=> v < PageOf(HEAP_END) + job.i
    /\ \A v \in DevPages : AtPage(mem, v) \notin Own

\* The processor keeps no translation that the tables do not have.
CacheInv ==
    /\ tlb \in [Pages -> Phys \cup {None}]
    /\ \A v \in Pages : tlb[v] # None => tlb[v] = AtPage(mem, v)
    /\ seen \in [page : Pages \cup {None}, frame : Phys \cup {None}]
    /\ panicked \in BOOLEAN

\* Every frame has its use.
FramesInv == \E R : Uses(mem, R, freePages, hand, stacks, lost)

\* The invariant, without what is known of the heap.
IInv == JobInv /\ HeapEnd /\ JobPages /\ MapsInv /\ CacheInv /\ FramesInv

\* The heap's end is the end of a page, and that of no page before kmalloc_init.
LEMMA EndIs ==
    ASSUME HP!IInv
    PROVE  HEAP_END % PAGE_SIZE = 0 /\ (phase = "boot" => HEAP_END = HEAP_START)
  BY MemoryAssumption DEF HP!IInv, HP!Tiling, HP!NoHeap

\* The tables and the cache stay.
LEMMA CacheSame ==
    ASSUME CacheInv, UNCHANGED <<mem, tlb, seen, panicked>>
    PROVE  CacheInv'
  BY DEF CacheInv

\* The kernel changes nothing that the tables lead to.
LEMMA MapsSame ==
    ASSUME MapsInv, mem' = mem, HEAP_END' = HEAP_END, job'.i = job.i
    PROVE  MapsInv'
  BY DEF MapsInv

\* The boot loader's tables have no page of the kernel.
LEMMA InitUses ==
    ASSUME MemoryInit
    PROVE  FramesInv /\ \A v \in Pages : AtPage(mem, v) = None
<1> DEFINE R == [f \in Frames |-> IF f \in Own THEN Free ELSE IF f = Root THEN 1
                                  ELSE IF f \in Pdpts THEN 2 ELSE IF f \in Pds THEN 3 ELSE 0]
<1>1. /\ mem = [f \in Frames |-> IF f \in DOMAIN Loader THEN Loader[f] ELSE [i \in Idx |-> Junk]]
      /\ freePages = Own /\ hand = None /\ stacks = {} /\ lost = {}
  BY DEF MemoryInit, Init, Own
<1>2. /\ {Root} \cup Pdpts \cup Pds \subseteq DOMAIN Loader \ Opaque /\ LoaderBelow(Pds) = {}
      /\ Root \notin Pdpts \cup Pds /\ Pdpts \cap Pds = {}
      /\ \A t, u \in {Root} \cup Pdpts \cup Pds, i, j \in Idx :
            Loader[t][i] = Loader[u][j] /\ Loader[t][i] \in {Root} \cup Pdpts \cup Pds => t = u /\ i = j
  BY LoaderAssumption DEF Pdpts, Pds
<1>3. /\ \A f \in DOMAIN Loader : Loader[f] \in [Idx -> DOMAIN Loader \cup {Junk, None}]
      /\ Junk \in Frames
  BY VmmAssumption
<1>4. /\ R \in [Frames -> 0..10]
      /\ \A f \in Own : R[f] = Free
      /\ R[Root] = 1
      /\ \A f \in DOMAIN Loader : /\ R[f] = 1 <=> f = Root
                                  /\ R[f] = 2 <=> f \in Pdpts
                                  /\ R[f] = 3 <=> f \in Pds
                                  /\ R[f] \in 0..3
                                  /\ f \in Opaque => R[f] = 0
  BY <1>2, Ground DEF Free
<1> HIDE DEF R
<1>5. /\ mem \in [Frames -> [Idx -> Frames \cup Phys \cup {None}]]
      /\ \A f \in DOMAIN Loader, i \in Idx : mem[f][i] = Loader[f][i]
  BY <1>1, <1>3, Ground
<1>6. \A f \in Frames : R[f] \in 1..3 => f \in DOMAIN Loader /\ f \in {Root} \cup Pdpts \cup Pds
  BY <1>4, Ground DEF Free
<1>7. Typed(mem, R)
  BY <1>4, <1>5 DEF Typed
<1>8. LoaderKept(mem, R)
  BY <1>4, <1>5 DEF LoaderKept
<1>9. ASSUME NEW t \in Frames, NEW i \in Idx, R[t] \in Upper, mem[t][i] \notin Opaque \cup {None}
      PROVE  /\ t \in DOMAIN Loader /\ mem[t][i] = Loader[t][i] /\ mem[t][i] \in DOMAIN Loader
             /\ R[mem[t][i]] = R[t] + 1
  <2>1. t \in DOMAIN Loader /\ t \in {Root} \cup Pdpts \cup Pds /\ mem[t][i] = Loader[t][i]
    BY <1>5, <1>6, <1>9 DEF Upper
  <2>2. CASE t = Root
    <3>1. <<t, i>> \in {Root} \X Idx
      BY <2>2
    <3>2. Loader[t][i] \in Pdpts
      BY <1>9, <2>1, <3>1 DEF Pdpts, LoaderBelow
    <3> QED
      BY <1>2, <1>4, <2>1, <2>2, <3>2
  <2>3. CASE t \in Pdpts
    <3>1. <<t, i>> \in Pdpts \X Idx
      BY <2>3
    <3>2. Loader[t][i] \in Pds
      BY <1>9, <2>1, <3>1 DEF Pds, LoaderBelow
    <3> QED
      BY <1>2, <1>4, <2>1, <2>3, <3>2
  <2>4. CASE t \in Pds
    <3>1. <<t, i>> \in Pds \X Idx
      BY <2>4
    <3>2. Loader[t][i] \in LoaderBelow(Pds)
      BY <1>9, <2>1, <3>1 DEF LoaderBelow
    <3> QED
      BY <1>2, <3>2
  <2> QED
    BY <2>1, <2>2, <2>3, <2>4
<1>10. Levels(mem, R)
  BY <1>9, Ground DEF Levels
<1>11. LoaderEntries(mem, R)
  BY <1>5, <1>6 DEF LoaderEntries, Upper
<1>12. OneParent(mem, R)
  <2> SUFFICES ASSUME NEW t \in Frames, NEW u \in Frames, NEW i \in Idx, NEW j \in Idx,
                      R[t] \in Upper, R[u] \in Upper, mem[t][i] = mem[u][j],
                      mem[t][i] \notin Opaque \cup {None}
               PROVE  t = u /\ i = j
    BY DEF OneParent
  <2>1. /\ mem[t][i] = Loader[t][i] /\ mem[t][i] \in DOMAIN Loader /\ R[mem[t][i]] = R[t] + 1
        /\ mem[u][j] = Loader[u][j]
    BY <1>9
  <2>2. R[mem[t][i]] \in 0..3
    BY <1>4, <2>1
  <2>3. R[mem[t][i]] \in 1..3
    BY <2>1, <2>2 DEF Upper
  <2>4. mem[t][i] \in {Root} \cup Pdpts \cup Pds /\ t \in {Root} \cup Pdpts \cup Pds /\ u \in {Root} \cup Pdpts \cup Pds
    BY <1>6, <2>1, <2>3, Ground DEF Upper
  <2>5. Loader[t][i] = Loader[u][j] /\ Loader[t][i] \in {Root} \cup Pdpts \cup Pds
    BY <2>1, <2>4
  <2>6. \A s, q \in {Root} \cup Pdpts \cup Pds, k, l \in Idx :
            Loader[s][k] = Loader[q][l] /\ Loader[s][k] \in {Root} \cup Pdpts \cup Pds => s = q /\ k = l
    BY <1>2
  <2> QED
    BY ONLY <2>4, <2>5, <2>6, i \in Idx, j \in Idx
<1>13. HasParent(mem, R)
  <2> SUFFICES ASSUME NEW f \in Frames, R[f] \in 2..4
               PROVE  \E t \in Frames, i \in Idx : R[t] = R[f] - 1 /\ mem[t][i] = f
    BY DEF HasParent
  <2>1. f \in DOMAIN Loader
    BY <1>4, Ground DEF Free
  <2>2. CASE R[f] = 2
    <3>1. PICK e \in {Root} \X Idx : Loader[e[1]][e[2]] = f
      BY <1>4, <2>1, <2>2 DEF Pdpts, LoaderBelow
    <3>2. mem[Root][e[2]] = f /\ e[2] \in Idx /\ R[Root] = 1 /\ Root \in Frames
      BY <1>4, <1>5, <3>1, Ground
    <3> QED
      BY <2>2, <3>2
  <2>3. CASE R[f] = 3
    <3>1. PICK e \in Pdpts \X Idx : Loader[e[1]][e[2]] = f
      BY <1>4, <2>1, <2>3 DEF Pds, LoaderBelow
    <3>2. e[1] \in DOMAIN Loader /\ R[e[1]] = 2 /\ e[2] \in Idx
      BY <1>2, <1>4, <3>1
    <3>3. mem[e[1]][e[2]] = f /\ e[1] \in Frames
      BY <1>5, <3>1, <3>2, Ground
    <3> QED
      BY <2>3, <3>2, <3>3
  <2> QED
    BY <1>4, <2>1, <2>2, <2>3
<1>14. Leaves(mem, R)
  BY <1>4, Ground DEF Leaves, Free
<1>15. Tree(mem, R)
  BY <1>7, <1>8, <1>10, <1>11, <1>12, <1>13, <1>14 DEF Tree
<1>16. ASSUME NEW v \in Pages PROVE AtPage(mem, v) = None
  <2> DEFINE ix == split_indices(v)
  <2>1. Clear(ix)
    BY SplitClear
  <2>2. Pt(mem, ix) = None
    BY <1>4, <1>15, <2>1, WalkIs DEF Free
  <2> QED
    BY <2>2 DEF AtPage, Leaf, Down
<1>17. Roles(mem, R, freePages, hand, stacks, lost)
  <2>1. freePages = FreeOf(R)
    BY <1>1, <1>4 DEF FreeOf
  <2>2. \A f \in Own : R[f] = 5 /\ f # None
    BY <1>4, Ground DEF Free
  <2>3. \A f \in Own : ~ \E v \in Pages : AtPage(mem, v) = f
    BY <1>16, <2>2
  <2> QED
    BY <1>1, <2>1, <2>2, <2>3 DEF Roles, InHand, Lost, Stack0, Stack1, Mapped
<1>18. Once(mem, R, stacks)
  <2>1. \A f \in Frames : R[f] = 1 => f = Root
    BY <1>4, Ground DEF Free
  <2>2. \A u \in Pages : AtPage(mem, u) \notin Own
    BY <1>16, Ground
  <2> QED
    BY <1>1, <2>1, <2>2 DEF Once
<1>19. Uses(mem, R, freePages, hand, stacks, lost)
  BY <1>1, <1>15, <1>17, <1>18 DEF Uses
<1> QED
  BY <1>16, <1>19 DEF FramesInv

\* It holds when the kernel has started.
LEMMA InitIInv == MemoryInit => IInv
<1> SUFFICES ASSUME MemoryInit PROVE IInv
  OBVIOUS
<1>1. /\ job = NoJob /\ job.i = 0 /\ HEAP_END = HEAP_START
      /\ tlb = [v \in Pages |-> None] /\ seen = Unseen /\ panicked = FALSE
  BY PageCounts DEF MemoryInit, H!Init, Init
<1>2. JobInv /\ HeapEnd /\ JobPages
  BY <1>1, JobInit, MemoryAssumption DEF HeapEnd, JobPages
<1>3. MapsInv
  <2>1. ASSUME NEW v \in HeapPages PROVE AtPage(mem, v) = None /\ ~ (v < PageOf(HEAP_END) + job.i)
    <3>1. v \in Pages
      BY MemoryAssumption
    <3>2. v \in Nat /\ v >= PageOf(HEAP_END) /\ PageOf(HEAP_END) \in Nat
      BY <1>1, HeapPagesIs
    <3>3. ~ (v < PageOf(HEAP_END) + job.i)
      BY <1>1, <3>2
    <3> QED
      BY <3>1, <3>3, InitUses
  <2>2. \A v \in DevPages : AtPage(mem, v) \notin Own
    BY InitUses, MemoryAssumption, Ground
  <2> QED
    BY <2>1, <2>2 DEF MapsInv
<1>4. CacheInv
  BY <1>1 DEF CacheInv, Unseen
<1> QED
  BY <1>2, <1>3, <1>4, InitUses DEF IInv

\* kmalloc_init and expand_heap start to map pages.
LEMMA StartIInv ==
    ASSUME IInv, HP!IInv, kmalloc_init \/ \E n \in Sizes : expand_heap(n)
    PROVE  JobPages' /\ MapsInv' /\ CacheInv' /\ FramesInv'
<1>1. /\ job = NoJob /\ UNCHANGED <<mem, freePages, tlb, seen, panicked, HEAP_END, hand, stacks, lost>>
      /\ \/ job' = Job(0, HEAP_START, H!InitPages)
         \/ \E n \in Sizes : H!InBounds(n) /\ job' = Job(n, HEAP_END, H!ExtraPages(n))
  BY DEF kmalloc_init, expand_heap, Ready, vars, heap, tasks
<1>2. job'.i = job.i
  BY <1>1, PageCounts DEF Job
<1>3. MapsInv'
  BY <1>1, <1>2, MapsSame DEF IInv
<1>4. CacheInv'
  BY <1>1, CacheSame DEF IInv
<1>5. FramesInv'
  BY <1>1 DEF IInv, FramesInv
<1>6. JobPages'
  <2>1. CASE job' = Job(0, HEAP_START, H!InitPages)
    <3>1. job'.virt = PageOf(HEAP_START) /\ job'.n = H!InitPages
      BY <2>1 DEF Job
    <3> QED
      BY <3>1, BootPages DEF JobPages
  <2>2. ASSUME NEW n \in Sizes, H!InBounds(n), job' = Job(n, HEAP_END, H!ExtraPages(n)) PROVE JobPages'
    <3>1. job'.virt = PageOf(HEAP_END) /\ job'.n = H!ExtraPages(n)
      BY <2>2 DEF Job
    <3>2. PageOf(HEAP_END)..(PageOf(HEAP_END) + H!ExtraPages(n) - 1) \subseteq HeapPages
      BY <2>2, EndIs, ExpansionPages DEF IInv
    <3> QED
      BY <3>1, <3>2 DEF JobPages
  <2> QED
    BY <1>1, <2>1, <2>2
<1> QED
  BY <1>3, <1>4, <1>5, <1>6

\* map_fresh_pages takes a frame.
LEMMA AllocIInv ==
    ASSUME IInv, AllocFresh
    PROVE  JobPages' /\ MapsInv' /\ CacheInv' /\ FramesInv'
<1>1. /\ job' = job /\ hand = None
      /\ UNCHANGED <<mem, tlb, seen, panicked, stacks, lost>>
      /\ HEAP_END' = HEAP_END
      /\ \/ hand' = hand /\ freePages' = freePages
         \/ freePages # {} /\ hand' = FirstFree(freePages) /\ freePages' = freePages \ {hand'}
  BY DEF AllocFresh, tasks, heap, H!OutOfPages
<1>2. JobPages' /\ MapsInv'
  BY <1>1, MapsSame DEF IInv, JobPages
<1>3. CacheInv'
  BY <1>1, CacheSame DEF IInv
<1>4. FramesInv'
  <2>1. PICK R : Uses(mem, R, freePages, None, stacks, lost)
    BY <1>1 DEF IInv, FramesInv
  <2>2. CASE hand' = hand /\ freePages' = freePages
    BY <1>1, <2>2 DEF IInv, FramesInv
  <2>3. CASE freePages # {} /\ hand' = FirstFree(freePages) /\ freePages' = freePages \ {hand'}
    <3>1. hand' \in freePages
      BY <2>1, <2>3, FirstFreeIs DEF Uses, Roles, FreeOf
    <3>2. \E Q : Uses(mem, Q, freePages \ {hand'}, hand', stacks, lost)
      BY <2>1, <3>1, TakeInHand
    <3> QED
      BY <1>1, <2>3, <3>2 DEF FramesInv
  <2> QED
    BY <1>1, <2>2, <2>3
<1> QED
  BY <1>2, <1>3, <1>4

\* invlpg forgets the one page that has changed.
LEMMA CacheFlushed ==
    ASSUME CacheInv, NEW v \in Pages, NEW p, Updated(mem, mem', v, p),
           tlb' = [tlb EXCEPT ![v] = None], seen' = Unseen, panicked' \in BOOLEAN
    PROVE  CacheInv'
<1>1. tlb' \in [Pages -> Phys \cup {None}] /\ tlb'[v] = None /\ \A u \in Pages : u # v => tlb'[u] = tlb[u]
  BY DEF CacheInv
<1>2. \A u \in Pages : u # v => AtPage(mem', u) = AtPage(mem, u)
  BY DEF Updated
<1>3. \A u \in Pages : tlb'[u] # None => tlb'[u] = AtPage(mem', u)
  BY <1>1, <1>2 DEF CacheInv
<1> QED
  BY <1>1, <1>3 DEF CacheInv, Unseen

\* Nothing has changed.
LEMMA CacheValid ==
    ASSUME CacheInv, \A u \in Pages : AtPage(mem', u) = AtPage(mem, u),
           tlb' = tlb, seen' = Unseen, panicked' \in BOOLEAN
    PROVE  CacheInv'
  BY DEF CacheInv, Unseen

\* The page that map_fresh_pages maps next is the first page after the last one.
LEMMA FreshPageIs ==
    ASSUME IInv, HP!IInv, Up, hand # None
    PROVE  /\ FreshPage \in HeapPages /\ FreshPage \in Pages /\ FreshPage \in Nat
           /\ FreshPage = PageOf(HEAP_END) + job.i
           /\ PageOf(HEAP_END) \in Nat /\ job.i \in Nat
           /\ AtPage(mem, FreshPage) = None
           /\ hand \in Own /\ hand \in Phys
<1>1. job.i \in Nat /\ job.n \in Nat /\ job.virt \in Nat /\ job.i < job.n /\ job # NoJob
  BY PageCounts DEF IInv, JobInv
<1>2. job.virt = PageOf(HEAP_END)
  BY <1>1, EndIs DEF IInv, JobInv, Up, ForBoot, ForExpansion
<1>3. FreshPage = job.virt + job.i /\ FreshPage \in Nat
  BY <1>1 DEF FreshPage
<1>4. FreshPage \in HeapPages
  BY <1>1, <1>3 DEF IInv, JobPages
<1>5. FreshPage \in Pages
  BY <1>4, MemoryAssumption
<1>6. AtPage(mem, FreshPage) = None
  BY <1>1, <1>2, <1>3, <1>4 DEF IInv, MapsInv
<1>7. hand \in Own
  BY DEF IInv, FramesInv, Uses
<1> QED
  BY <1>1, <1>2, <1>3, <1>4, <1>5, <1>6, <1>7, Ground

\* Mapping one page of the heap, with the tables made on the way, keeps it.
LEMMA MapIInv ==
    ASSUME IInv, HP!IInv, MapFresh
    PROVE  JobPages' /\ MapsInv' /\ CacheInv' /\ FramesInv'
<1> DEFINE v == FreshPage
<1>1. /\ v \in HeapPages /\ v \in Pages /\ v \in Nat /\ v = PageOf(HEAP_END) + job.i
      /\ PageOf(HEAP_END) \in Nat /\ job.i \in Nat /\ AtPage(mem, v) = None
      /\ hand \in Own /\ hand \in Phys
  BY FreshPageIs DEF MapFresh
<1>2. /\ map_page(v, hand) /\ HEAP_END' = HEAP_END /\ UNCHANGED <<stacks, lost>>
      /\ panicked' => hand' = hand /\ job' = job
      /\ ~ panicked' => hand' = None /\ job' = [job EXCEPT !.i = @ + 1]
  BY DEF MapFresh, fresh, heap, tasks
<1> HIDE DEF v
<1>3. PICK R : Uses(mem, R, freePages, hand, stacks, lost)
  BY DEF IInv, FramesInv
<1>4. Tree(mem, R) /\ freePages = FreeOf(R)
  BY <1>3 DEF Uses, Roles
<1>5. /\ \E P : /\ Tree(mem', P) /\ Grown(R, P) /\ freePages' = FreeOf(P)
                /\ \/ /\ panicked' = TRUE /\ tlb' = tlb
                      /\ \A u \in Pages : AtPage(mem', u) = AtPage(mem, u)
                   \/ /\ panicked' = FALSE /\ tlb' = [tlb EXCEPT ![v] = None]
                      /\ Updated(mem, mem', v, hand)
      /\ seen' = Unseen
  <2>1. PICK x : x = v /\ x \in Pages /\ map_page(x, hand)
    BY <1>1, <1>2
  <2>2. PICK y : y = hand /\ y \in Phys
    BY <1>1
  <2>3. map_page(x, y)
    BY <2>1, <2>2 DEF map_page
  <2> QED
    BY <1>4, <2>1, <2>2, <2>3, MapPage
<1>6. PICK P : /\ Tree(mem', P) /\ Grown(R, P) /\ freePages' = FreeOf(P)
               /\ \/ /\ panicked' = TRUE /\ tlb' = tlb
                     /\ \A u \in Pages : AtPage(mem', u) = AtPage(mem, u)
                  \/ /\ panicked' = FALSE /\ tlb' = [tlb EXCEPT ![v] = None]
                     /\ Updated(mem, mem', v, hand)
  BY <1>5
<1>7. HeapPages \subseteq Pages /\ DevPages \subseteq Pages /\ HeapPages \cap DevPages = {}
  BY MemoryAssumption
<1>8. CASE /\ panicked' = TRUE /\ tlb' = tlb
           /\ \A u \in Pages : AtPage(mem', u) = AtPage(mem, u)
  <2>1. hand' = hand /\ job' = job
    BY <1>2, <1>8
  <2>2. JobPages'
    BY <2>1 DEF IInv, JobPages
  <2>3. MapsInv'
    BY <1>2, <1>7, <1>8, <2>1 DEF IInv, MapsInv
  <2>4. CacheInv'
    BY <1>5, <1>8, CacheValid DEF IInv
  <2>5. Uses(mem', P, FreeOf(P), hand, stacks, lost)
    BY <1>3, <1>6, <1>8, KeepUses
  <2>6. FramesInv'
    BY <1>2, <1>6, <2>1, <2>5 DEF FramesInv
  <2> QED
    BY <2>2, <2>3, <2>4, <2>6
<1>9. CASE /\ panicked' = FALSE /\ tlb' = [tlb EXCEPT ![v] = None]
           /\ Updated(mem, mem', v, hand)
  <2>1. hand' = None /\ job' = [job EXCEPT !.i = @ + 1]
    BY <1>2, <1>9
  <2>2. job'.i = job.i + 1 /\ job'.n = job.n /\ job'.virt = job.virt /\ job # NoJob
    BY <1>1, <2>1, PageCounts, Ground DEF IInv, JobInv
  <2>3. JobPages'
    BY <2>2 DEF IInv, JobPages
  <2>4. AtPage(mem', v) = hand /\ \A u \in Pages : u # v => AtPage(mem', u) = AtPage(mem, u)
    BY <1>9 DEF Updated
  <2>5. ASSUME NEW u \in HeapPages
        PROVE  /\ AtPage(mem', u) \in Own \cup {None}
               /\ AtPage(mem', u) # None <=> u < PageOf(HEAP_END) + (job.i + 1)
    <3>1. u \in Nat /\ u \in Pages
      BY <1>7, HeapPagesIs
    <3>2. CASE u = v
      BY <1>1, <2>4, <3>2, Ground
    <3>3. CASE u # v
      <4>1. AtPage(mem', u) = AtPage(mem, u)
        BY <2>4, <3>1, <3>3
      <4>2. u < PageOf(HEAP_END) + (job.i + 1) <=> u < PageOf(HEAP_END) + job.i
        BY <1>1, <3>1, <3>3
      <4>3. /\ AtPage(mem, u) \in Own \cup {None}
            /\ AtPage(mem, u) # None <=> u < PageOf(HEAP_END) + job.i
        BY DEF IInv, MapsInv
      <4> QED
        BY <4>1, <4>2, <4>3
    <3> QED
      BY <3>2, <3>3
  <2>6. \A u \in DevPages : AtPage(mem', u) \notin Own
    BY <1>1, <1>7, <2>4 DEF IInv, MapsInv
  <2>7. MapsInv'
    BY <1>2, <2>2, <2>5, <2>6 DEF MapsInv
  <2>8. CacheInv'
    BY <1>1, <1>5, <1>9, CacheFlushed DEF IInv
  <2>9. \E Q : Uses(mem', Q, FreeOf(P), None, stacks, lost)
    BY <1>1, <1>3, <1>6, <1>9, MapInHand
  <2>10. FramesInv'
    BY <1>2, <1>6, <2>1, <2>9 DEF FramesInv
  <2> QED
    BY <2>3, <2>7, <2>8, <2>10
<1> QED
  BY <1>6, <1>8, <1>9

\* The pages mapped so far become the heap's.
LEMMA BuiltIInv ==
    ASSUME IInv, HP!IInv, Built
    PROVE  JobPages' /\ MapsInv' /\ CacheInv' /\ FramesInv'
<1>1. /\ job.i = job.n /\ job' = NoJob
      /\ UNCHANGED <<mem, freePages, tlb, seen, panicked, hand, stacks, lost>>
      /\ job # NoJob /\ phase # "panic"
      /\ IF job.size = 0 THEN H!FirstBlock ELSE H!Extend(job.size)
  BY DEF Built, Up, vars, tasks
<1>2. job.n \in Nat /\ HEAP_END \in Nat /\ HEAP_END' = HEAP_END + job.n * PAGE_SIZE
  <2>1. job.n \in Nat /\ HEAP_END \in Nat
    BY DEF IInv, JobInv, HeapEnd
  <2>2. CASE ForBoot
    BY <1>1, <2>1, <2>2, EndIs DEF ForBoot, H!FirstBlock
  <2>3. CASE ForExpansion
    <3>1. job.size # 0
      BY <2>3, PageCounts DEF ForExpansion
    <3> QED
      BY <1>1, <2>1, <2>3, <3>1 DEF ForExpansion, H!Extend
  <2> QED
    BY <1>1, <2>2, <2>3 DEF IInv, JobInv
<1>3. PageOf(HEAP_END') = PageOf(HEAP_END) + job.i /\ PageOf(HEAP_END) \in Nat
  <2>1. HEAP_END % PAGE_SIZE = 0
    BY EndIs
  <2>2. PageOf(HEAP_END + job.n * PAGE_SIZE) = PageOf(HEAP_END) + job.n /\ PageOf(HEAP_END) \in Nat
    BY <1>2, <2>1, PageOfIs
  <2> QED
    BY <1>1, <1>2, <2>2
<1>4. job'.i = 0
  BY <1>1, PageCounts
<1>5. PageOf(HEAP_END') + job'.i = PageOf(HEAP_END) + job.i
  BY <1>1, <1>2, <1>3, <1>4
<1>6. MapsInv'
  BY <1>1, <1>5 DEF IInv, MapsInv
<1>7. CacheInv' /\ FramesInv'
  BY <1>1, CacheSame DEF IInv, FramesInv
<1>8. JobPages'
  BY <1>1 DEF JobPages
<1> QED
  BY <1>6, <1>7, <1>8

\* kmalloc and kfree move no page.
LEMMA HeapIInv ==
    ASSUME IInv, UseHeap \/ UNCHANGED memoryVars
    PROVE  JobPages' /\ MapsInv' /\ CacheInv' /\ FramesInv'
<1>1. /\ UNCHANGED <<mem, freePages, tlb, seen, panicked, job, hand, stacks, lost>>
      /\ HEAP_END' = HEAP_END
  <2>1. CASE UseHeap
    BY <2>1 DEF UseHeap, vars, fresh, tasks, H!Take, H!TooLarge, H!kfree
  <2>2. CASE UNCHANGED memoryVars
    BY <2>2 DEF memoryVars, vars, heap, fresh, tasks
  <2> QED
    BY <2>1, <2>2
<1>2. MapsInv'
  BY <1>1, MapsSame DEF IInv
<1>3. CacheInv'
  BY <1>1, CacheSame DEF IInv
<1>4. JobPages' /\ FramesInv'
  BY <1>1 DEF IInv, JobPages, FramesInv
<1> QED
  BY <1>2, <1>3, <1>4

\* Two frames are free.
LEMMA TwoFree ==
    ASSUME NEW free \in SUBSET Own, Cardinality(free) >= 2,
           NEW f, f = FirstFree(free), NEW g, g = FirstFree(free \ {f})
    PROVE  f \in free /\ g \in free /\ f # g
<1>1. IsFiniteSet(free)
  <2>1. IsFiniteSet(Own)
    BY Ground, FS_Interval DEF Own
  <2> QED
    BY <2>1, FS_Subset
<1>2. free # {}
  BY FS_EmptySet
<1>3. f \in free
  BY <1>2, FirstFreeIs
<1>4. free \ {f} # {}
  <2>1. Cardinality(free \ {f}) = Cardinality(free) - 1 /\ Cardinality(free) \in Nat
    BY <1>1, <1>3, FS_RemoveElement, FS_CardinalityType
  <2>2. Cardinality(free \ {f}) # 0
    BY <2>1
  <2> QED
    BY <2>2, FS_EmptySet
<1>5. g \in free \ {f}
  BY <1>4, FirstFreeIs
<1> QED
  BY <1>3, <1>5

\* Creating a task and ending one keep it.
LEMMA TasksIInv ==
    ASSUME IInv, new_kernel_task \/ terminate
    PROVE  JobPages' /\ MapsInv' /\ CacheInv' /\ FramesInv'
<1>1. UNCHANGED <<mem, tlb, seen, panicked, job, hand>> /\ HEAP_END' = HEAP_END
  BY DEF new_kernel_task, terminate, heap, fresh
<1>2. JobPages' /\ MapsInv'
  BY <1>1, MapsSame DEF IInv, JobPages
<1>3. CacheInv'
  BY <1>1, CacheSame DEF IInv
<1>4. PICK R : Uses(mem, R, freePages, hand, stacks, lost)
  BY DEF IInv, FramesInv
<1>5. CASE new_kernel_task
  <2> DEFINE f == FirstFree(freePages)
             g == FirstFree(freePages \ {f})
             st == <<f, g>>
  <2>1. /\ Cardinality(freePages) >= 2 /\ stacks' = stacks \cup {st}
        /\ freePages' = freePages \ {f, g} /\ lost' = lost
    BY <1>5 DEF new_kernel_task
  <2>2. freePages \in SUBSET Own
    BY <1>4 DEF Uses, Roles, FreeOf
  <2>3. f \in freePages /\ g \in freePages /\ f # g
    BY <2>1, <2>2, TwoFree
  <2>4. \E Q : Uses(mem, Q, freePages \ {f, g}, hand, stacks \cup {st}, lost)
    <3> HIDE DEF f, g
    <3> QED
      BY <1>4, <2>3, TakeStack
  <2> QED
    BY <1>1, <1>2, <1>3, <2>1, <2>4 DEF FramesInv
<1>6. CASE terminate
  <2>1. PICK st \in stacks : /\ stacks' = stacks \ {st} /\ freePages' = freePages \cup {st[1]}
                             /\ lost' = lost \cup {st[2]}
    BY <1>6 DEF terminate
  <2>2. \E Q : Uses(mem, Q, freePages \cup {st[1]}, hand, stacks \ {st}, lost \cup {st[2]})
    BY <1>4, FreeStack
  <2> QED
    BY <1>1, <1>2, <1>3, <2>1, <2>2 DEF FramesInv
<1> QED
  BY <1>5, <1>6

\* A page leads to a frame that map_page was called with.
LEMMA AtPageType ==
    ASSUME FramesInv, NEW v \in Pages
    PROVE  AtPage(mem, v) \in Phys \cup {None}
<1>1. PICK R : Tree(mem, R)
  BY DEF FramesInv, Uses
<1>2. Clear(split_indices(v))
  BY SplitClear
<1> QED
  BY <1>1, <1>2, WalkIs DEF AtPage

\* The processor uses the frame that the page leads to.
LEMMA AccessIs ==
    ASSUME CacheInv, FramesInv, NEW v \in Pages, Access(v)
    PROVE  /\ AtPage(mem, v) # None /\ AtPage(mem, v) \in Phys
           /\ seen' = [page |-> v, frame |-> AtPage(mem, v)]
           /\ tlb' = [tlb EXCEPT ![v] = AtPage(mem, v)]
           /\ UNCHANGED <<mem, freePages, panicked>>
<1>1. PICK f \in IF tlb[v] # None THEN {tlb[v]} ELSE {get_phys_addr(v)} \ {None} :
        seen' = [page |-> v, frame |-> f] /\ tlb' = [tlb EXCEPT ![v] = f]
  BY DEF Access
<1>2. get_phys_addr(v) = AtPage(mem, v)
  BY PhysIs
<1>3. f = AtPage(mem, v) /\ f # None
  BY <1>1, <1>2 DEF CacheInv
<1>4. UNCHANGED <<mem, freePages, panicked>>
  BY DEF Access
<1> QED
  BY <1>1, <1>3, <1>4, AtPageType

\* The processor caches only what the tables say.
LEMMA AccessCache ==
    ASSUME CacheInv, FramesInv, NEW v \in Pages, Access(v) \/ Evict(v)
    PROVE  CacheInv' /\ UNCHANGED <<mem, freePages>>
<1>1. CASE Access(v)
  <2>1. /\ AtPage(mem, v) \in Phys /\ seen' = [page |-> v, frame |-> AtPage(mem, v)]
        /\ tlb' = [tlb EXCEPT ![v] = AtPage(mem, v)]
        /\ UNCHANGED <<mem, freePages, panicked>>
    BY <1>1, AccessIs
  <2>2. tlb' \in [Pages -> Phys \cup {None}]
    BY <2>1 DEF CacheInv
  <2>3. \A u \in Pages : tlb'[u] # None => tlb'[u] = AtPage(mem, u)
    BY <2>1 DEF CacheInv
  <2>4. seen' \in [page : Pages \cup {None}, frame : Phys \cup {None}]
    BY <2>1
  <2> QED
    BY <2>1, <2>2, <2>3, <2>4 DEF CacheInv
<1>2. CASE Evict(v)
  <2>1. tlb' = [tlb EXCEPT ![v] = None] /\ UNCHANGED <<mem, freePages, seen, panicked>>
    BY <1>2 DEF Evict, invlpg
  <2>2. tlb' \in [Pages -> Phys \cup {None}]
    BY <2>1 DEF CacheInv
  <2>3. \A u \in Pages : tlb'[u] # None => tlb'[u] = AtPage(mem, u)
    BY <2>1 DEF CacheInv
  <2> QED
    BY <2>1, <2>2, <2>3 DEF CacheInv
<1> QED
  BY <1>1, <1>2

\* A page of a device is mapped or unmapped; no other page is changed.
LEMMA DeviceMaps ==
    ASSUME MapsInv, NEW v \in DevPages, NEW p, p \notin Own, Updated(mem, mem', v, p),
           HEAP_END' = HEAP_END, job' = job
    PROVE  /\ MapsInv'
           /\ \A u \in Pages : \/ AtPage(mem', u) = AtPage(mem, u)
                               \/ AtPage(mem', u) \notin Own /\ AtPage(mem, u) \notin Own
<1>1. HeapPages \subseteq Pages /\ DevPages \subseteq Pages /\ HeapPages \cap DevPages = {}
  BY MemoryAssumption
<1>2. AtPage(mem', v) = p /\ \A u \in Pages : u # v => AtPage(mem', u) = AtPage(mem, u)
  BY DEF Updated
<1>3. \A u \in HeapPages : AtPage(mem', u) = AtPage(mem, u)
  BY <1>1, <1>2
<1>4. \A u \in DevPages : AtPage(mem', u) \notin Own
  BY <1>1, <1>2 DEF MapsInv
<1>5. MapsInv'
  BY <1>3, <1>4 DEF MapsInv
<1> QED
  BY <1>2, <1>5 DEF MapsInv

\* Mapping, moving and removing the page of a device keep it.
LEMMA DeviceIInv ==
    ASSUME IInv, UseDevice
    PROVE  JobPages' /\ MapsInv' /\ CacheInv' /\ FramesInv'
<1>1. job' = job /\ hand' = hand /\ UNCHANGED <<stacks, lost>> /\ HEAP_END' = HEAP_END
  BY DEF UseDevice, heap, fresh, tasks
<1>2. PICK v \in DevPages : \/ unmap_page(v) \/ Access(v) \/ Evict(v)
                            \/ \E p \in DevPhys : map_page(v, p)
  BY DEF UseDevice
<1>3. v \in Pages /\ DevPhys \subseteq Phys /\ DevPhys \cap Own = {}
  BY MemoryAssumption, Ground
<1>4. JobPages'
  BY <1>1 DEF IInv, JobPages
<1>5. PICK R : Uses(mem, R, freePages, hand, stacks, lost)
  BY DEF IInv, FramesInv
<1>6. Tree(mem, R) /\ freePages = FreeOf(R)
  BY <1>5 DEF Uses, Roles
<1>7. CASE Access(v) \/ Evict(v)
  <2>1. CacheInv' /\ UNCHANGED <<mem, freePages>>
    BY <1>3, <1>7, AccessCache DEF IInv
  <2>2. MapsInv'
    BY <1>1, <2>1, MapsSame DEF IInv
  <2>3. FramesInv'
    BY <1>1, <2>1 DEF IInv, FramesInv
  <2> QED
    BY <1>4, <2>1, <2>2, <2>3
<1>8. CASE unmap_page(v)
  <2>1. /\ Tree(mem', R) /\ Updated(mem, mem', v, None)
        /\ tlb' = [tlb EXCEPT ![v] = None] /\ seen' = Unseen
        /\ UNCHANGED <<freePages, panicked>>
    BY <1>3, <1>6, <1>8, UnmapPage
  <2>2. /\ MapsInv'
        /\ \A u \in Pages : \/ AtPage(mem', u) = AtPage(mem, u)
                            \/ AtPage(mem', u) \notin Own /\ AtPage(mem, u) \notin Own
    BY <1>1, <2>1, DeviceMaps, Ground DEF IInv
  <2>3. CacheInv'
    BY <1>3, <2>1, CacheFlushed DEF IInv, CacheInv
  <2>4. Grown(R, R)
    BY DEF Grown
  <2>5. Uses(mem', R, FreeOf(R), hand, stacks, lost)
    BY <1>5, <2>1, <2>2, <2>4, KeepUses
  <2>6. FramesInv'
    BY <1>1, <1>6, <2>1, <2>5 DEF FramesInv
  <2> QED
    BY <1>4, <2>2, <2>3, <2>6
<1>9. ASSUME NEW p \in DevPhys, map_page(v, p) PROVE MapsInv' /\ CacheInv' /\ FramesInv'
  <2>1. /\ \E P : /\ Tree(mem', P) /\ Grown(R, P) /\ freePages' = FreeOf(P)
                  /\ \/ /\ panicked' = TRUE /\ tlb' = tlb
                        /\ \A u \in Pages : AtPage(mem', u) = AtPage(mem, u)
                     \/ /\ panicked' = FALSE /\ tlb' = [tlb EXCEPT ![v] = None]
                        /\ Updated(mem, mem', v, p)
        /\ seen' = Unseen
    BY <1>3, <1>6, <1>9, MapPage
  <2>2. PICK P : /\ Tree(mem', P) /\ Grown(R, P) /\ freePages' = FreeOf(P)
                 /\ \/ /\ panicked' = TRUE /\ tlb' = tlb
                       /\ \A u \in Pages : AtPage(mem', u) = AtPage(mem, u)
                    \/ /\ panicked' = FALSE /\ tlb' = [tlb EXCEPT ![v] = None]
                       /\ Updated(mem, mem', v, p)
    BY <2>1
  <2>3. /\ MapsInv'
        /\ \A u \in Pages : \/ AtPage(mem', u) = AtPage(mem, u)
                            \/ AtPage(mem', u) \notin Own /\ AtPage(mem, u) \notin Own
    <3>1. CASE \A u \in Pages : AtPage(mem', u) = AtPage(mem, u)
      <4>1. MapsInv'
        BY <1>1, <3>1, MemoryAssumption DEF IInv, MapsInv
      <4> QED
        BY <3>1, <4>1
    <3>2. CASE Updated(mem, mem', v, p)
      BY <1>1, <1>3, <3>2, DeviceMaps DEF IInv
    <3> QED
      BY <2>2, <3>1, <3>2
  <2>4. CacheInv'
    BY <1>3, <2>1, <2>2, CacheFlushed, CacheValid DEF IInv
  <2>5. Uses(mem', P, FreeOf(P), hand, stacks, lost)
    BY <1>5, <2>2, <2>3, KeepUses
  <2>6. FramesInv'
    BY <1>1, <2>2, <2>5 DEF FramesInv
  <2> QED
    BY <2>3, <2>4, <2>6
<1> QED
  BY <1>2, <1>4, <1>7, <1>8, <1>9

\* Every step of the kernel keeps it.
LEMMA StepIInv ==
    ASSUME IInv, HP!IInv, [MemoryNext]_memoryVars
    PROVE  IInv'
<1>1. JobInv' /\ HeapEnd'
  BY JobStep, EndStep DEF IInv
<1>2. JobPages' /\ MapsInv' /\ CacheInv' /\ FramesInv'
  <2>1. CASE kmalloc_init \/ \E n \in Sizes : expand_heap(n)
    BY <2>1, StartIInv
  <2>2. CASE AllocFresh
    BY <2>2, AllocIInv
  <2>3. CASE MapFresh
    BY <2>3, MapIInv
  <2>4. CASE Built
    BY <2>4, BuiltIInv
  <2>5. CASE UseHeap \/ UNCHANGED memoryVars
    BY <2>5, HeapIInv
  <2>6. CASE new_kernel_task \/ terminate
    BY <2>6, TasksIInv
  <2>7. CASE UseDevice
    BY <2>7, DeviceIInv
  <2> QED
    BY <2>1, <2>2, <2>3, <2>4, <2>5, <2>6, <2>7 DEF MemoryNext
<1> QED
  BY <1>1, <1>2 DEF IInv

-----------------------------------------------------------------------------
(* Theorems                                                                  *)

\* The invariant holds in every state.
THEOREM MemoryInvariance == MemorySpec => []IInv
<1>1. MemoryInit => IInv
  BY InitIInv
<1>2. IInv /\ HP!IInv /\ [MemoryNext]_memoryVars => IInv'
  BY StepIInv
<1> QED
  BY <1>1, <1>2, HeapAlways, PTL DEF MemorySpec

\* Every page from HEAP_START to HEAP_END is mapped, and none after it but those
\* of an expansion in progress.
THEOREM HeapBacked == MemorySpec => []HeapIsBacked
<1>1. IInv /\ HP!IInv => HeapIsBacked
  <2> SUFFICES ASSUME IInv, HP!IInv, NEW v \in HeapPages
               PROVE  /\ v * PAGE_SIZE < HEAP_END => get_phys_addr(v) # None
                      /\ get_phys_addr(v) # None /\ v * PAGE_SIZE >= HEAP_END => job # NoJob
    BY DEF HeapIsBacked
  <2> DEFINE e == PageOf(HEAP_END)
  <2>1. e \in Nat /\ HEAP_END = e * PAGE_SIZE /\ v \in Nat /\ PAGE_SIZE \in Nat \ {0}
    <3>1. HEAP_END \in Nat /\ HEAP_END % PAGE_SIZE = 0
      BY EndIs DEF IInv, HeapEnd
    <3>2. e \in Nat /\ HEAP_END = e * PAGE_SIZE
      BY <3>1, PageOfIs
    <3> QED
      BY <3>2, HeapPagesIs
  <2>2. AtPage(mem, v) # None <=> v < e + job.i
    BY DEF IInv, MapsInv
  <2>3. get_phys_addr(v) = AtPage(mem, v)
    BY PhysIs
  <2>4. job.i \in Nat /\ (job = NoJob => job.i = 0)
    BY PageCounts DEF IInv, JobInv
  <2> HIDE DEF e
  <2>5. v * PAGE_SIZE < HEAP_END <=> v < e
    <3>1. v \in Int /\ e \in Int
      BY <2>1
    <3> QED
      BY <2>1, <3>1, Cancel
  <2>6. v * PAGE_SIZE \in Nat /\ HEAP_END \in Nat
    BY <2>1
  <2> QED
    BY <2>1, <2>2, <2>3, <2>4, <2>5, <2>6
<1> QED
  BY <1>1, MemoryInvariance, HeapAlways, PTL

\* Every variable keeps its type, and map_fresh_pages maps pages of the heap.
THEOREM MemoryTypes == MemorySpec => []MemoryTypeOK
<1>1. IInv /\ HP!IInv => MemoryTypeOK
  <2> SUFFICES ASSUME IInv, HP!IInv PROVE MemoryTypeOK
    OBVIOUS
  <2>1. PICK R : Uses(mem, R, freePages, hand, stacks, lost)
    BY DEF IInv, FramesInv
  <2>2. /\ mem \in [Frames -> [Idx -> Frames \cup Phys \cup {None}]]
        /\ freePages \subseteq Own /\ hand \in Own \cup {None}
        /\ stacks \subseteq Own \X Own /\ lost \subseteq Own
    BY <2>1 DEF Uses, Tree, Typed, Roles, FreeOf
  <2>3. TypeOK
    BY <2>2 DEF IInv, CacheInv, TypeOK, Own
  <2>4. H!TypeOK
    BY DEF HP!IInv, HP!TypeOK, H!TypeOK
  <2>5. job.i \in 0..job.n /\ (job # NoJob => job.virt..(job.virt + job.n - 1) \subseteq HeapPages)
    BY DEF IInv, JobInv, JobPages
  <2> QED
    BY <2>2, <2>3, <2>4, <2>5 DEF MemoryTypeOK, Own
<1> QED
  BY <1>1, MemoryInvariance, HeapAlways, PTL

-----------------------------------------------------------------------------
(* The page tables and the cache implement a mapping                         *)

\* At the start no page is mapped, and none has been looked up.
LEMMA SpaceInit ==
    ASSUME MemoryInit
    PROVE  Space!Init
<1>1. \A v \in Pages : get_phys_addr(v) = None
  BY InitUses, PhysIs
<1>2. seen = Unseen
  BY DEF MemoryInit, Init
<1> QED
  BY <1>1, <1>2 DEF Space!Init, Space!Unseen, Unseen

\* Nothing that the abstract mapping sees.
LEMMA SpaceSame ==
    ASSUME \A u \in Pages : AtPage(mem', u) = AtPage(mem, u), seen' = seen
    PROVE  UNCHANGED Space!vars
<1>1. \A u \in Pages : get_phys_addr(u)' = get_phys_addr(u)
  BY PhysIs
<1>2. [u \in Pages |-> get_phys_addr(u)]' = [u \in Pages |-> get_phys_addr(u)]
  BY <1>1
<1> QED
  BY <1>2 DEF Space!vars

\* One page changes, or none does; the access before is forgotten.
LEMMA SpaceUpdate ==
    ASSUME NEW v \in Pages, AtPage(mem', v) \in Phys \cup {None},
           \A u \in Pages : u # v => AtPage(mem', u) = AtPage(mem, u), seen' = Unseen
    PROVE  Space!Next
<1> DEFINE f == [u \in Pages |-> get_phys_addr(u)]
<1>1. /\ get_phys_addr(v)' \in Phys \cup {None}
      /\ \A u \in Pages : u # v => get_phys_addr(u)' = get_phys_addr(u)
  BY PhysIs
<1>2. f'[v] \in Phys \cup {None}
  BY <1>1
<1>3. f' = [f EXCEPT ![v] = f'[v]]
  BY <1>1
<1>4. Space!Update(v)
  BY <1>2, <1>3 DEF Space!Update, Space!Unseen, Unseen
<1> QED
  BY <1>4 DEF Space!Next

\* An access obeys the mapping.
LEMMA SpaceAccess ==
    ASSUME IInv, NEW v \in Pages, Access(v)
    PROVE  Space!Next
<1>1. /\ AtPage(mem, v) # None /\ seen' = [page |-> v, frame |-> AtPage(mem, v)] /\ mem' = mem
  BY AccessIs DEF IInv
<1>2. get_phys_addr(v) # None /\ seen' = [page |-> v, frame |-> get_phys_addr(v)]
  BY <1>1, PhysIs
<1>3. \A u \in Pages : get_phys_addr(u)' = get_phys_addr(u)
  BY <1>1, PhysIs
<1>4. [u \in Pages |-> get_phys_addr(u)]' = [u \in Pages |-> get_phys_addr(u)]
  BY <1>3
<1>5. Space!Access(v)
  BY <1>2, <1>4 DEF Space!Access
<1> QED
  BY <1>5 DEF Space!Next

\* The tables, as map_page and unmap_page change them and with the processor's
\* cache, implement a mapping: each call changes one page, and no access uses a
\* frame that the page does not lead to any more.
THEOREM TablesImplementSpace == MemorySpec => ImplementsSpace
<1>1. MemoryInit => Space!Init
  BY SpaceInit
<1>2. IInv /\ HP!IInv /\ [MemoryNext]_memoryVars => [Space!Next]_Space!vars
  <2> SUFFICES ASSUME IInv, HP!IInv, [MemoryNext]_memoryVars
               PROVE  Space!Next \/ UNCHANGED Space!vars
    OBVIOUS
  <2>1. ASSUME mem' = mem, seen' = seen PROVE UNCHANGED Space!vars
    BY <2>1, SpaceSame
  <2>2. CASE kmalloc_init \/ (\E n \in Sizes : expand_heap(n)) \/ AllocFresh \/ Built \/ UseHeap
               \/ new_kernel_task \/ terminate \/ UNCHANGED memoryVars
    <3>1. mem' = mem /\ seen' = seen
      BY <2>2 DEF kmalloc_init, expand_heap, AllocFresh, Built, UseHeap, new_kernel_task, terminate,
                  memoryVars, vars
    <3> QED
      BY <2>1, <3>1
  <2>3. PICK R : Tree(mem, R) /\ freePages = FreeOf(R)
    BY DEF IInv, FramesInv, Uses, Roles
  <2>4. ASSUME NEW v \in Pages, NEW p \in Phys, map_page(v, p) PROVE Space!Next
    <3>1. /\ \/ \A u \in Pages : AtPage(mem', u) = AtPage(mem, u)
             \/ Updated(mem, mem', v, p)
          /\ seen' = Unseen
      BY <2>3, <2>4, MapPage
    <3>2. AtPage(mem, v) \in Phys \cup {None}
      BY AtPageType DEF IInv
    <3> QED
      BY <3>1, <3>2, SpaceUpdate DEF Updated
  <2>5. ASSUME NEW v \in Pages, unmap_page(v) PROVE Space!Next
    <3>1. Updated(mem, mem', v, None) /\ seen' = Unseen
      BY <2>3, <2>5, UnmapPage
    <3> QED
      BY <3>1, SpaceUpdate DEF Updated
  <2>6. CASE MapFresh
    <3>1. map_page(FreshPage, hand) /\ FreshPage \in Pages /\ hand \in Phys
      BY <2>6, FreshPageIs DEF MapFresh
    <3>2. PICK v : v = FreshPage
      OBVIOUS
    <3>3. PICK p : p = hand
      OBVIOUS
    <3>4. map_page(v, p) /\ v \in Pages /\ p \in Phys
      BY <3>1, <3>2, <3>3 DEF map_page
    <3> QED
      BY <2>4, <3>4
  <2>7. CASE UseDevice
    <3>1. PICK v \in DevPages : \/ unmap_page(v) \/ Access(v) \/ Evict(v)
                                \/ \E p \in DevPhys : map_page(v, p)
      BY <2>7 DEF UseDevice
    <3>2. v \in Pages /\ DevPhys \subseteq Phys
      BY MemoryAssumption
    <3>3. CASE Evict(v)
      BY <2>1, <3>3 DEF Evict
    <3>4. CASE Access(v)
      BY <3>2, <3>4, SpaceAccess
    <3>5. CASE unmap_page(v)
      BY <2>5, <3>2, <3>5
    <3>6. CASE \E p \in DevPhys : map_page(v, p)
      BY <2>4, <3>2, <3>6
    <3> QED
      BY <3>1, <3>3, <3>4, <3>5, <3>6
  <2> QED
    BY <2>2, <2>6, <2>7 DEF MemoryNext
<1>3. MemorySpec => Space!Spec
  BY <1>1, <1>2, MemoryInvariance, HeapAlways, PTL DEF MemorySpec, Space!Spec
<1> QED
  BY <1>3 DEF ImplementsSpace

-----------------------------------------------------------------------------
(* Every frame has one use                                                   *)

\* A set without two different elements has one or none.
LEMMA AtMostOne ==
    ASSUME NEW S, \A x, y \in S : x = y
    PROVE  Cardinality(S) = IF S = {} THEN 0 ELSE 1
<1>1. CASE S = {}
  BY <1>1, FS_EmptySet
<1>2. CASE S # {}
  <2>1. PICK x \in S : TRUE
    BY <1>2
  <2>2. S = {x}
    BY <2>1
  <2> QED
    BY <1>2, <2>2, FS_Singleton
<1> QED
  BY <1>1, <1>2

\* The tables of one level name those of the next.
LEMMA BelowIs ==
    ASSUME NEW R, Tree(mem, R), NEW l \in 1..2, NEW T, T = {t \in Frames : R[t] = l}
    PROVE  Below(T) = {t \in Frames : R[t] = l + 1}
<1>0. l \in Upper /\ l + 1 \in 2..4
  BY DEF Upper
<1>1. ASSUME NEW x \in Below(T) PROVE x \in Frames /\ R[x] = l + 1
  <2>1. PICK e \in T \X Idx : mem[e[1]][e[2]] = x
    BY <1>1 DEF Below
  <2>2. x \notin Opaque \cup {None}
    BY <1>1 DEF Below
  <2>3. e[1] \in Frames /\ R[e[1]] = l /\ e[2] \in Idx
    BY <2>1
  <2>4. R[e[1]] \in Upper /\ mem[e[1]][e[2]] \notin Opaque \cup {None}
    BY <1>0, <2>1, <2>2, <2>3
  <2>5. Levels(mem, R)
    BY DEF Tree
  <2> QED
    BY <2>1, <2>3, <2>4, <2>5 DEF Levels
<1>2. ASSUME NEW x \in Frames, R[x] = l + 1 PROVE x \in Below(T)
  <2>1. PICK t \in Frames, i \in Idx : R[t] = R[x] - 1 /\ mem[t][i] = x
    BY <1>0, <1>2 DEF Tree, HasParent
  <2>2. <<t, i>> \in T \X Idx
    BY <1>2, <2>1
  <2>3. x # None /\ x \notin Opaque
    BY <1>0, <1>2, Ground DEF Tree, LoaderKept
  <2> QED
    BY <2>1, <2>2, <2>3 DEF Below
<1> QED
  BY <1>1, <1>2

\* The upper tables are the frames with the role of one.
LEMMA UpperTablesIs ==
    ASSUME NEW R, Tree(mem, R), \A f \in Frames : R[f] = 1 => f = Root
    PROVE  UpperTables = {t \in Frames : R[t] \in Upper}
<1>1. {Root} = {t \in Frames : R[t] = 1}
  BY Ground DEF Tree, Typed
<1>2. Below({Root}) = {t \in Frames : R[t] = 2}
  BY <1>1, BelowIs
<1>3. Below(Below({Root})) = {t \in Frames : R[t] = 3}
  <2>1. \A T : T = {t \in Frames : R[t] = 2} => Below(T) = {t \in Frames : R[t] = 2 + 1}
    BY BelowIs
  <2>2. 2 + 1 = 3
    OBVIOUS
  <2>3. Below(Below({Root})) = {t \in Frames : R[t] = 2 + 1}
    BY <1>2, <2>1
  <2> QED
    BY <2>2, <2>3
<1>4. UpperTables = {Root} \cup Below({Root}) \cup Below(Below({Root}))
  BY DEF UpperTables
<1> QED
  BY <1>1, <1>2, <1>3, <1>4 DEF Upper

\* One entry of the upper levels names a table, and none names another frame.
LEMMA Namings ==
    ASSUME NEW R, Tree(mem, R), \A f \in Frames : R[f] = 1 => f = Root,
           NEW f \in Own
    PROVE  Cardinality({e \in UpperTables \X Idx : mem[e[1]][e[2]] = f})
             = IF R[f] \in 2..4 THEN 1 ELSE 0
<1> DEFINE T == {t \in Frames : R[t] \in Upper}
           S == {e \in T \X Idx : mem[e[1]][e[2]] = f}
<1>1. f \in Frames /\ f \notin Opaque \cup {None}
  BY Ground
<1>2. ASSUME NEW x \in S, NEW y \in S PROVE x = y
  <2>1. x = <<x[1], x[2]>> /\ x[1] \in Frames /\ R[x[1]] \in Upper /\ x[2] \in Idx /\ mem[x[1]][x[2]] = f
    OBVIOUS
  <2>2. y = <<y[1], y[2]>> /\ y[1] \in Frames /\ R[y[1]] \in Upper /\ y[2] \in Idx /\ mem[y[1]][y[2]] = f
    OBVIOUS
  <2>3. mem[x[1]][x[2]] = mem[y[1]][y[2]] /\ mem[x[1]][x[2]] \notin Opaque \cup {None}
    BY <1>1, <2>1, <2>2
  <2>4. OneParent(mem, R)
    BY DEF Tree
  <2>5. x[1] = y[1] /\ x[2] = y[2]
    BY <2>1, <2>2, <2>3, <2>4 DEF OneParent
  <2> QED
    BY <2>1, <2>2, <2>5
<1>3. ASSUME R[f] \in 2..4 PROVE S # {}
  <2>1. PICK t \in Frames, i \in Idx : R[t] = R[f] - 1 /\ mem[t][i] = f
    BY <1>1, <1>3 DEF Tree, HasParent
  <2>2. R[t] \in Upper
    BY <1>3, <2>1 DEF Upper
  <2>3. <<t, i>> \in S
    BY <2>1, <2>2
  <2> QED
    BY <2>3
<1>4. ASSUME S # {} PROVE R[f] \in 2..4
  <2>1. PICK x \in S : TRUE
    BY <1>4
  <2>2. x[1] \in Frames /\ R[x[1]] \in Upper /\ x[2] \in Idx /\ mem[x[1]][x[2]] = f
    BY <2>1
  <2>3. R[x[1]] \in Upper /\ mem[x[1]][x[2]] \notin Opaque \cup {None}
    BY <1>1, <2>2
  <2>4. R[f] = R[x[1]] + 1
    BY <2>2, <2>3 DEF Tree, Levels
  <2> QED
    BY <2>2, <2>4 DEF Upper
<1>5. UpperTables = T
  BY UpperTablesIs
<1> HIDE DEF S
<1>6. Cardinality(S) = IF R[f] \in 2..4 THEN 1 ELSE 0
  BY <1>2, <1>3, <1>4, AtMostOne
<1> QED
  BY <1>5, <1>6 DEF S

\* The other claims on a frame.
LEMMA ClaimsAre ==
    ASSUME NEW R, Uses(mem, R, freePages, hand, stacks, lost), NEW f \in Own
    PROVE  Claims(f) = IF R[f] \in 2..4 THEN 0 ELSE 1
<1> DEFINE A == {v \in Pages : get_phys_addr(v) = f}
           B == {st \in stacks : st[1] = f}
           C == {st \in stacks : st[2] = f}
<1>1. /\ R[f] \in 2..10
      /\ R[f] = InHand <=> hand = f
      /\ R[f] = Lost <=> f \in lost
      /\ R[f] = Stack0 <=> \E st \in stacks : st[1] = f
      /\ R[f] = Stack1 <=> \E st \in stacks : st[2] = f
      /\ R[f] = Mapped <=> \E v \in Pages : AtPage(mem, v) = f
      /\ R[f] = Free <=> f \in freePages
  BY DEF Uses, Roles, FreeOf
<1>2. \A v : get_phys_addr(v) = AtPage(mem, v)
  BY PhysIs
<1>3. Cardinality(A) = IF R[f] = Mapped THEN 1 ELSE 0
  <2>1. \A x, y \in A : x = y
    BY <1>2 DEF Uses, Once
  <2>2. A # {} <=> R[f] = Mapped
    BY <1>1, <1>2
  <2> HIDE DEF A
  <2> QED
    BY <2>1, <2>2, AtMostOne
<1>4. Cardinality(B) = IF R[f] = Stack0 THEN 1 ELSE 0
  <2>1. \A x, y \in B : x = y
    BY DEF Uses, Once
  <2>2. B # {} <=> R[f] = Stack0
    BY <1>1
  <2> HIDE DEF B
  <2> QED
    BY <2>1, <2>2, AtMostOne
<1>5. Cardinality(C) = IF R[f] = Stack1 THEN 1 ELSE 0
  <2>1. \A x, y \in C : x = y
    BY DEF Uses, Once
  <2>2. C # {} <=> R[f] = Stack1
    BY <1>1
  <2> HIDE DEF C
  <2> QED
    BY <2>1, <2>2, AtMostOne
<1>6. /\ Count(f \in freePages) = IF R[f] = Free THEN 1 ELSE 0
      /\ Count(f = hand) = IF R[f] = InHand THEN 1 ELSE 0
      /\ Count(f \in lost) = IF R[f] = Lost THEN 1 ELSE 0
  BY <1>1 DEF Count
<1>7. Claims(f) = Cardinality(A) + Cardinality(B) + Cardinality(C)
                    + Count(f \in freePages) + Count(f = hand) + Count(f \in lost)
  BY DEF Claims
<1> HIDE DEF A, B, C
<1> QED
  BY <1>1, <1>3, <1>4, <1>5, <1>6, <1>7 DEF Free, InHand, Lost, Stack0, Stack1, Mapped

\* Each frame is free, or a table that one entry of one table names, or the one
\* page of one mapping, stack or list: nobody shares a frame and none leaks but
\* the upper frames of the stacks of terminated tasks.
THEOREM FramesHaveOneUse == MemorySpec => []FrameHasOneUse
<1>1. IInv => FrameHasOneUse
  <2> SUFFICES ASSUME IInv, NEW f \in Own
               PROVE  Claims(f) + Cardinality({e \in UpperTables \X Idx : mem[e[1]][e[2]] = f}) = 1
    BY DEF FrameHasOneUse, Own
  <2>1. PICK R : Uses(mem, R, freePages, hand, stacks, lost)
    BY DEF IInv, FramesInv
  <2>2. Claims(f) = IF R[f] \in 2..4 THEN 0 ELSE 1
    BY <2>1, ClaimsAre
  <2>3. Cardinality({e \in UpperTables \X Idx : mem[e[1]][e[2]] = f}) = IF R[f] \in 2..4 THEN 1 ELSE 0
    BY <2>1, Namings DEF Uses, Once
  <2> QED
    BY <2>2, <2>3
<1> QED
  BY <1>1, MemoryInvariance, PTL
=============================================================================
