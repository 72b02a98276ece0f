--------------------------- MODULE TerminalProofs ---------------------------
(***************************************************************************)
(* Proofs about Terminal, for every size of the screen, every prompt and   *)
(* line that fit on it, and every text that a command prints: however it   *)
(* wraps and scrolls, the cursor stays as far behind the prompt as the     *)
(* line is long, and the screen shows the prompt and the line.             *)
(*                                                                         *)
(* Texts are of any length: what print returns is proved by induction over *)
(* the characters printed so far, as the least one that would be wrong.    *)
(***************************************************************************)
EXTENDS Terminal, SequenceTheorems, Arithmetic

Rows == 0..(rows - 1)
Cols == 0..(cols - 1)
Chars == Glyphs \cup {"newline"}

Display == [row : Rows, col : Cols, screen : [Rows -> [Cols -> Glyphs]], scrolled : Nat]

\* Nothing is on the screen behind the cursor.
BlankAfter(d) ==
    \A r \in Rows, c \in Cols :
        r > d.row \/ (r = d.row /\ c >= d.col) => d.screen[r][c] = Blank

\* The first n characters of text are where they were printed from cell o on.
Shows(d, o, text, n) ==
    \A i \in 1..n, r \in Rows, c \in Cols :
        (d.scrolled + r) * cols + c = o + i - 1 => d.screen[r][c] = text[i]

\* The first n characters of text have been printed from cell o on, which has
\* not left the screen.
Behind(d, o, n) == Position(d) = o + n /\ d.scrolled * cols <= o

-----------------------------------------------------------------------------
(* putc                                                                      *)

\* A display by its fields.
Fields(r, c, scr, s) == [row |-> r, col |-> c, screen |-> scr, scrolled |-> s]

\* Its fields are those it was made of.
LEMMA GetField ==
    ASSUME NEW r, NEW c, NEW scr, NEW s, NEW d, d = Fields(r, c, scr, s)
    PROVE  d.row = r /\ d.col = c /\ d.screen = scr /\ d.scrolled = s
  BY DEF Fields

\* The size of the screen.
LEMMA Size ==
    /\ rows \in Nat \ {0} /\ cols \in Nat \ {0} /\ CMD_BUF_SIZE \in Nat \ {0}
    /\ 0 \in Rows /\ 0 \in Cols /\ rows - 1 \in Rows /\ cols - 1 \in Cols
    /\ \A r \in Rows : r + 1 < rows => r + 1 \in Rows
    /\ \A r \in Rows : ~(r + 1 < rows) => r = rows - 1
    /\ \A c \in Cols : c + 1 < cols => c + 1 \in Cols
    /\ \A c \in Cols : ~(c + 1 < cols) => c = cols - 1
    /\ Rows \subseteq Nat /\ Cols \subseteq Nat
  BY TerminalAssumption DEF Rows, Cols

\* Scrolling moves each row up and blanks the last.
LEMMA ScrollIs ==
    ASSUME NEW scr \in [Rows -> [Cols -> Glyphs]], NEW t, t = scroll(scr)
    PROVE  /\ t \in [Rows -> [Cols -> Glyphs]]
           /\ \A r \in Rows, c \in Cols :
                 t[r][c] = IF r + 1 < rows THEN scr[r + 1][c] ELSE Blank
<1>1. Blank \in Glyphs
  BY TerminalAssumption
<1>2. BlankRow \in [Cols -> Glyphs] /\ \A c \in Cols : BlankRow[c] = Blank
  BY <1>1 DEF BlankRow, Cols
<1>3. t = [r \in Rows |-> IF r + 1 < rows THEN scr[r + 1] ELSE BlankRow]
  BY DEF scroll
<1> QED
  BY <1>2, <1>3, Size

\* One cell of the screen is drawn.
LEMMA DrawIs ==
    ASSUME NEW scr \in [Rows -> [Cols -> Glyphs]], NEW r \in Rows, NEW c \in Cols,
           NEW g \in Glyphs, NEW t, t = [scr EXCEPT ![r][c] = g]
    PROVE  /\ t \in [Rows -> [Cols -> Glyphs]]
           /\ \A q \in Rows, b \in Cols : t[q][b] = IF q = r /\ b = c THEN g ELSE scr[q][b]
<1>1. scr[r] \in [Cols -> Glyphs]
  OBVIOUS
<1>2. [scr[r] EXCEPT ![c] = g] \in [Cols -> Glyphs]
  BY <1>1
<1>3. t = [scr EXCEPT ![r] = [scr[r] EXCEPT ![c] = g]]
  OBVIOUS
<1> QED
  BY <1>1, <1>2, <1>3

\* A display is its fields.
LEMMA DisplayIs ==
    ASSUME NEW d \in Display
    PROVE  /\ d = Fields(d.row, d.col, d.screen, d.scrolled)
           /\ d.row \in Rows /\ d.col \in Cols /\ d.scrolled \in Nat
           /\ d.screen \in [Rows -> [Cols -> Glyphs]]
  BY DEF Display, Fields

\* And any fields of their types make one.
LEMMA FieldsDisplay ==
    ASSUME NEW r \in Rows, NEW c \in Cols, NEW scr \in [Rows -> [Cols -> Glyphs]], NEW s \in Nat
    PROVE  Fields(r, c, scr, s) \in Display
  BY DEF Display, Fields

\* A cursor past the last column goes to the next row.
LEMMA WrapIs ==
    ASSUME NEW r, NEW c \in 0..cols, NEW scr, NEW s
    PROVE  /\ c < cols => Wrapped(Fields(r, c, scr, s)) = Fields(r, c, scr, s)
           /\ c = cols => Wrapped(Fields(r, c, scr, s)) = Fields(r + 1, 0, scr, s)
<1> DEFINE d == Fields(r, c, scr, s)
           y == r + 1
           e == [d EXCEPT !.col = 0]
<1>1. d.col = c /\ d.row = r
  BY GetField
<1> HIDE DEF y
<1>2. e = Fields(r, 0, scr, s)
  BY DEF Fields
<1>3. [e EXCEPT !.row = y] = Fields(y, 0, scr, s)
  <2> HIDE DEF e
  <2> QED
    BY <1>2 DEF Fields
<1> HIDE DEF d
<1>4. [d EXCEPT !.col = 0, !.row = @ + 1] = [e EXCEPT !.row = y]
  BY <1>1 DEF y
<1>5. Wrapped(d) = IF d.col >= cols THEN [d EXCEPT !.col = 0, !.row = @ + 1] ELSE d
  BY DEF Wrapped
<1>6. c < cols => Wrapped(d) = d
  BY <1>1, <1>5, Size
<1>7. c = cols => Wrapped(d) = Fields(r + 1, 0, scr, s)
  BY <1>1, <1>3, <1>4, <1>5, Size DEF y
<1> QED
  BY <1>6, <1>7 DEF d

\* A cursor on the screen stays, one below it scrolls.
LEMMA ScrolledIs ==
    ASSUME NEW r \in 0..rows, NEW c, NEW scr, NEW s
    PROVE  /\ r < rows => Scrolled(Fields(r, c, scr, s)) = Fields(r, c, scr, s)
           /\ r = rows => Scrolled(Fields(r, c, scr, s)) = Fields(rows - 1, c, scroll(scr), s + 1)
<1> DEFINE d == Fields(r, c, scr, s)
           x == rows - 1
           y == scroll(scr)
           z == s + 1
           e == [d EXCEPT !.row = x]
           f == [e EXCEPT !.screen = y]
           g == [f EXCEPT !.scrolled = z]
<1>1. d.row = r /\ d.screen = scr /\ d.scrolled = s
  BY GetField
<1> HIDE DEF x, y, z
<1>2. e = Fields(x, c, scr, s)
  BY DEF Fields
<1>3. f = Fields(x, c, y, s)
  <2> HIDE DEF e
  <2> QED
    BY <1>2 DEF Fields
<1>4. g = Fields(x, c, y, z)
  <2> HIDE DEF f
  <2> QED
    BY <1>3 DEF Fields
<1> HIDE DEF d
<1>5. [d EXCEPT !.row = x, !.screen = y, !.scrolled = z] = g
  OBVIOUS
<1>6. Scrolled(d) = IF d.row < rows THEN d
                    ELSE [d EXCEPT !.row = x, !.screen = y, !.scrolled = z]
  BY <1>1 DEF Scrolled, x, y, z
<1>7. r < rows => Scrolled(d) = d
  BY <1>1, <1>6
<1>8. r = rows => Scrolled(d) = Fields(x, c, y, z)
  <2>1. r = rows => ~(d.row < rows)
    BY <1>1, Size
  <2> QED
    BY <1>4, <1>5, <1>6, <2>1
<1> QED
  BY <1>7, <1>8 DEF d, x, y, z

\* The fields after a glyph and after a line end, before wrapping.
LEMMA DrawnIs ==
    ASSUME NEW d \in Display, NEW g
    PROVE  Drawn(d, g) = Fields(d.row, d.col + 1, [d.screen EXCEPT ![d.row][d.col] = g], d.scrolled)
<1> DEFINE t == [d.screen EXCEPT ![d.row][d.col] = g]
           y == d.col + 1
           e == [d EXCEPT !.screen = t]
           f == [e EXCEPT !.col = y]
<1>1. f = Drawn(d, g)
  BY DEF Drawn
<1> HIDE DEF t, y
<1>2. e = Fields(d.row, d.col, t, d.scrolled)
  BY DisplayIs DEF Fields
<1>3. f = Fields(d.row, y, t, d.scrolled)
  <2> HIDE DEF e
  <2> QED
    BY <1>2 DEF Fields
<1> QED
  BY <1>1, <1>3 DEF t, y

\* A line end before it wraps or scrolls.
LEMMA NewLineIs ==
    ASSUME NEW d \in Display
    PROVE  NewLine(d) = Fields(d.row + 1, 0, d.screen, d.scrolled)
<1> DEFINE y == d.row + 1
           e == [d EXCEPT !.col = 0]
           f == [e EXCEPT !.row = y]
<1>1. f = NewLine(d)
  BY DEF NewLine
<1> HIDE DEF y
<1>2. e = Fields(d.row, 0, d.screen, d.scrolled)
  BY DisplayIs DEF Fields
<1>3. f = Fields(y, 0, d.screen, d.scrolled)
  <2> HIDE DEF e
  <2> QED
    BY <1>2 DEF Fields
<1> QED
  BY <1>1, <1>3 DEF y

\* What putc does with a glyph: it is drawn at the cursor, which moves on by one
\* cell, and if that is off the screen everything moves up by a row.
LEMMA PutGlyph ==
    ASSUME NEW d \in Display, NEW g \in Glyphs, NEW e, e = putc(d, g)
    PROVE  /\ e \in Display
           /\ \/ /\ d.col + 1 < cols /\ e.row = d.row /\ e.col = d.col + 1
                 /\ e.scrolled = d.scrolled
                 /\ \A r \in Rows, c \in Cols :
                       e.screen[r][c] = IF r = d.row /\ c = d.col THEN g ELSE d.screen[r][c]
              \/ /\ d.col + 1 = cols /\ d.row + 1 < rows /\ e.row = d.row + 1 /\ e.col = 0
                 /\ e.scrolled = d.scrolled
                 /\ \A r \in Rows, c \in Cols :
                       e.screen[r][c] = IF r = d.row /\ c = d.col THEN g ELSE d.screen[r][c]
              \/ /\ d.col + 1 = cols /\ d.row + 1 = rows /\ e.row = d.row /\ e.col = 0
                 /\ e.scrolled = d.scrolled + 1
                 /\ \A r \in Rows, c \in Cols :
                       e.screen[r][c] = IF r + 1 < rows
                                        THEN IF r + 1 = d.row /\ c = d.col THEN g
                                             ELSE d.screen[r + 1][c]
                                        ELSE Blank
<1> DEFINE t == [d.screen EXCEPT ![d.row][d.col] = g]
           s == d.scrolled
           y == d.col + 1
           w == Wrapped(Drawn(d, g))
<1>1. /\ d.row \in Rows /\ d.col \in Cols /\ s \in Nat
      /\ d.screen \in [Rows -> [Cols -> Glyphs]]
  BY DisplayIs
<1>2. /\ t \in [Rows -> [Cols -> Glyphs]]
      /\ \A r \in Rows, c \in Cols :
            t[r][c] = IF r = d.row /\ c = d.col THEN g ELSE d.screen[r][c]
  BY <1>1, DrawIs
<1>3. Drawn(d, g) = Fields(d.row, y, t, s)
  BY DrawnIs
<1>4. e = Scrolled(w)
  BY TerminalAssumption DEF putc
<1>5. d.row \in Nat /\ d.row < rows /\ d.col \in Nat /\ y = d.col + 1 /\ y \in 0..cols
  BY <1>1, Size DEF Rows, Cols
<1> HIDE DEF t, s, y
<1>6. (y < cols => w = Fields(d.row, y, t, s)) /\ (y = cols => w = Fields(d.row + 1, 0, t, s))
  BY <1>3, <1>5, WrapIs
<1> HIDE DEF w
<1>7. CASE y < cols
  <2>1. d.row \in 0..rows
    BY <1>5, Size
  <2>2. e = Fields(d.row, y, t, s)
    BY <1>4, <1>5, <1>6, <1>7, <2>1, ScrolledIs
  <2>3. e.row = d.row /\ e.col = y /\ e.screen = t /\ e.scrolled = s
    BY <2>2, GetField
  <2>4. y \in Cols
    BY <1>5, <1>7, Size DEF Cols
  <2>5. e \in Display
    <3>1. d.row \in Rows /\ y \in Cols /\ s \in Nat /\ t \in [Rows -> [Cols -> Glyphs]]
      BY <1>1, <1>2, <2>4
    <3> QED
      BY <2>2, <3>1, FieldsDisplay
  <2> QED
    BY <1>2, <1>5, <1>7, <2>3, <2>5 DEF s
<1>8. CASE y = cols /\ d.row + 1 < rows
  <2>1. d.row + 1 \in 0..rows /\ d.row + 1 \in Rows
    BY <1>5, <1>8, Size DEF Rows
  <2>2. e = Fields(d.row + 1, 0, t, s)
    BY <1>4, <1>6, <1>8, <2>1, ScrolledIs
  <2>3. e.row = d.row + 1 /\ e.col = 0 /\ e.screen = t /\ e.scrolled = s
    BY <2>2, GetField
  <2>4. e \in Display
    BY <1>1, <1>2, <2>1, <2>2, Size, FieldsDisplay
  <2> QED
    BY <1>2, <1>5, <1>8, <2>3, <2>4 DEF s
<1>9. CASE y = cols /\ d.row + 1 = rows
  <2>1. d.row + 1 \in 0..rows /\ rows - 1 = d.row
    BY <1>5, <1>9, Size
  <2>2. e = Fields(rows - 1, 0, scroll(t), s + 1)
    BY <1>4, <1>6, <1>9, <2>1, ScrolledIs
  <2>3. e.row = rows - 1 /\ e.col = 0 /\ e.screen = scroll(t) /\ e.scrolled = s + 1
    BY <2>2, GetField
  <2>4. /\ scroll(t) \in [Rows -> [Cols -> Glyphs]]
        /\ \A r \in Rows, c \in Cols :
              scroll(t)[r][c] = IF r + 1 < rows THEN t[r + 1][c] ELSE Blank
    BY <1>2, ScrollIs
  <2>5. e \in Display
    <3>1. rows - 1 \in Rows /\ 0 \in Cols /\ s + 1 \in Nat
      BY <1>1, Size
    <3>2. scroll(t) \in [Rows -> [Cols -> Glyphs]]
      BY <2>4
    <3> QED
      BY <2>2, <3>1, <3>2, FieldsDisplay
  <2>6. ASSUME NEW r \in Rows, NEW c \in Cols
        PROVE  e.screen[r][c] = IF r + 1 < rows
                                THEN IF r + 1 = d.row /\ c = d.col THEN g ELSE d.screen[r + 1][c]
                                ELSE Blank
    <3>1. r + 1 < rows => r + 1 \in Rows
      BY Size
    <3> QED
      BY <1>2, <2>3, <2>4, <3>1
  <2> QED
    BY <1>5, <1>9, <2>1, <2>3, <2>5, <2>6 DEF s
<1>10. (y < cols \/ y = cols) /\ (d.row + 1 < rows \/ d.row + 1 = rows)
  BY <1>5, Size
<1> QED
  BY <1>7, <1>8, <1>9, <1>10

\* What putc does with a line end.
LEMMA PutNewLine ==
    ASSUME NEW d \in Display, NEW e, e = putc(d, "newline")
    PROVE  /\ e \in Display /\ e.col = 0
           /\ \/ /\ d.row + 1 < rows /\ e.row = d.row + 1
                 /\ e.scrolled = d.scrolled /\ e.screen = d.screen
              \/ /\ d.row + 1 = rows /\ e.row = d.row
                 /\ e.scrolled = d.scrolled + 1
                 /\ \A r \in Rows, c \in Cols :
                       e.screen[r][c] = IF r + 1 < rows THEN d.screen[r + 1][c] ELSE Blank
<1>1. /\ d.row \in Rows /\ d.col \in Cols /\ d.scrolled \in Nat
      /\ d.screen \in [Rows -> [Cols -> Glyphs]]
  BY DisplayIs
<1>2. d.row \in Nat /\ d.row + 1 \in 0..rows /\ 0 < cols /\ 0 \in 0..cols
  BY <1>1, Size DEF Rows
<1>3. Wrapped(NewLine(d)) = Fields(d.row + 1, 0, d.screen, d.scrolled)
  BY <1>2, NewLineIs, WrapIs
<1>4. e = Scrolled(Fields(d.row + 1, 0, d.screen, d.scrolled))
  BY <1>3 DEF putc
<1>5. CASE d.row + 1 < rows
  <2>1. e = Fields(d.row + 1, 0, d.screen, d.scrolled)
    BY <1>2, <1>4, <1>5, ScrolledIs
  <2>2. d.row + 1 \in Rows
    BY <1>1, <1>5, Size
  <2>3. e \in Display
    <3>1. 0 \in Cols
      BY Size
    <3> QED
      BY <1>1, <2>1, <2>2, <3>1, FieldsDisplay
  <2> QED
    BY <1>5, <2>1, <2>3, GetField
<1>6. CASE d.row + 1 = rows
  <2>1. e = Fields(rows - 1, 0, scroll(d.screen), d.scrolled + 1)
    BY <1>2, <1>4, <1>6, ScrolledIs
  <2>2. /\ scroll(d.screen) \in [Rows -> [Cols -> Glyphs]]
        /\ \A r \in Rows, c \in Cols :
              scroll(d.screen)[r][c] = IF r + 1 < rows THEN d.screen[r + 1][c] ELSE Blank
    BY <1>1, ScrollIs
  <2>3. e \in Display
    <3>1. rows - 1 \in Rows /\ 0 \in Cols /\ d.scrolled + 1 \in Nat
      BY <1>1, Size
    <3>2. scroll(d.screen) \in [Rows -> [Cols -> Glyphs]]
      BY <2>2
    <3> QED
      BY <2>1, <3>1, <3>2, FieldsDisplay
  <2>4. /\ e.row = rows - 1 /\ e.col = 0 /\ e.screen = scroll(d.screen)
        /\ e.scrolled = d.scrolled + 1
    BY <2>1, GetField
  <2>5. rows - 1 = d.row
    BY <1>2, <1>6
  <2> QED
    BY <1>6, <2>2, <2>3, <2>4, <2>5
<1> QED
  BY <1>2, <1>5, <1>6, Size

\* What backspace does behind a glyph: the cell before the cursor is erased.
LEMMA BackspaceIs ==
    ASSUME NEW d \in Display, d.col > 0 \/ d.row > 0, NEW e, e = backspace(d)
    PROVE  /\ e \in Display /\ e.scrolled = d.scrolled
           /\ IF d.col > 0 THEN e.row = d.row /\ e.col = d.col - 1
              ELSE e.row = d.row - 1 /\ e.col = cols - 1
           /\ \A r \in Rows, c \in Cols :
                 e.screen[r][c] = IF r = e.row /\ c = e.col THEN Blank ELSE d.screen[r][c]
<1>1. /\ d = Fields(d.row, d.col, d.screen, d.scrolled)
      /\ d.row \in Rows /\ d.col \in Cols /\ d.scrolled \in Nat
      /\ d.screen \in [Rows -> [Cols -> Glyphs]]
  BY DisplayIs
<1>2. Blank \in Glyphs
  BY TerminalAssumption
<1>3. CASE d.col > 0
  <2> DEFINE x == d.col - 1
             t == [d.screen EXCEPT ![d.row][x] = Blank]
             a == [d EXCEPT !.col = x]
             b == [a EXCEPT !.screen = t]
  <2>1. e = [d EXCEPT !.col = x, !.screen[d.row][x] = Blank]
    BY <1>3 DEF backspace
  <2>2. e = b
    BY <2>1
  <2>3. x \in Cols
    BY <1>1, <1>3, Size DEF Cols
  <2>4. x = d.col - 1
    OBVIOUS
  <2>5. /\ t \in [Rows -> [Cols -> Glyphs]]
        /\ \A r \in Rows, c \in Cols :
              t[r][c] = IF r = d.row /\ c = x THEN Blank ELSE d.screen[r][c]
    BY <1>1, <1>2, <2>3, DrawIs
  <2> HIDE DEF x, t
  <2>6. a = Fields(d.row, x, d.screen, d.scrolled)
    BY <1>1 DEF Fields
  <2> HIDE DEF a
  <2>7. b = Fields(d.row, x, t, d.scrolled)
    BY <2>6 DEF Fields
  <2>8. e \in Display
    BY <1>1, <2>2, <2>3, <2>5, <2>7, FieldsDisplay
  <2>9. e.row = d.row /\ e.col = x /\ e.screen = t /\ e.scrolled = d.scrolled
    <3>1. e = Fields(d.row, x, t, d.scrolled)
      BY <2>2, <2>7
    <3> QED
      BY <3>1, GetField
  <2> QED
    BY <1>3, <2>4, <2>5, <2>8, <2>9
<1>4. CASE ~(d.col > 0)
  <2> DEFINE x == cols - 1
             y == d.row - 1
             t == [d.screen EXCEPT ![y][x] = Blank]
             a == [d EXCEPT !.col = x]
             b == [a EXCEPT !.row = y]
             z == [b EXCEPT !.screen = t]
  <2>1. e = [d EXCEPT !.col = x, !.row = @ - 1, !.screen[y][x] = Blank]
    BY <1>4 DEF backspace
  <2>2. e = z
    BY <2>1
  <2>3. x \in Cols /\ y \in Rows
    BY <1>1, <1>4, Size DEF Rows
  <2>4. x = cols - 1 /\ y = d.row - 1
    OBVIOUS
  <2>5. /\ t \in [Rows -> [Cols -> Glyphs]]
        /\ \A r \in Rows, c \in Cols :
              t[r][c] = IF r = y /\ c = x THEN Blank ELSE d.screen[r][c]
    BY <1>1, <1>2, <2>3, DrawIs
  <2> HIDE DEF x, y, t
  <2>6. a = Fields(d.row, x, d.screen, d.scrolled)
    BY <1>1 DEF Fields
  <2> HIDE DEF a
  <2>7. b = Fields(y, x, d.screen, d.scrolled)
    BY <2>6 DEF Fields
  <2> HIDE DEF b
  <2>8. z = Fields(y, x, t, d.scrolled)
    BY <2>7 DEF Fields
  <2>9. e \in Display
    BY <1>1, <2>2, <2>3, <2>5, <2>8, FieldsDisplay
  <2>10. e.row = y /\ e.col = x /\ e.screen = t /\ e.scrolled = d.scrolled
    <3>1. e = Fields(y, x, t, d.scrolled)
      BY <2>2, <2>8
    <3> QED
      BY <3>1, GetField
  <2> QED
    BY <1>4, <2>4, <2>5, <2>9, <2>10
<1> QED
  BY <1>3, <1>4

-----------------------------------------------------------------------------
(* The cursor and the prompt                                                 *)

\* The numbers of a cursor: those of its cell and of the cells around it.
LEMMA Cursor ==
    ASSUME NEW d \in Display
    PROVE  /\ d.row \in Nat /\ d.row < rows /\ d.col \in Nat /\ d.col < cols
           /\ d.scrolled \in Nat /\ d.scrolled * cols \in Nat
           /\ (d.scrolled + d.row) * cols \in Nat
           /\ Position(d) = (d.scrolled + d.row) * cols + d.col /\ Position(d) \in Nat
<1>1. d.row \in Nat /\ d.row < rows /\ d.col \in Nat /\ d.col < cols /\ d.scrolled \in Nat
  BY DisplayIs, Size DEF Rows, Cols
<1>2. cols \in Nat
  BY Size
<1>3. d.scrolled * cols \in Nat /\ (d.scrolled + d.row) * cols \in Nat
  BY <1>1, <1>2
<1>4. Position(d) = (d.scrolled + d.row) * cols + d.col
  BY DEF Position
<1> QED
  BY <1>1, <1>3, <1>4

\* A glyph moves the cursor one cell on; if that scrolls, the cell o at the
\* start of a row is still on the screen, because not all cells have been used.
LEMMA GlyphBehind ==
    ASSUME NEW d \in Display, NEW g \in Glyphs, NEW e, e = putc(d, g),
           NEW k \in Nat, NEW o, o = k * cols, NEW n \in Nat, n + 1 < rows * cols,
           Behind(d, o, n)
    PROVE  Behind(e, o, n + 1)
<1> DEFINE s == d.scrolled
           r == d.row
           c == d.col
<1>1. /\ r \in Nat /\ r < rows /\ c \in Nat /\ c < cols /\ s \in Nat /\ s * cols \in Nat
      /\ (s + r) * cols \in Nat /\ Position(d) = (s + r) * cols + c
  BY Cursor
<1>2. (s + r) * cols + c = o + n /\ s * cols <= o
  BY <1>1 DEF Behind
<1>3. cols \in Nat \ {0} /\ rows \in Nat \ {0} /\ o \in Nat
  BY Size
<1>4. Position(e) = (e.scrolled + e.row) * cols + e.col
  BY DEF Position
<1>5. (s + r + 1) * cols = (s + r) * cols + cols
  <2>1. s + r \in Nat
    BY <1>1
  <2> QED
    BY <1>3, <2>1, NextRow
<1>6. CASE c + 1 < cols /\ e.row = r /\ e.col = c + 1 /\ e.scrolled = s
  <2>1. Position(e) = o + n + 1
    BY <1>1, <1>2, <1>3, <1>4, <1>6
  <2> QED
    BY <1>2, <1>3, <1>6, <2>1 DEF Behind
<1>7. CASE c + 1 = cols /\ e.row = r + 1 /\ e.col = 0 /\ e.scrolled = s
  <2>1. s + (r + 1) = s + r + 1
    BY <1>1
  <2>2. Position(e) = (s + r + 1) * cols
    BY <1>1, <1>3, <1>4, <1>7, <2>1
  <2>3. Position(e) = o + n + 1
    BY <1>1, <1>2, <1>3, <1>5, <1>7, <2>2
  <2> QED
    BY <1>2, <1>3, <1>7, <2>3 DEF Behind
<1>8. CASE c + 1 = cols /\ r + 1 = rows /\ e.row = r /\ e.col = 0 /\ e.scrolled = s + 1
  <2>1. s + 1 + r = s + r + 1
    BY <1>1
  <2>2. Position(e) = (s + r + 1) * cols
    BY <1>1, <1>3, <1>4, <1>8, <2>1
  <2>3. Position(e) = o + n + 1
    BY <1>1, <1>2, <1>3, <1>5, <1>8, <2>2
  <2>4. s + r + 1 = s + rows
    BY <1>1, <1>8
  <2>5. (s + rows) * cols = s * cols + rows * cols
    BY <1>1, <1>3
  <2>6. s * cols + rows * cols = k * cols + n + 1
    BY <2>2, <2>3, <2>4, <2>5
  <2>7. rows * cols \in Nat /\ k * cols \in Nat
    BY <1>3
  <2>8. s * cols < k * cols
    BY <1>1, <2>6, <2>7
  <2>9. s < k
    BY <1>1, <1>3, <2>8, Cancel
  <2>10. s * cols + cols <= k * cols
    BY <1>1, <1>3, <2>9, LaterRow
  <2>11. (s + 1) * cols = s * cols + cols
    BY <1>1, <1>3, NextRow
  <2>12. e.scrolled * cols <= o
    BY <1>8, <2>10, <2>11
  <2> QED
    BY <1>3, <2>3, <2>12 DEF Behind
<1>9. \/ c + 1 < cols /\ e.row = r /\ e.col = c + 1 /\ e.scrolled = s
      \/ c + 1 = cols /\ e.row = r + 1 /\ e.col = 0 /\ e.scrolled = s
      \/ c + 1 = cols /\ r + 1 = rows /\ e.row = r /\ e.col = 0 /\ e.scrolled = s + 1
  BY PutGlyph
<1> QED
  BY <1>6, <1>7, <1>8, <1>9

\* And backspace one cell back, which is there.
LEMMA BackBehind ==
    ASSUME NEW d \in Display, NEW e, e = backspace(d),
           NEW o \in Nat, NEW n \in Nat \ {0}, Behind(d, o, n)
    PROVE  (d.col > 0 \/ d.row > 0) /\ Behind(e, o, n - 1)
<1> DEFINE s == d.scrolled
           r == d.row
           c == d.col
<1>1. /\ r \in Nat /\ r < rows /\ c \in Nat /\ c < cols /\ s \in Nat /\ s * cols \in Nat
      /\ (s + r) * cols \in Nat /\ Position(d) = (s + r) * cols + c
  BY Cursor
<1>2. (s + r) * cols + c = o + n /\ s * cols <= o
  BY <1>1 DEF Behind
<1>3. cols \in Nat \ {0}
  BY Size
<1>4. c > 0 \/ r > 0
  <2> SUFFICES ASSUME c = 0, r = 0 PROVE FALSE
    BY <1>1
  <2>1. s + r = s
    BY <1>1
  <2> QED
    BY <1>1, <1>2, <2>1
<1>5. /\ e.scrolled = s
      /\ IF c > 0 THEN e.row = r /\ e.col = c - 1 ELSE e.row = r - 1 /\ e.col = cols - 1
  BY <1>4, BackspaceIs
<1>6. Position(e) = (e.scrolled + e.row) * cols + e.col
  BY DEF Position
<1>7. CASE c > 0
  <2>1. Position(e) = o + (n - 1)
    BY <1>1, <1>2, <1>5, <1>6, <1>7
  <2> QED
    BY <1>2, <1>4, <1>5, <2>1 DEF Behind
<1>8. CASE ~(c > 0)
  <2>1. c = 0 /\ r > 0 /\ s + r - 1 \in Nat /\ s + (r - 1) = s + r - 1 /\ (s + r - 1) + 1 = s + r
    BY <1>1, <1>4, <1>8
  <2>2. (s + r) * cols = (s + r - 1) * cols + cols
    BY <1>3, <2>1, NextRow
  <2>3. (s + r - 1) * cols \in Nat
    BY <1>3, <2>1, NextRow
  <2>4. Position(e) = (s + r - 1) * cols + (cols - 1)
    BY <1>5, <1>6, <1>8, <2>1
  <2>5. Position(e) = o + (n - 1)
    BY <1>2, <1>3, <2>1, <2>2, <2>3, <2>4
  <2> QED
    BY <1>2, <1>4, <1>5, <2>5 DEF Behind
<1> QED
  BY <1>7, <1>8

\* The cells after a glyph, by the row they came from: the glyph is in the one at
\* the cursor, and one that came from below the screen is blank.
LEMMA GlyphCells ==
    ASSUME NEW d \in Display, NEW g \in Glyphs, NEW e, e = putc(d, g),
           NEW r \in Rows, NEW c \in Cols
    PROVE  \E q \in 0..rows :
              /\ d.scrolled + q = e.scrolled + r
              /\ e.screen[r][c] = IF q = d.row /\ c = d.col THEN g
                                  ELSE IF q < rows THEN d.screen[q][c] ELSE Blank
<1>1. r \in Nat /\ r < rows /\ r \in 0..rows /\ r + 1 \in 0..rows /\ rows \in Nat
  BY Size DEF Rows
<1>2. d.row \in Nat /\ d.row < rows /\ d.scrolled \in Nat
  BY Cursor
<1>3. CASE /\ e.scrolled = d.scrolled
           /\ e.screen[r][c] = IF r = d.row /\ c = d.col THEN g ELSE d.screen[r][c]
  BY <1>1, <1>3
<1>4. CASE /\ e.scrolled = d.scrolled + 1
           /\ e.screen[r][c] = IF r + 1 < rows
                               THEN IF r + 1 = d.row /\ c = d.col THEN g ELSE d.screen[r + 1][c]
                               ELSE Blank
  <2>1. d.scrolled + (r + 1) = e.scrolled + r
    BY <1>1, <1>2, <1>4
  <2>2. r + 1 = d.row => r + 1 < rows
    BY <1>2
  <2> QED
    BY <1>1, <1>4, <2>1, <2>2
<1> QED
  BY <1>3, <1>4, PutGlyph

\* A glyph leaves the cells behind the cursor blank.
LEMMA GlyphBlank ==
    ASSUME NEW d \in Display, NEW g \in Glyphs, NEW e, e = putc(d, g), BlankAfter(d)
    PROVE  BlankAfter(e)
<1> SUFFICES ASSUME NEW r \in Rows, NEW c \in Cols, r > e.row \/ (r = e.row /\ c >= e.col)
             PROVE  e.screen[r][c] = Blank
  BY DEF BlankAfter
<1>1. r \in Nat /\ r < rows /\ c \in Nat /\ rows \in Nat
  BY Size DEF Rows
<1>2. d.row \in Nat /\ d.row < rows /\ d.col \in Nat
  BY Cursor
<1>3. r > d.row \/ (r = d.row /\ c >= d.col) => d.screen[r][c] = Blank
  BY DEF BlankAfter
<1>4. CASE /\ e.row = d.row /\ e.col = d.col + 1
           /\ e.screen[r][c] = IF r = d.row /\ c = d.col THEN g ELSE d.screen[r][c]
  BY <1>1, <1>2, <1>3, <1>4
<1>5. CASE /\ e.row = d.row + 1 /\ e.col = 0
           /\ e.screen[r][c] = IF r = d.row /\ c = d.col THEN g ELSE d.screen[r][c]
  BY <1>1, <1>2, <1>3, <1>5
<1>6. CASE /\ d.row + 1 = rows /\ e.row = d.row
           /\ e.screen[r][c] = IF r + 1 < rows
                               THEN IF r + 1 = d.row /\ c = d.col THEN g ELSE d.screen[r + 1][c]
                               ELSE Blank
  <2>1. ~(r + 1 < rows)
    BY <1>1, <1>2, <1>6
  <2> QED
    BY <1>6, <2>1
<1> QED
  BY <1>4, <1>5, <1>6, PutGlyph

\* So does a line end.
LEMMA NewLineBlank ==
    ASSUME NEW d \in Display, NEW e, e = putc(d, "newline"), BlankAfter(d)
    PROVE  BlankAfter(e)
<1> SUFFICES ASSUME NEW r \in Rows, NEW c \in Cols, r > e.row \/ (r = e.row /\ c >= e.col)
             PROVE  e.screen[r][c] = Blank
  BY DEF BlankAfter
<1>1. r \in Nat /\ r < rows /\ c \in Nat /\ rows \in Nat
  BY Size DEF Rows
<1>2. d.row \in Nat /\ d.row < rows /\ d.col \in Nat
  BY Cursor
<1>3. r > d.row => d.screen[r][c] = Blank
  BY DEF BlankAfter
<1>4. CASE e.row = d.row + 1 /\ e.screen = d.screen
  BY <1>1, <1>2, <1>3, <1>4
<1>5. CASE /\ d.row + 1 = rows /\ e.row = d.row
           /\ e.screen[r][c] = IF r + 1 < rows THEN d.screen[r + 1][c] ELSE Blank
  <2>1. ~(r + 1 < rows)
    BY <1>1, <1>2, <1>5
  <2> QED
    BY <1>5, <2>1
<1> QED
  BY <1>4, <1>5, PutNewLine

\* So does a backspace, which blanks the cell at the cursor.
LEMMA BackspaceBlank ==
    ASSUME NEW d \in Display, d.col > 0 \/ d.row > 0, NEW e, e = backspace(d), BlankAfter(d)
    PROVE  BlankAfter(e)
<1> SUFFICES ASSUME NEW r \in Rows, NEW c \in Cols, r > e.row \/ (r = e.row /\ c >= e.col)
             PROVE  e.screen[r][c] = Blank
  BY DEF BlankAfter
<1>1. r \in Nat /\ r < rows /\ c \in Nat /\ c < cols /\ rows \in Nat /\ cols \in Nat
  BY Size DEF Rows, Cols
<1>2. d.row \in Nat /\ d.row < rows /\ d.col \in Nat /\ d.col < cols
  BY Cursor
<1>3. r > d.row \/ (r = d.row /\ c >= d.col) => d.screen[r][c] = Blank
  BY DEF BlankAfter
<1>4. e.screen[r][c] = IF r = e.row /\ c = e.col THEN Blank ELSE d.screen[r][c]
  BY BackspaceIs
<1>5. IF d.col > 0 THEN e.row = d.row /\ e.col = d.col - 1
      ELSE e.row = d.row - 1 /\ e.col = cols - 1
  BY BackspaceIs
<1>6. CASE d.col > 0
  BY <1>1, <1>2, <1>3, <1>4, <1>5, <1>6
<1>7. CASE ~(d.col > 0)
  BY <1>1, <1>2, <1>3, <1>4, <1>5, <1>7
<1> QED
  BY <1>6, <1>7

\* The number of a cell determines its row and column.
LEMMA SameCell ==
    ASSUME NEW s \in Nat, NEW q \in Nat, NEW c \in Cols, NEW p \in Nat, NEW b \in Cols,
           (s + q) * cols + c = (s + p) * cols + b
    PROVE  q = p /\ c = b
<1>1. cols \in Nat \ {0} /\ c \in 0..(cols - 1) /\ b \in 0..(cols - 1)
  BY Size DEF Cols
<1>2. s + q \in Nat /\ s + p \in Nat
  OBVIOUS
<1>3. s + q = s + p /\ c = b
  BY <1>1, <1>2, CellUnique
<1> QED
  BY <1>3

\* A glyph is shown behind what was printed before it.
LEMMA GlyphShows ==
    ASSUME NEW d \in Display, NEW g \in Glyphs, NEW e, e = putc(d, g),
           NEW o \in Nat, NEW n \in Nat, NEW text, NEW more, Behind(d, o, n),
           Shows(d, o, text, n), \A i \in 1..n : more[i] = text[i], more[n + 1] = g
    PROVE  Shows(e, o, more, n + 1)
<1> SUFFICES ASSUME NEW i \in 1..(n + 1), NEW r \in Rows, NEW c \in Cols,
                    (e.scrolled + r) * cols + c = o + i - 1
             PROVE  e.screen[r][c] = more[i]
  BY DEF Shows
<1>1. /\ d.row \in Nat /\ d.row < rows /\ d.col \in Cols /\ d.scrolled \in Nat
      /\ (d.scrolled + d.row) * cols \in Nat
  BY Cursor, DisplayIs
<1>2. (d.scrolled + d.row) * cols + d.col = o + n
  BY DEF Behind, Position
<1>3. PICK q \in 0..rows :
         /\ d.scrolled + q = e.scrolled + r
         /\ e.screen[r][c] = IF q = d.row /\ c = d.col THEN g
                             ELSE IF q < rows THEN d.screen[q][c] ELSE Blank
  BY GlyphCells
<1>4. (d.scrolled + q) * cols + c = o + i - 1
  BY <1>3
<1>5. q \in Nat /\ cols \in Nat \ {0} /\ rows \in Nat /\ c \in Nat /\ d.col \in Nat /\ d.col < cols
  BY <1>1, Size DEF Cols
<1>6. CASE q = d.row /\ c = d.col
  <2>1. i = n + 1
    BY <1>1, <1>2, <1>4, <1>5, <1>6
  <2> QED
    BY <1>3, <1>6, <2>1
<1>7. CASE ~(q = d.row /\ c = d.col)
  <2>1. i # n + 1
    <3> SUFFICES ASSUME i = n + 1 PROVE FALSE
      OBVIOUS
    <3>1. (d.scrolled + q) * cols + c = (d.scrolled + d.row) * cols + d.col
      BY <1>2, <1>4
    <3>2. d.scrolled \in Nat /\ q \in Nat /\ d.row \in Nat /\ d.col \in Cols
      BY <1>1, <1>5
    <3>3. q = d.row /\ c = d.col
      BY <3>1, <3>2, SameCell
    <3> QED
      BY <1>7, <3>3
  <2>2. i \in 1..n
    BY <2>1
  <2>3. CASE q < rows
    <3>1. q \in Rows
      BY <1>5, <2>3 DEF Rows
    <3>2. d.screen[q][c] = text[i]
      BY <1>4, <2>2, <3>1 DEF Shows
    <3> QED
      BY <1>3, <1>7, <2>2, <2>3, <3>2
  <2>4. CASE ~(q < rows)
    <3>1. d.scrolled + d.row \in Nat /\ d.scrolled + q \in Nat /\ d.scrolled + d.row < d.scrolled + q
      BY <1>1, <1>5, <2>4
    <3>2. (d.scrolled + d.row) * cols + cols <= (d.scrolled + q) * cols
      BY <1>5, <3>1, LaterRow
    <3>3. (d.scrolled + q) * cols \in Nat
      BY <1>5, <3>1
    <3> QED
      BY <1>1, <1>2, <1>4, <1>5, <2>2, <3>2, <3>3
  <2> QED
    BY <2>3, <2>4
<1> QED
  BY <1>6, <1>7

\* A backspace leaves the rest of what was printed.
LEMMA BackspaceShows ==
    ASSUME NEW d \in Display, NEW e, e = backspace(d),
           NEW o \in Nat, NEW n \in Nat \ {0}, NEW text, NEW less, Behind(d, o, n),
           Shows(d, o, text, n), \A i \in 1..(n - 1) : less[i] = text[i]
    PROVE  Shows(e, o, less, n - 1)
<1> SUFFICES ASSUME NEW i \in 1..(n - 1), NEW r \in Rows, NEW c \in Cols,
                    (e.scrolled + r) * cols + c = o + i - 1
             PROVE  e.screen[r][c] = less[i]
  BY DEF Shows
<1>1. (d.col > 0 \/ d.row > 0) /\ Behind(e, o, n - 1)
  BY BackBehind
<1>2. /\ e \in Display /\ e.scrolled = d.scrolled
      /\ e.screen[r][c] = IF r = e.row /\ c = e.col THEN Blank ELSE d.screen[r][c]
  BY <1>1, BackspaceIs
<1>3. (e.scrolled + e.row) * cols + e.col = o + (n - 1)
  BY <1>1 DEF Behind, Position
<1>4. ~(r = e.row /\ c = e.col)
  <2> SUFFICES ASSUME r = e.row, c = e.col PROVE FALSE
    OBVIOUS
  <2>1. o + i - 1 = o + (n - 1)
    BY <1>3
  <2> QED
    BY <2>1
<1>5. i \in 1..n
  OBVIOUS
<1>6. d.screen[r][c] = text[i]
  BY <1>2, <1>5 DEF Shows
<1> QED
  BY <1>2, <1>4, <1>6

-----------------------------------------------------------------------------
(* print                                                                     *)

\* The recursion of Printing is well-founded: some function satisfies it.
LEMMA PrintingIs ==
    ASSUME NEW d, NEW text, Len(text) \in Nat, NEW f, f = Printing(d, text)
    PROVE  /\ f[0] = d
           /\ \A i \in 1..Len(text) : f[i] = putc(f[i - 1], text[i])
<1> DEFINE n == Len(text)
           Def(m, g) == g = [i \in 0..m |-> IF i = 0 THEN d ELSE putc(g[i - 1], text[i])]
           S == {m \in 0..n : \E g : Def(m, g)}
<1>1. 0 \in S
  <2>1. Def(0, [i \in 0..0 |-> d])
    OBVIOUS
  <2>2. 0 \in 0..n
    OBVIOUS
  <2> HIDE DEF Def
  <2> QED
    BY <2>1, <2>2
<1>2. ASSUME NEW m \in 0..(n - 1), m \in S PROVE m + 1 \in S
  <2>1. PICK g : Def(m, g)
    BY <1>2
  <2> DEFINE x == putc(g[m], text[m + 1])
             h == [i \in 0..(m + 1) |-> IF i = m + 1 THEN x ELSE g[i]]
  <2>2. ASSUME NEW i \in 0..(m + 1)
        PROVE  h[i] = IF i = 0 THEN d ELSE putc(h[i - 1], text[i])
    <3>1. CASE i = 0
      <4>1. 0 \in 0..m /\ i # m + 1
        BY <3>1
      <4>2. g[0] = d
        BY <2>1, <4>1
      <4> QED
        BY <3>1, <4>1, <4>2
    <3>2. CASE i \in 1..m
      <4>1. i \in 0..m /\ i # 0 /\ i # m + 1 /\ i - 1 \in 0..(m + 1) /\ i - 1 # m + 1
        BY <3>2
      <4>2. g[i] = putc(g[i - 1], text[i])
        BY <2>1, <4>1
      <4>3. h[i] = g[i] /\ h[i - 1] = g[i - 1]
        BY <4>1
      <4> QED
        BY <4>1, <4>2, <4>3
    <3>3. CASE i = m + 1
      <4>1. i - 1 = m /\ m \in 0..(m + 1) /\ m # m + 1 /\ i # 0
        BY <3>3
      <4>2. h[m] = g[m] /\ h[i] = x
        BY <3>3, <4>1
      <4> QED
        BY <3>3, <4>1, <4>2
    <3>4. i = 0 \/ i \in 1..m \/ i = m + 1
      OBVIOUS
    <3> QED
      BY <3>1, <3>2, <3>3, <3>4
  <2>3. h = [i \in 0..(m + 1) |-> h[i]]
    OBVIOUS
  <2> HIDE DEF h
  <2>4. h = [i \in 0..(m + 1) |-> IF i = 0 THEN d ELSE putc(h[i - 1], text[i])]
    BY <2>2, <2>3
  <2>5. m + 1 \in 0..n
    OBVIOUS
  <2> QED
    BY <2>4, <2>5
<1>3. n \in 0..n
  OBVIOUS
<1>4. n \in S
  <2> HIDE DEF S
  <2> QED
    BY <1>1, <1>2, <1>3, UpTo
<1>5. f = CHOOSE g : Def(n, g)
  BY DEF Printing
<1>6. Def(n, f)
  BY <1>4, <1>5
<1> QED
  BY <1>6

\* A text leaves the cursor on the screen, and the cells behind it blank; one that
\* ends its line leaves the cursor at the start of a row.
LEMMA PrintKeeps ==
    ASSUME NEW d \in Display, NEW text \in Seq(Chars), NEW e, e = print(d, text)
    PROVE  /\ e \in Display
           /\ BlankAfter(d) => BlankAfter(e)
           /\ d.col = 0 /\ (text # << >> => Last(text) = "newline") => e.col = 0
<1> DEFINE n == Len(text)
           f == Printing(d, text)
           S == {i \in 0..n : f[i] \in Display /\ (BlankAfter(d) => BlankAfter(f[i]))}
<1>1. n \in Nat /\ \A i \in 1..n : text[i] \in Chars
  OBVIOUS
<1>2. f[0] = d /\ \A i \in 1..n : f[i] = putc(f[i - 1], text[i])
  BY <1>1, PrintingIs
<1>3. e = f[n]
  BY DEF print
<1> HIDE DEF f
<1>4. 0 \in S
  BY <1>1, <1>2
<1>5. ASSUME NEW i \in 0..(n - 1), i \in S PROVE i + 1 \in S
  <2> DEFINE a == f[i]
             b == f[i + 1]
             g == text[i + 1]
  <2>1. i + 1 \in 1..n /\ i + 1 \in 0..n /\ (i + 1) - 1 = i
    BY <1>1
  <2>2. a \in Display /\ (BlankAfter(d) => BlankAfter(a))
    BY <1>5
  <2>3. b = putc(a, g) /\ g \in Chars
    BY <1>1, <1>2, <2>1
  <2> HIDE DEF a, b, g
  <2>4. CASE g \in Glyphs
    <3>1. b \in Display
      BY <2>2, <2>3, <2>4, PutGlyph
    <3>2. BlankAfter(a) => BlankAfter(b)
      BY <2>2, <2>3, <2>4, GlyphBlank
    <3> QED
      BY <2>1, <2>2, <3>1, <3>2 DEF b
  <2>5. CASE g = "newline"
    <3>1. b \in Display
      BY <2>2, <2>3, <2>5, PutNewLine
    <3>2. BlankAfter(a) => BlankAfter(b)
      BY <2>2, <2>3, <2>5, NewLineBlank
    <3> QED
      BY <2>1, <2>2, <3>1, <3>2 DEF b
  <2> QED
    BY <2>3, <2>4, <2>5 DEF Chars
<1>6. \A i \in 0..n : i \in S
  <2> HIDE DEF S
  <2> QED
    BY <1>1, <1>4, <1>5, UpTo
<1>7. n \in 0..n
  BY <1>1
<1>8. ASSUME d.col = 0, text # << >> => Last(text) = "newline" PROVE e.col = 0
  <2>1. CASE n = 0
    BY <1>2, <1>3, <1>8, <2>1
  <2>2. CASE n # 0
    <3>1. n \in 1..n /\ n - 1 \in 0..n
      BY <1>1, <2>2
    <3>2. text # << >>
      BY <2>2
    <3>3. text[n] = "newline"
      BY <1>8, <3>2 DEF Last
    <3>4. e = putc(f[n - 1], "newline") /\ f[n - 1] \in Display
      BY <1>2, <1>3, <1>6, <3>1, <3>3
    <3> QED
      BY <3>4, PutNewLine
  <2> QED
    BY <2>1, <2>2
<1> QED
  BY <1>3, <1>6, <1>7, <1>8

\* Glyphs printed from the start of a row are all shown, if they fit.
LEMMA PrintGlyphs ==
    ASSUME NEW d \in Display, NEW text \in Seq(Glyphs), NEW e, e = print(d, text),
           NEW k \in Nat, NEW o, o = k * cols, Behind(d, o, 0), Len(text) < rows * cols
    PROVE  Behind(e, o, Len(text)) /\ Shows(e, o, text, Len(text))
<1> DEFINE n == Len(text)
           f == Printing(d, text)
           S == {i \in 0..n : /\ f[i] \in Display
                              /\ Behind(f[i], o, i) /\ Shows(f[i], o, text, i)}
<1>1. n \in Nat /\ \A i \in 1..n : text[i] \in Glyphs
  OBVIOUS
<1>2. f[0] = d /\ \A i \in 1..n : f[i] = putc(f[i - 1], text[i])
  BY <1>1, PrintingIs
<1>3. e = f[n]
  BY DEF print
<1>4. o \in Nat /\ rows * cols \in Nat
  BY Size
<1> HIDE DEF f
<1>5. 0 \in S
  <2>1. Shows(d, o, text, 0)
    BY DEF Shows
  <2> QED
    BY <1>1, <1>2, <2>1
<1>6. ASSUME NEW i \in 0..(n - 1), i \in S PROVE i + 1 \in S
  <2> DEFINE a == f[i]
             b == f[i + 1]
             g == text[i + 1]
  <2>1. i + 1 \in 1..n /\ i + 1 \in 0..n /\ (i + 1) - 1 = i /\ i \in Nat /\ i + 1 < rows * cols
    BY <1>1, <1>4
  <2>2. a \in Display /\ Behind(a, o, i) /\ Shows(a, o, text, i)
    BY <1>6
  <2>3. b = putc(a, g) /\ g \in Glyphs /\ text[i + 1] = g
    BY <1>1, <1>2, <2>1
  <2> HIDE DEF a, b, g
  <2>4. b \in Display
    BY <2>2, <2>3, PutGlyph
  <2>5. Behind(b, o, i + 1)
    BY <2>1, <2>2, <2>3, GlyphBehind
  <2>6. Shows(b, o, text, i + 1)
    BY <1>4, <2>1, <2>2, <2>3, GlyphShows
  <2> QED
    BY <2>1, <2>4, <2>5, <2>6 DEF b
<1>7. \A i \in 0..n : i \in S
  <2> HIDE DEF S
  <2> QED
    BY <1>1, <1>5, <1>6, UpTo
<1>8. n \in 0..n
  BY <1>1
<1> QED
  BY <1>3, <1>7, <1>8

-----------------------------------------------------------------------------
(* The shell                                                                 *)

\* What is on the screen from the prompt on.
Shown == PROMPT \o line

\* While the shell reads keys, the prompt is still on the screen, the cursor is
\* behind it by as much as has been printed, and unless a demo task drew, the
\* prompt and the line are there, and nothing behind them.
AtPrompt ==
    /\ Behind(shell, origin, Len(PROMPT) + Len(line))
    /\ ~overdrawn => /\ Shows(shell, origin, Shown, Len(PROMPT) + Len(line))
                     /\ BlankAfter(shell)

\* While a command sleeps, the next prompt will be at the start of a row.
AtRow ==
    /\ shell.col = 0
    /\ ~overdrawn => BlankAfter(shell)

\* The inductive invariant, in which prompts stand at the start of a row.
IInv ==
    /\ TypeOK
    /\ \E k \in Nat : origin = k * cols
    /\ asleep => AtRow
    /\ ~asleep => AtPrompt

\* The cleared screen.
LEMMA ClearedIs == Cleared \in Display /\ Cleared.col = 0 /\ BlankAfter(Cleared)
<1>1. Blank \in Glyphs
  BY TerminalAssumption
<1>2. BlankRow \in [Cols -> Glyphs] /\ \A c \in Cols : BlankRow[c] = Blank
  BY <1>1 DEF BlankRow, Cols
<1>3. /\ BlankScreen \in [Rows -> [Cols -> Glyphs]]
      /\ \A r \in Rows, c \in Cols : BlankScreen[r][c] = Blank
  BY <1>2 DEF BlankScreen, Rows
<1>4. Cleared = Fields(0, 0, BlankScreen, 0)
  BY DEF Cleared, Fields
<1>5. Cleared \in Display
  BY <1>3, <1>4, Size, FieldsDisplay
<1>6. Cleared.col = 0 /\ Cleared.screen = BlankScreen
  BY <1>4, GetField
<1> QED
  BY <1>3, <1>5, <1>6 DEF BlankAfter

\* What is shown of a display is the display.
LEMMA ShowIs == ASSUME NEW d \in Display, Show(d) PROVE shell' = d
<1>1. d = Fields(d.row, d.col, d.screen, d.scrolled)
  BY DisplayIs
<1>2. shell' = Fields(d.row, d.col, d.screen, d.scrolled)
  BY DEF Show, shell, Fields
<1> QED
  BY <1>1, <1>2

\* The types of the cursor and of the screen are those of a display.
LEMMA ShellIs ==
    shell \in Display <=> /\ shell = Fields(cursor.row, cursor.col, screen, cursor.scrolled)
                          /\ cursor.row \in Rows /\ cursor.col \in Cols
                          /\ cursor.scrolled \in Nat
                          /\ screen \in [Rows -> [Cols -> Glyphs]]
<1>1. shell = Fields(cursor.row, cursor.col, screen, cursor.scrolled)
  BY DEF shell, Fields
<1> QED
  BY <1>1 DEF Display, Fields

\* A prompt printed at the start of a row, and where that is.
LEMMA PromptAt ==
    ASSUME NEW d \in Display, d.col = 0,
           NEW start, start = [d EXCEPT !.scrolled = 0],
           NEW e, e = print(start, PROMPT)
    PROVE  /\ e \in Display
           /\ Position(start) \in Nat /\ \E k \in Nat : Position(start) = k * cols
           /\ Behind(e, Position(start), Len(PROMPT))
           /\ Shows(e, Position(start), PROMPT, Len(PROMPT))
           /\ BlankAfter(d) => BlankAfter(e)
<1>1. /\ d = Fields(d.row, d.col, d.screen, d.scrolled)
      /\ d.row \in Rows /\ d.screen \in [Rows -> [Cols -> Glyphs]]
  BY DisplayIs
<1>2. start = Fields(d.row, 0, d.screen, 0)
  BY <1>1 DEF Fields
<1>3. start \in Display
  <2>1. 0 \in Cols /\ 0 \in Nat
    BY Size
  <2> QED
    BY <1>1, <1>2, <2>1, FieldsDisplay
<1>4. start.row = d.row /\ start.col = 0 /\ start.screen = d.screen /\ start.scrolled = 0
  BY <1>2, GetField
<1>5. cols \in Nat \ {0} /\ d.row \in Nat
  BY <1>1, Size
<1>6. Position(start) = d.row * cols /\ d.row * cols \in Nat
  <2>1. 0 + d.row = d.row /\ d.row * cols \in Nat
    BY <1>5
  <2> QED
    BY <1>4, <2>1 DEF Position
<1>7. Behind(start, Position(start), 0)
  <2>1. 0 * cols = 0
    BY <1>5
  <2> QED
    BY <1>4, <1>6, <2>1 DEF Behind
<1>8. PROMPT \in Seq(Glyphs) /\ PROMPT \in Seq(Chars) /\ Len(PROMPT) < rows * cols
  <2>1. PROMPT \in Seq(Glyphs)
    BY TerminalAssumption
  <2>2. Len(PROMPT) \in Nat /\ rows * cols \in Nat
    BY <2>1, Size
  <2>3. Len(PROMPT) < rows * cols
    BY <2>2, Size, TerminalAssumption
  <2>4. PROMPT \in Seq(Chars)
    <3>1. \A i \in 1..Len(PROMPT) : PROMPT[i] \in Chars
      BY <2>1 DEF Chars
    <3> QED
      BY <2>1, <3>1
  <2> QED
    BY <2>1, <2>3, <2>4
<1>9. Behind(e, Position(start), Len(PROMPT)) /\ Shows(e, Position(start), PROMPT, Len(PROMPT))
  BY <1>3, <1>5, <1>6, <1>7, <1>8, PrintGlyphs
<1>10. BlankAfter(d) => BlankAfter(start)
  BY <1>4 DEF BlankAfter
<1>11. e \in Display /\ (BlankAfter(start) => BlankAfter(e))
  BY <1>3, <1>8, PrintKeeps
<1> QED
  BY <1>5, <1>6, <1>9, <1>10, <1>11

\* With an empty line, what is shown is the prompt.
LEMMA ShownEmpty ==
    /\ PROMPT \o << >> = PROMPT /\ Len(PROMPT) + Len(<< >>) = Len(PROMPT)
    /\ << >> \in Seq(Keys) /\ Len(<< >>) < CMD_BUF_SIZE
<1>1. PROMPT \in Seq(Glyphs) /\ Len(PROMPT) \in Nat
  BY TerminalAssumption
<1> QED
  BY <1>1, Size

\* The new prompt establishes the invariant, if nothing is behind it or a demo
\* task drew.
LEMMA PromptInv ==
    ASSUME NEW d \in Display, d.col = 0, Prompt(d), ~overdrawn' => BlankAfter(d),
           overdrawn' \in BOOLEAN, halted' \in BOOLEAN, asleep' = FALSE
    PROVE  IInv'
<1> DEFINE start == [d EXCEPT !.scrolled = 0]
           e == print(start, PROMPT)
<1>1. origin' = Position(start) /\ Show(e) /\ line' = << >>
  BY DEF Prompt
<1>2. /\ e \in Display
      /\ Position(start) \in Nat /\ \E k \in Nat : Position(start) = k * cols
      /\ Behind(e, Position(start), Len(PROMPT))
      /\ Shows(e, Position(start), PROMPT, Len(PROMPT))
      /\ BlankAfter(d) => BlankAfter(e)
  BY PromptAt
<1> HIDE DEF start, e
<1>3. shell' = e
  BY <1>1, <1>2, ShowIs
<1>4. /\ Shown' = PROMPT /\ Len(PROMPT) + Len(line') = Len(PROMPT)
      /\ line' \in Seq(Keys) /\ Len(line') < CMD_BUF_SIZE
  BY <1>1, ShownEmpty DEF Shown
<1>5. TypeOK'
  <2>1. e.row \in Rows /\ e.col \in Cols /\ e.scrolled \in Nat /\ e.screen \in [Rows -> [Cols -> Glyphs]]
    BY <1>2, DisplayIs
  <2> QED
    BY <1>1, <1>2, <1>4, <2>1 DEF TypeOK, Show, Rows, Cols
<1>6. Behind(shell', origin', Len(PROMPT) + Len(line'))
  BY <1>1, <1>2, <1>3, <1>4
<1>7. ~overdrawn' => Shows(shell', origin', Shown', Len(PROMPT) + Len(line')) /\ BlankAfter(shell')
  BY <1>1, <1>2, <1>3, <1>4
<1>8. \E k \in Nat : origin' = k * cols
  BY <1>1, <1>2
<1>9. AtPrompt' /\ (\E k \in Nat : origin = k * cols)'
  BY <1>6, <1>7, <1>8 DEF AtPrompt, Behind, Shows, BlankAfter, Position
<1> QED
  BY <1>5, <1>9 DEF IInv

\* The invariant, with the display and the line spelled out.
LEMMA Facts ==
    ASSUME IInv
    PROVE  /\ shell \in Display /\ line \in Seq(Keys) /\ Len(line) \in Nat
           /\ Len(line) < CMD_BUF_SIZE /\ origin \in Nat
           /\ overdrawn \in BOOLEAN /\ asleep \in BOOLEAN /\ halted \in BOOLEAN
           /\ PROMPT \in Seq(Glyphs) /\ Len(PROMPT) \in Nat
           /\ Len(PROMPT) + CMD_BUF_SIZE <= rows * cols
           /\ rows * cols \in Nat
<1>1. TypeOK
  BY DEF IInv
<1>2. shell \in Display
  <2>1. /\ cursor.row \in Rows /\ cursor.col \in Cols /\ cursor.scrolled \in Nat
        /\ screen \in [Rows -> [Cols -> Glyphs]]
    BY <1>1 DEF TypeOK, Rows, Cols
  <2>2. shell = Fields(cursor.row, cursor.col, screen, cursor.scrolled)
    BY DEF shell, Fields
  <2> QED
    BY <2>1, <2>2, FieldsDisplay
<1>3. line \in Seq(Keys) /\ Len(line) \in Nat
  BY <1>1 DEF TypeOK
<1>4. PROMPT \in Seq(Glyphs) /\ Len(PROMPT) \in Nat
  BY TerminalAssumption
<1>5. rows * cols \in Nat
  BY Size
<1>6. Len(PROMPT) + CMD_BUF_SIZE <= rows * cols
  BY TerminalAssumption
<1> QED
  BY <1>1, <1>2, <1>3, <1>4, <1>5, <1>6 DEF TypeOK

\* The prompt and a line with one more key.
LEMMA ShownAppend ==
    ASSUME NEW p \in Seq(Glyphs), NEW l \in Seq(Keys), NEW key \in Keys
    PROVE  /\ Len(Append(l, key)) = Len(l) + 1 /\ Append(l, key) \in Seq(Keys)
           /\ (p \o Append(l, key))[Len(p) + Len(l) + 1] = key
           /\ \A i \in 1..(Len(p) + Len(l)) : (p \o Append(l, key))[i] = (p \o l)[i]
<1>1. Len(p) \in Nat /\ Len(l) \in Nat
  OBVIOUS
<1>2. Len(Append(l, key)) = Len(l) + 1 /\ Append(l, key) \in Seq(Keys)
  OBVIOUS
<1>3. \A i \in 1..(Len(p) + Len(l) + 1) :
         (p \o Append(l, key))[i] = IF i <= Len(p) THEN p[i] ELSE Append(l, key)[i - Len(p)]
  BY <1>1, <1>2
<1>4. \A i \in 1..(Len(p) + Len(l)) :
         (p \o l)[i] = IF i <= Len(p) THEN p[i] ELSE l[i - Len(p)]
  BY <1>1
<1>5. Append(l, key)[Len(l) + 1] = key
  OBVIOUS
<1>6. \A j \in 1..Len(l) : Append(l, key)[j] = l[j]
  OBVIOUS
<1>7. (p \o Append(l, key))[Len(p) + Len(l) + 1] = key
  BY <1>1, <1>3, <1>5
<1>8. ASSUME NEW i \in 1..(Len(p) + Len(l))
      PROVE  (p \o Append(l, key))[i] = (p \o l)[i]
  <2>1. CASE i <= Len(p)
    BY <1>1, <1>3, <1>4, <2>1
  <2>2. CASE ~(i <= Len(p))
    <3>1. i - Len(p) \in 1..Len(l) /\ i \in 1..(Len(p) + Len(l) + 1)
      BY <1>1, <2>2
    <3> QED
      BY <1>3, <1>4, <1>6, <2>2, <3>1
  <2> QED
    BY <2>1, <2>2
<1> QED
  BY <1>2, <1>7, <1>8

\* The prompt and a line with the last key removed.
LEMMA ShownFront ==
    ASSUME NEW p \in Seq(Glyphs), NEW l \in Seq(Keys), l # << >>
    PROVE  /\ Len(l) \in Nat \ {0} /\ Len(Front(l)) = Len(l) - 1 /\ Front(l) \in Seq(Keys)
           /\ \A i \in 1..(Len(p) + Len(l) - 1) : (p \o Front(l))[i] = (p \o l)[i]
<1>1. Len(p) \in Nat /\ Len(l) \in Nat \ {0}
  OBVIOUS
<1>2. Front(l) = [i \in 1..(Len(l) - 1) |-> l[i]]
  BY <1>1 DEF Front
<1>3. Len(Front(l)) = Len(l) - 1 /\ Front(l) \in Seq(Keys)
  BY <1>1, <1>2
<1>4. \A i \in 1..(Len(p) + Len(l) - 1) :
         (p \o Front(l))[i] = IF i <= Len(p) THEN p[i] ELSE Front(l)[i - Len(p)]
  BY <1>1, <1>3
<1>5. \A i \in 1..(Len(p) + Len(l)) :
         (p \o l)[i] = IF i <= Len(p) THEN p[i] ELSE l[i - Len(p)]
  BY <1>1
<1>6. ASSUME NEW i \in 1..(Len(p) + Len(l) - 1)
      PROVE  (p \o Front(l))[i] = (p \o l)[i]
  <2>1. i \in 1..(Len(p) + Len(l))
    BY <1>1
  <2>2. CASE i <= Len(p)
    BY <1>4, <1>5, <2>1, <2>2
  <2>3. CASE ~(i <= Len(p))
    <3>1. i - Len(p) \in 1..(Len(l) - 1)
      BY <1>1, <2>3
    <3>2. Front(l)[i - Len(p)] = l[i - Len(p)]
      BY <1>2, <3>1
    <3> QED
      BY <1>4, <1>5, <2>1, <2>3, <3>2
  <2> QED
    BY <2>2, <2>3
<1> QED
  BY <1>1, <1>3, <1>6

\* The invariant of the display that is shown after a key.
LEMMA ShownInv ==
    ASSUME IInv, NEW d \in Display, Show(d), UNCHANGED <<origin, overdrawn, asleep, halted>>,
           ~asleep,
           line' \in Seq(Keys), Len(line') < CMD_BUF_SIZE,
           NEW n, n = Len(PROMPT) + Len(line'),
           Behind(d, origin, n), ~overdrawn => Shows(d, origin, Shown', n) /\ BlankAfter(d)
    PROVE  IInv'
<1>1. shell' = d
  BY ShowIs
<1>2. TypeOK'
  <2>1. /\ d.row \in Rows /\ d.col \in Cols /\ d.scrolled \in Nat
        /\ d.screen \in [Rows -> [Cols -> Glyphs]]
    BY DisplayIs
  <2> QED
    BY <2>1, Facts DEF TypeOK, Show, Rows, Cols
<1>3. \E k \in Nat : origin' = k * cols
  BY DEF IInv
<1>4. Behind(shell', origin', Len(PROMPT) + Len(line'))
  BY <1>1
<1>5. ~overdrawn' => Shows(shell', origin', Shown', Len(PROMPT) + Len(line')) /\ BlankAfter(shell')
  BY <1>1
<1>6. AtPrompt' /\ (\E k \in Nat : origin = k * cols)'
  BY <1>3, <1>4, <1>5 DEF AtPrompt, Behind, Shows, BlankAfter, Position
<1> QED
  BY <1>2, <1>6 DEF IInv

\* The invariant holds initially, and every step preserves it.
LEMMA InitInv == Init => IInv
<1> SUFFICES ASSUME Init PROVE IInv
  OBVIOUS
<1> DEFINE greeted == print(Cleared, Greeting)
           start == [greeted EXCEPT !.scrolled = 0]
           e == print(start, PROMPT)
<1>1. /\ origin = Position(start)
      /\ cursor = [row |-> e.row, col |-> e.col, scrolled |-> e.scrolled]
      /\ screen = e.screen /\ line = << >> /\ overdrawn = FALSE /\ asleep = FALSE /\ halted = FALSE
  BY DEF Init
<1>2. /\ Greeting \in Seq(Chars) /\ Last(Greeting) = "newline"
  BY TerminalAssumption DEF Greeting, Chars, Last
<1>3. greeted \in Display /\ greeted.col = 0 /\ BlankAfter(greeted)
  <2>1. Cleared \in Display /\ Cleared.col = 0 /\ BlankAfter(Cleared)
    BY ClearedIs
  <2> QED
    BY <1>2, <2>1, PrintKeeps
<1>4. /\ e \in Display
      /\ Position(start) \in Nat /\ \E k \in Nat : Position(start) = k * cols
      /\ Behind(e, Position(start), Len(PROMPT))
      /\ Shows(e, Position(start), PROMPT, Len(PROMPT))
      /\ BlankAfter(e)
  <2> HIDE DEF greeted
  <2> QED
    BY <1>3, PromptAt
<1> HIDE DEF greeted, start, e
<1>5. shell = e
  <2>1. shell = Fields(e.row, e.col, e.screen, e.scrolled)
    BY <1>1 DEF shell, Fields
  <2> QED
    BY <1>4, <2>1, DisplayIs
<1>6. /\ Shown = PROMPT /\ Len(PROMPT) + Len(line) = Len(PROMPT)
      /\ line \in Seq(Keys) /\ Len(line) < CMD_BUF_SIZE
  BY <1>1, ShownEmpty DEF Shown
<1>7. TypeOK
  <2>1. e.row \in Rows /\ e.col \in Cols /\ e.scrolled \in Nat /\ e.screen \in [Rows -> [Cols -> Glyphs]]
    BY <1>4, DisplayIs
  <2> QED
    BY <1>1, <1>4, <1>6, <2>1 DEF TypeOK, Rows, Cols
<1> QED
  BY <1>1, <1>4, <1>5, <1>6, <1>7 DEF IInv, AtPrompt

\* A key is shown at the cursor.
LEMMA KeyCharInv == ASSUME IInv, NEW key \in Keys, KeyChar(key) PROVE IInv'
<1> DEFINE d == shell
           e == putc(shell, key)
           n == Len(PROMPT) + Len(line)
<1>1. /\ d \in Display /\ line \in Seq(Keys) /\ Len(line) \in Nat /\ origin \in Nat
      /\ PROMPT \in Seq(Glyphs) /\ Len(PROMPT) \in Nat
      /\ Len(PROMPT) + CMD_BUF_SIZE <= rows * cols /\ rows * cols \in Nat
      /\ CMD_BUF_SIZE \in Nat /\ key \in Glyphs
  BY Facts, Size, TerminalAssumption
<1>2. /\ Len(line) < CMD_BUF_SIZE - 1 /\ line' = Append(line, key) /\ Show(e)
      /\ UNCHANGED <<origin, overdrawn, asleep, halted>> /\ ~asleep
  BY DEF KeyChar, Reading
<1>3. /\ Len(line') = Len(line) + 1 /\ line' \in Seq(Keys)
      /\ Shown'[n + 1] = key
      /\ \A i \in 1..n : Shown'[i] = Shown[i]
  BY <1>1, <1>2, ShownAppend DEF Shown
<1>4. n \in Nat /\ n + 1 < rows * cols /\ Len(line') < CMD_BUF_SIZE
      /\ n + 1 = Len(PROMPT) + Len(line')
  BY <1>1, <1>2, <1>3
<1>5. PICK k \in Nat : origin = k * cols
  BY DEF IInv
<1>6. /\ Behind(d, origin, n)
      /\ ~overdrawn => Shows(d, origin, Shown, n) /\ BlankAfter(d)
  BY <1>2 DEF IInv, AtPrompt
<1>7. e = putc(d, key)
  OBVIOUS
<1> HIDE DEF d, e, n
<1>8. e \in Display
  BY <1>1, <1>7, PutGlyph
<1>9. Behind(e, origin, n + 1)
  BY <1>1, <1>4, <1>5, <1>6, <1>7, GlyphBehind
<1>10. ~overdrawn => Shows(e, origin, Shown', n + 1)
  <2> SUFFICES ASSUME ~overdrawn PROVE Shows(e, origin, Shown', n + 1)
    OBVIOUS
  <2>1. Shows(d, origin, Shown, n)
    BY <1>6
  <2> QED
    BY <1>1, <1>3, <1>4, <1>6, <1>7, <2>1, GlyphShows
<1>11. ~overdrawn => BlankAfter(e)
  BY <1>1, <1>6, <1>7, GlyphBlank
<1> QED
  BY <1>2, <1>3, <1>4, <1>8, <1>9, <1>10, <1>11, ShownInv

\* A backspace erases the key it removes.
LEMMA KeyBackspaceInv == ASSUME IInv, KeyBackspace PROVE IInv'
<1> DEFINE d == shell
           e == backspace(shell)
           n == Len(PROMPT) + Len(line)
<1>1. /\ d \in Display /\ line \in Seq(Keys) /\ Len(line) \in Nat /\ origin \in Nat
      /\ PROMPT \in Seq(Glyphs) /\ Len(PROMPT) \in Nat
      /\ Len(line) < CMD_BUF_SIZE /\ CMD_BUF_SIZE \in Nat
  BY Facts, Size
<1>2. /\ line # << >> /\ line' = Front(line) /\ Show(e)
      /\ UNCHANGED <<origin, overdrawn, asleep, halted>> /\ ~asleep
  BY DEF KeyBackspace, Reading
<1>3. /\ Len(line) \in Nat \ {0} /\ Len(line') = Len(line) - 1 /\ line' \in Seq(Keys)
      /\ \A i \in 1..(n - 1) : Shown'[i] = Shown[i]
  <2>1. PROMPT \in Seq(Glyphs) /\ line \in Seq(Keys) /\ line # << >>
    BY <1>1, <1>2
  <2>2. /\ Len(line) \in Nat \ {0} /\ Len(Front(line)) = Len(line) - 1
        /\ Front(line) \in Seq(Keys)
        /\ \A i \in 1..(n - 1) : (PROMPT \o Front(line))[i] = (PROMPT \o line)[i]
    BY ONLY <2>1, ShownFront
  <2>3. Shown' = PROMPT \o Front(line) /\ Shown = PROMPT \o line
    BY <1>2 DEF Shown
  <2> HIDE DEF n
  <2> QED
    BY <1>2, <2>2, <2>3
<1>4. n \in Nat \ {0} /\ n - 1 = Len(PROMPT) + Len(line') /\ Len(line') < CMD_BUF_SIZE
  BY <1>1, <1>3
<1>5. /\ Behind(d, origin, n)
      /\ ~overdrawn => Shows(d, origin, Shown, n) /\ BlankAfter(d)
  BY <1>2 DEF IInv, AtPrompt
<1>6. e = backspace(d)
  OBVIOUS
<1> HIDE DEF d, e, n
<1>7. (d.col > 0 \/ d.row > 0) /\ Behind(e, origin, n - 1)
  BY <1>1, <1>4, <1>5, <1>6, BackBehind
<1>8. e \in Display
  BY <1>1, <1>6, <1>7, BackspaceIs
<1>9. ~overdrawn => Shows(e, origin, Shown', n - 1)
  <2> SUFFICES ASSUME ~overdrawn PROVE Shows(e, origin, Shown', n - 1)
    OBVIOUS
  <2>1. Shows(d, origin, Shown, n)
    BY <1>5
  <2> QED
    BY <1>1, <1>3, <1>4, <1>5, <1>6, <2>1, BackspaceShows
<1>10. ~overdrawn => BlankAfter(e)
  BY <1>1, <1>5, <1>6, <1>7, BackspaceBlank
<1> QED
  BY <1>2, <1>3, <1>4, <1>7, <1>8, <1>9, <1>10, ShownInv

\* What a command prints keeps the cursor at the start of a row.
LEMMA OutputKeeps ==
    ASSUME NEW d \in Display, d.col = 0, NEW text \in Outputs, NEW e, e = print(d, text)
    PROVE  e \in Display /\ e.col = 0 /\ (BlankAfter(d) => BlankAfter(e))
<1>1. text \in Seq(Chars) /\ (text # << >> => Last(text) = "newline")
  BY TerminalAssumption DEF Chars
<1> QED
  BY <1>1, PrintKeeps

\* Enter prints the new prompt at the start of a row, or the command sleeps
\* there, or the machine stops.
LEMMA KeyEnterInv == ASSUME IInv, KeyEnter PROVE IInv'
<1> DEFINE next == putc(shell, "newline")
<1>1. /\ shell \in Display /\ overdrawn \in BOOLEAN /\ halted \in BOOLEAN
      /\ asleep = FALSE /\ TypeOK
  BY Facts DEF KeyEnter, Reading, IInv
<1>2. AtPrompt /\ \E k \in Nat : origin = k * cols
  BY <1>1 DEF IInv
<1>3. /\ next \in Display /\ next.col = 0
      /\ ~overdrawn => BlankAfter(next)
  <2>1. BlankAfter(shell) => BlankAfter(next)
    BY <1>1, NewLineBlank
  <2> QED
    BY <1>1, <1>2, <2>1, PutNewLine DEF AtPrompt
<1>4. \/ Prompt(next) /\ UNCHANGED <<overdrawn, asleep, halted>>
      \/ Prints(next) \/ Clears \/ Sleeps(next) \/ Halts
  BY DEF KeyEnter
<1> HIDE DEF next
<1>5. CASE Prompt(next) /\ UNCHANGED <<overdrawn, asleep, halted>>
  <2>1. /\ overdrawn' \in BOOLEAN /\ halted' \in BOOLEAN /\ asleep' = FALSE
        /\ ~overdrawn' => BlankAfter(next)
    BY <1>1, <1>3, <1>5
  <2> QED
    BY <1>3, <1>5, <2>1, PromptInv
<1>6. CASE Prints(next)
  <2>1. PICK text \in Outputs : Prompt(print(next, text))
    BY <1>6 DEF Prints
  <2> DEFINE d == print(next, text)
  <2>2. d \in Display /\ d.col = 0 /\ (~overdrawn => BlankAfter(d))
    BY <1>3, OutputKeeps
  <2>3. Prompt(d) /\ UNCHANGED <<overdrawn, asleep, halted>>
    BY <1>6, <2>1 DEF Prints
  <2> HIDE DEF d
  <2>4. /\ overdrawn' \in BOOLEAN /\ halted' \in BOOLEAN /\ asleep' = FALSE
        /\ ~overdrawn' => BlankAfter(d)
    BY <1>1, <2>2, <2>3
  <2> QED
    BY <2>2, <2>3, <2>4, PromptInv
<1>7. CASE Clears
  <2>1. Prompt(Cleared) /\ overdrawn' = FALSE /\ UNCHANGED <<asleep, halted>>
    BY <1>7 DEF Clears
  <2>2. overdrawn' \in BOOLEAN /\ halted' \in BOOLEAN /\ asleep' = FALSE
    BY <1>1, <2>1
  <2>3. Cleared \in Display /\ Cleared.col = 0 /\ (~overdrawn' => BlankAfter(Cleared))
    BY ClearedIs
  <2> QED
    BY <2>1, <2>2, <2>3, PromptInv
<1>8. CASE Sleeps(next)
  <2>1. PICK text \in Outputs : Show(print(next, text))
    BY <1>8 DEF Sleeps
  <2> DEFINE d == print(next, text)
  <2>2. d \in Display /\ d.col = 0 /\ (~overdrawn => BlankAfter(d))
    BY <1>3, OutputKeeps
  <2>3. Show(d) /\ asleep' = TRUE /\ UNCHANGED <<line, origin, overdrawn, halted>>
    BY <1>8, <2>1 DEF Sleeps
  <2> HIDE DEF d
  <2>4. shell' = d
    BY <2>2, <2>3, ShowIs
  <2>5. TypeOK'
    <3>1. d.row \in Rows /\ d.col \in Cols /\ d.scrolled \in Nat /\ d.screen \in [Rows -> [Cols -> Glyphs]]
      BY <2>2, DisplayIs
    <3> QED
      BY <1>1, <2>3, <3>1 DEF TypeOK, Show, Rows, Cols
  <2>6. AtRow'
    BY <2>2, <2>3, <2>4 DEF AtRow, BlankAfter
  <2>7. (\E k \in Nat : origin = k * cols)'
    BY <1>2, <2>3
  <2> QED
    BY <2>3, <2>5, <2>6, <2>7 DEF IInv
<1>9. CASE Halts
  <2>1. halted' = TRUE /\ UNCHANGED <<cursor, screen, line, origin, overdrawn, asleep>>
    BY <1>9 DEF Halts
  <2>2. TypeOK'
    BY <1>1, <2>1 DEF TypeOK
  <2>3. shell' = shell /\ Shown' = Shown
    BY <2>1 DEF shell, Shown
  <2>4. AtPrompt' /\ (\E k \in Nat : origin = k * cols)'
    BY <1>2, <2>1, <2>3 DEF AtPrompt, Behind, Shows, BlankAfter, Position
  <2> QED
    BY <1>1, <2>1, <2>2, <2>4 DEF IInv
<1> QED
  BY <1>4, <1>5, <1>6, <1>7, <1>8, <1>9

\* A command that slept prints on, and then the prompt.
LEMMA AwakeInv == ASSUME IInv, Awake PROVE IInv'
<1>1. /\ shell \in Display /\ overdrawn \in BOOLEAN /\ halted \in BOOLEAN
      /\ asleep /\ asleep' = FALSE /\ UNCHANGED <<overdrawn, halted>>
  BY Facts DEF Awake
<1>2. shell.col = 0 /\ (~overdrawn => BlankAfter(shell))
  BY <1>1 DEF IInv, AtRow
<1>3. PICK text \in Outputs : Prompt(print(shell, text))
  BY DEF Awake
<1> DEFINE d == print(shell, text)
<1>4. d \in Display /\ d.col = 0 /\ (~overdrawn => BlankAfter(d))
  BY <1>1, <1>2, OutputKeeps
<1>5. Prompt(d)
  BY <1>3
<1> HIDE DEF d
<1> QED
  BY <1>1, <1>4, <1>5, PromptInv

\* A demo task draws on the screen, and leaves the shell's cursor and line.
LEMMA DemoTaskInv == ASSUME IInv, DemoTask PROVE IInv'
<1> DEFINE d == print(Cleared, <<"*", "newline">>)
<1>1. /\ screen' = d.screen /\ overdrawn' = TRUE
      /\ UNCHANGED <<cursor, line, origin, asleep, halted>>
  BY DEF DemoTask
<1>2. <<"*", "newline">> \in Seq(Chars)
  BY TerminalAssumption DEF Chars
<1>3. d \in Display
  BY <1>2, ClearedIs, PrintKeeps
<1>4. d.screen \in [Rows -> [Cols -> Glyphs]]
  BY <1>3, DisplayIs
<1> HIDE DEF d
<1>5. TypeOK'
  <2>1. TypeOK
    BY DEF IInv
  <2> QED
    BY <1>1, <1>4, <2>1 DEF TypeOK, Rows, Cols
<1>6. Position(shell') = Position(shell) /\ shell'.scrolled = shell.scrolled
  BY <1>1 DEF shell, Position
<1>7. ASSUME ~asleep PROVE AtPrompt'
  <2>1. Behind(shell, origin, Len(PROMPT) + Len(line))
    BY <1>7 DEF IInv, AtPrompt
  <2>2. Behind(shell', origin', Len(PROMPT) + Len(line'))
    BY <1>1, <1>6, <2>1 DEF Behind
  <2>3. Behind(shell, origin, Len(PROMPT) + Len(line))'
    BY <1>1, <2>2 DEF Behind, Position
  <2> QED
    BY <1>1, <2>3 DEF AtPrompt
<1>8. ASSUME asleep PROVE AtRow'
  <2>1. shell.col = 0 /\ shell'.col = shell.col
    BY <1>1, <1>8 DEF IInv, AtRow, shell
  <2> QED
    BY <1>1, <2>1 DEF AtRow
<1>9. (\E k \in Nat : origin = k * cols)'
  BY <1>1 DEF IInv
<1> QED
  BY <1>1, <1>5, <1>7, <1>8, <1>9 DEF IInv

\* The invariant holds: what was printed since the prompt is where it was
\* printed, across every wrap and every scroll (putc, backspace, handle_key).
THEOREM TerminalInvariance == Spec => []IInv
<1>1. IInv /\ [Next]_vars => IInv'
  <2> SUFFICES ASSUME IInv, [Next]_vars PROVE IInv'
    OBVIOUS
  <2>1. CASE \E key \in Keys : KeyChar(key)
    BY <2>1, KeyCharInv
  <2>2. CASE KeyBackspace
    BY <2>2, KeyBackspaceInv
  <2>3. CASE KeyEnter
    BY <2>3, KeyEnterInv
  <2>4. CASE DemoTask
    BY <2>4, DemoTaskInv
  <2>6. CASE Awake
    BY <2>6, AwakeInv
  <2>5. CASE UNCHANGED vars
    <3>1. TypeOK'
      BY <2>5 DEF IInv, TypeOK, vars
    <3>2. shell' = shell /\ Shown' = Shown
      BY <2>5 DEF shell, Shown, vars
    <3>3. asleep' = asleep /\ (\E k \in Nat : origin = k * cols)'
      BY <2>5 DEF IInv, vars
    <3>4. ASSUME ~asleep PROVE AtPrompt'
      BY <2>5, <3>2, <3>4 DEF IInv, AtPrompt, Behind, Shows, BlankAfter, Position, vars
    <3>5. ASSUME asleep PROVE AtRow'
      BY <2>5, <3>2, <3>5 DEF IInv, AtRow, BlankAfter, vars
    <3> QED
      BY <3>1, <3>3, <3>4, <3>5 DEF IInv
  <2> QED
    BY <2>1, <2>2, <2>3, <2>4, <2>5, <2>6 DEF Next
<1> QED
  BY <1>1, InitInv, PTL DEF Spec

\* Every variable keeps its type: the cursor stays on the screen, whatever is
\* printed, and the line in Shell.buf (TypeOK).
THEOREM TerminalTypes == Spec => []TypeOK
<1>1. IInv => TypeOK
  BY DEF IInv
<1> QED
  BY <1>1, TerminalInvariance, PTL

\* A cell from the prompt on is on the screen, at the row and the column that
\* its number says.
LEMMA CellIs ==
    ASSUME IInv, Reading, NEW p \in Nat, origin <= p, p < (cursor.scrolled + rows) * cols
    PROVE  \E r \in Rows, c \in Cols :
              (cursor.scrolled + r) * cols + c = p /\ Cell(p) = screen[r][c]
<1> DEFINE s == cursor.scrolled
           q == p \div cols
           c == p % cols
<1>1. cols \in Nat \ {0} /\ rows \in Nat \ {0}
  BY Size
<1>2. q \in Nat /\ c \in 0..(cols - 1) /\ p = q * cols + c
  BY <1>1, DivMod
<1>3. s \in Nat /\ s * cols <= origin
  <2>1. TypeOK /\ Behind(shell, origin, Len(PROMPT) + Len(line))
    BY DEF IInv, AtPrompt, Reading
  <2>2. cursor.scrolled \in Nat
    BY <2>1 DEF TypeOK
  <2>3. shell.scrolled = cursor.scrolled
    BY DEF shell
  <2> QED
    BY <2>1, <2>2, <2>3 DEF Behind
<1>4. Cell(p) = screen[q - s][c]
  BY DEF Cell
<1>5. origin \in Nat
  BY Facts
<1>6. p < (s + rows) * cols
  OBVIOUS
<1> HIDE DEF s, q, c
<1>7. s <= q
  <2> SUFFICES ASSUME q < s PROVE FALSE
    BY <1>2, <1>3
  <2>1. q * cols + cols <= s * cols
    BY <1>1, <1>2, <1>3, LaterRow
  <2>2. q * cols \in Nat /\ s * cols \in Nat
    BY <1>1, <1>2, <1>3
  <2> QED
    BY <1>1, <1>2, <1>3, <1>5, <2>1, <2>2
<1>8. q < s + rows
  <2> SUFFICES ASSUME s + rows <= q PROVE FALSE
    BY <1>1, <1>2, <1>3
  <2>1. s + rows \in Nat
    BY <1>1, <1>3
  <2>2. (s + rows) * cols <= q * cols
    BY <1>1, <1>2, <2>1, Cancel
  <2>3. (s + rows) * cols \in Nat /\ q * cols \in Nat
    BY <1>1, <1>2, <2>1
  <2> QED
    BY <1>2, <1>6, <2>2, <2>3
<1>9. q - s \in Rows /\ c \in Cols /\ s + (q - s) = q
  BY <1>1, <1>2, <1>3, <1>7, <1>8 DEF Rows, Cols
<1>10. (s + (q - s)) * cols + c = p
  BY <1>2, <1>9
<1> QED
  BY <1>4, <1>9, <1>10 DEF s

\* What execute reads is what the user sees: the cursor is behind the prompt by
\* the length of the line, and unless a demo task drew on the framebuffer, the
\* prompt, the line and nothing else are there (handle_key, putc, backspace).
THEOREM ScreenMatchesLine == Spec => []ScreenShowsLine
<1>1. IInv => ScreenShowsLine
  <2> SUFFICES ASSUME IInv, Reading PROVE ScreenShowsLine
    BY DEF ScreenShowsLine
  <2> DEFINE n == Len(PROMPT) + Len(line)
             s == cursor.scrolled
             top == (s + rows) * cols
  <2>1. /\ shell \in Display /\ origin \in Nat /\ Len(line) \in Nat /\ line \in Seq(Keys)
        /\ PROMPT \in Seq(Glyphs) /\ Len(PROMPT) \in Nat
    BY Facts
  <2>2. n \in Nat /\ Len(Shown) = n
    BY <2>1 DEF Shown
  <2>3. /\ Position(cursor) = Position(shell) /\ shell.scrolled = s /\ shell.row = cursor.row
        /\ shell.col = cursor.col /\ shell.screen = screen
    BY DEF shell, Position
  <2>4. Position(cursor) = origin + n
    BY <2>3 DEF IInv, AtPrompt, Behind, Reading
  <2>5. /\ shell.row \in Nat /\ shell.row < rows /\ shell.col \in Nat /\ shell.col < cols
        /\ s \in Nat /\ (s + shell.row) * cols \in Nat
        /\ origin + n = (s + shell.row) * cols + shell.col
    BY <2>1, <2>3, <2>4, Cursor
  <2>6. cols \in Nat \ {0} /\ rows \in Nat \ {0}
    BY Size
  <2>7. origin + n < top /\ top \in Nat
    <3>1. s + shell.row \in Nat /\ s + rows \in Nat /\ s + shell.row < s + rows
      BY <2>5, <2>6
    <3>2. (s + shell.row) * cols + cols <= top
      BY <2>6, <3>1, LaterRow
    <3>3. top \in Nat
      BY <2>6, <3>1
    <3> QED
      BY <2>5, <2>6, <3>2, <3>3
  <2> HIDE DEF n, s, top
  <2>8. ASSUME ~overdrawn, NEW i \in 1..n PROVE Cell(origin + i - 1) = Shown[i]
    <3>1. origin + i - 1 \in Nat /\ origin <= origin + i - 1 /\ origin + i - 1 < top
      BY <2>1, <2>2, <2>7
    <3>2. PICK r \in Rows, c \in Cols :
             /\ (cursor.scrolled + r) * cols + c = origin + i - 1
             /\ Cell(origin + i - 1) = screen[r][c]
      BY <3>1, CellIs DEF top, s
    <3>3. Shows(shell, origin, Shown, n)
      BY <2>8 DEF IInv, AtPrompt, Reading, n
    <3> QED
      BY <2>3, <3>2, <3>3 DEF Shows, s
  <2>9. ASSUME ~overdrawn, NEW p \in Position(cursor)..(top - 1) PROVE Cell(p) = Blank
    <3>1. p \in Nat /\ origin <= p /\ p < top /\ origin + n <= p
      BY <2>1, <2>2, <2>4, <2>7
    <3>2. PICK r \in Rows, c \in Cols :
             (cursor.scrolled + r) * cols + c = p /\ Cell(p) = screen[r][c]
      BY <3>1, CellIs DEF top, s
    <3>3. BlankAfter(shell)
      BY <2>9 DEF IInv, AtPrompt, Reading
    <3>4. r \in Nat /\ c \in Nat /\ c < cols
      BY Size DEF Rows, Cols
    <3>5. (s + r) * cols + c = p
      BY <3>2 DEF s
    <3>6. r > shell.row \/ (r = shell.row /\ c >= shell.col)
      <4>1. CASE r < shell.row
        <5>1. s + r \in Nat /\ s + shell.row \in Nat /\ s + r < s + shell.row
          BY <2>5, <3>4, <4>1
        <5>2. (s + r) * cols + cols <= (s + shell.row) * cols /\ (s + r) * cols \in Nat
          BY <2>6, <5>1, LaterRow
        <5> QED
          BY <2>5, <2>6, <3>1, <3>4, <3>5, <5>2
      <4>2. CASE r = shell.row
        <5>1. (s + r) * cols = (s + shell.row) * cols
          BY <4>2
        <5> QED
          BY <2>5, <3>1, <3>4, <3>5, <4>2, <5>1
      <4>3. shell.row \in Nat /\ (r < shell.row \/ r = shell.row \/ r > shell.row)
        BY <2>5, <3>4
      <4> QED
        BY <4>1, <4>2, <4>3
    <3> QED
      BY <2>3, <3>2, <3>3, <3>6 DEF BlankAfter
  <2>10. Shown = PROMPT \o line
    BY DEF Shown
  <2> QED
    BY <2>2, <2>4, <2>8, <2>9, <2>10 DEF ScreenShowsLine, top, s
<1> QED
  BY <1>1, TerminalInvariance, PTL
=============================================================================
