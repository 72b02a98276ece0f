------------------------------ MODULE Terminal ------------------------------
(***************************************************************************)
(* The terminal, ui/terminal.rs, and the line editor of                    *)
(* shell/simple_shell.rs (handle_key), which keeps the command line and    *)
(* the screen in step by putc and backspace alone.                         *)
(*                                                                         *)
(* The framebuffer is a grid of glyphs.  There is one, and every Terminal  *)
(* draws on it with a cursor of its own: those of the demo tasks, which    *)
(* clear it when they are made, as well as the shell's.                    *)
(*                                                                         *)
(* Abstracted: pixels and colours; which command a line names.  Carriage   *)
(* return is never printed.                                                *)
(***************************************************************************)
EXTENDS Integers, SequencesExt

CONSTANTS
    rows, cols,     \* the size of the screen in glyphs
    CMD_BUF_SIZE,
    Glyphs,         \* the glyphs of the font
    PROMPT,         \* a sequence of glyphs
    Blank,          \* the glyph of a space, and an erased one
    Keys,           \* the printable characters of the keyboard
    Outputs         \* what commands print: sequences of glyphs and "newline"

ASSUME TerminalAssumption ==
    /\ rows \in Nat \ {0} /\ cols \in Nat \ {0} /\ CMD_BUF_SIZE \in Nat \ {0}
    /\ Blank \in Keys /\ Keys \subseteq Glyphs /\ "*" \in Glyphs /\ "newline" \notin Glyphs
    /\ PROMPT \in Seq(Glyphs)
    /\ \A t \in Outputs : /\ t \in Seq(Glyphs \cup {"newline"})
                          /\ t # << >> => Last(t) = "newline"
    /\ Len(PROMPT) + CMD_BUF_SIZE <= rows * cols   \* they fit on the screen

VARIABLES
    cursor,     \* row and col of the shell's Terminal; scrolled counts calls of
                \* scroll() since the prompt (not state of the program)
    screen,     \* the framebuffer
    line,       \* buf[..len] of Shell
    origin,     \* where the prompt was printed (not state of the program)
    overdrawn,  \* a demo task drew since the shell's last clear (likewise)
    asleep,     \* the shell's task is in the sleep_ms of its command sleep
    halted      \* a command reset or stopped the machine

vars == <<cursor, screen, line, origin, overdrawn, asleep, halted>>

-----------------------------------------------------------------------------
(* Terminal.  A display is a cursor and the screen it draws on.              *)

BlankRow    == [c \in 0..(cols - 1) |-> Blank]
BlankScreen == [r \in 0..(rows - 1) |-> BlankRow]

scroll(scr) == [r \in DOMAIN scr |-> IF r + 1 < rows THEN scr[r + 1] ELSE BlankRow]

\* A cursor past the last column, then past the last row.
Wrapped(d) == IF d.col >= cols THEN [d EXCEPT !.col = 0, !.row = @ + 1] ELSE d
Scrolled(d) == IF d.row < rows THEN d
               ELSE [d EXCEPT !.row = rows - 1, !.screen = scroll(@), !.scrolled = @ + 1]

NewLine(d) == [d EXCEPT !.col = 0, !.row = @ + 1]
Drawn(d, glyph) == [d EXCEPT !.screen[d.row][d.col] = glyph, !.col = @ + 1]

\* Faulty: the column is checked before the glyph is drawn, not after.
putc_late(d, char) ==
    Scrolled(IF char = "newline" THEN NewLine(Wrapped(d)) ELSE Drawn(Wrapped(d), char))

putc(d, char) == Scrolled(Wrapped(IF char = "newline" THEN NewLine(d) ELSE Drawn(d, char)))

\* The displays while a text is printed, by the number of characters so far.
Printing(d, text) ==
    LET shown[i \in 0..Len(text)] == IF i = 0 THEN d ELSE putc(shown[i - 1], text[i])
    IN  shown

print(d, text) == Printing(d, text)[Len(text)]

\* One cell back, if there is one, which is erased.
backspace(d) ==
    IF d.col > 0 THEN [d EXCEPT !.col = @ - 1, !.screen[d.row][d.col - 1] = Blank]
    ELSE IF d.row > 0
    THEN [d EXCEPT !.col = cols - 1, !.row = @ - 1, !.screen[d.row - 1][cols - 1] = Blank]
    ELSE d

\* clear(), which Terminal::new() ends with.
Cleared == [row |-> 0, col |-> 0, screen |-> BlankScreen, scrolled |-> 0]

-----------------------------------------------------------------------------
(* Shell                                                                     *)

\* The number of the cursor's cell, counted from the top of the screen as it was
\* when the last prompt was printed.
Position(d) == (d.scrolled + d.row) * cols + d.col

shell == [row |-> cursor.row, col |-> cursor.col, scrolled |-> cursor.scrolled,
          screen |-> screen]

Show(d) == /\ cursor' = [row |-> d.row, col |-> d.col, scrolled |-> d.scrolled]
           /\ screen' = d.screen

\* show_prompt, on an emptied command line.
Prompt(d) ==
    LET start == [d EXCEPT !.scrolled = 0] IN
    /\ origin' = Position(start)
    /\ Show(print(start, PROMPT))
    /\ line' = << >>

Greeting == <<"*", "newline", "newline">>

\* run_shell: the greeting, and the first prompt two lines below it.
Init ==
    LET start == [print(Cleared, Greeting) EXCEPT !.scrolled = 0]
        d     == print(start, PROMPT) IN
    /\ origin = Position(start)
    /\ cursor = [row |-> d.row, col |-> d.col, scrolled |-> d.scrolled]
    /\ screen = d.screen
    /\ line = << >>
    /\ overdrawn = FALSE /\ asleep = FALSE /\ halted = FALSE

\* run_shell waits in read_key.
Reading == ~asleep /\ ~halted

\* A printable character, dropped when the buffer is full.
KeyChar(key) ==
    /\ Reading
    /\ Len(line) < CMD_BUF_SIZE - 1
    /\ line' = Append(line, key)
    /\ Show(putc(shell, key))
    /\ UNCHANGED <<origin, overdrawn, asleep, halted>>

\* Faulty: also on an empty line.
KeyBackspaceEmpty ==
    /\ Reading
    /\ line' = IF line = << >> THEN line ELSE Front(line)
    /\ Show(backspace(shell))
    /\ UNCHANGED <<origin, overdrawn, asleep, halted>>

\* Ignored on an empty line, so that the prompt stays.
KeyBackspace ==
    /\ Reading
    /\ line # << >>
    /\ line' = Front(line)
    /\ Show(backspace(shell))
    /\ UNCHANGED <<origin, overdrawn, asleep, halted>>

\* trim_ascii leaves nothing.
IsEmpty == Range(line) \subseteq {Blank}

\* What execute does after the display d, up to the prompt that follows it or the
\* call it waits in or never returns from.
Prints(d) == /\ \E text \in Outputs : Prompt(print(d, text))
             /\ UNCHANGED <<overdrawn, asleep, halted>>
Clears    == /\ Prompt(Cleared)
             /\ overdrawn' = FALSE
             /\ UNCHANGED <<asleep, halted>>
Sleeps(d) == /\ \E text \in Outputs : Show(print(d, text))
             /\ asleep' = TRUE
             /\ UNCHANGED <<line, origin, overdrawn, halted>>
Halts     == /\ halted' = TRUE
             /\ UNCHANGED <<cursor, screen, line, origin, overdrawn, asleep>>

\* Enter: a new prompt, at once if the line is empty.
KeyEnter ==
    /\ Reading
    /\ LET next == putc(shell, "newline") IN
        \/ IsEmpty /\ Prompt(next) /\ UNCHANGED <<overdrawn, asleep, halted>>
        \/ ~IsEmpty /\ (Prints(next) \/ Clears \/ Sleeps(next) \/ Halts)

\* The command sleep goes on.
Awake ==
    /\ asleep /\ ~halted
    /\ asleep' = FALSE
    /\ \E text \in Outputs : Prompt(print(shell, text))
    /\ UNCHANGED <<overdrawn, halted>>

\* task_a and task_b, between two keys or while a command sleeps: a new Terminal,
\* and one line.
DemoTask ==
    /\ ~halted
    /\ screen' = print(Cleared, <<"*", "newline">>).screen
    /\ overdrawn' = TRUE
    /\ UNCHANGED <<cursor, line, origin, asleep, halted>>

Next == (\E key \in Keys : KeyChar(key)) \/ KeyBackspace \/ KeyEnter \/ Awake \/ DemoTask

Spec == Init /\ [][Next]_vars

-----------------------------------------------------------------------------
(* Properties                                                                *)

\* Every variable keeps its type; the cursor, where putc draws the next glyph,
\* is on the screen, and the line leaves room in Shell.buf.
TypeOK ==
    /\ cursor \in [row : 0..(rows - 1), col : 0..(cols - 1), scrolled : Nat]
    /\ screen \in [0..(rows - 1) -> [0..(cols - 1) -> Glyphs]]
    /\ line \in Seq(Keys) /\ Len(line) < CMD_BUF_SIZE
    /\ origin \in Nat
    /\ overdrawn \in BOOLEAN /\ asleep \in BOOLEAN /\ halted \in BOOLEAN

Cell(p) == screen[(p \div cols) - cursor.scrolled][p % cols]

\* What execute will read is what the user sees, whenever the shell reads keys.
\* Whatever wrapped or scrolled meanwhile, and whatever the demo tasks draw, the
\* shell's cursor is as far behind the prompt as the command line is long, so that
\* a backspace erases the cell of the character it removes and never the prompt.
\* And unless a demo task has drawn on the same framebuffer since the shell last
\* cleared it, the prompt, the characters of the line and nothing else are there.
ScreenShowsLine ==
    Reading =>
    LET shown == PROMPT \o line IN
    /\ Position(cursor) = origin + Len(shown)
    /\ ~overdrawn =>
        /\ \A i \in 1..Len(shown) : Cell(origin + i - 1) = shown[i]
        /\ \A p \in Position(cursor)..((cursor.scrolled + rows) * cols - 1) : Cell(p) = Blank
=============================================================================
