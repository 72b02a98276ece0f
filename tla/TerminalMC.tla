----------------------------- MODULE TerminalMC -----------------------------
(***************************************************************************)
(* A small instance of Terminal for TLC.                                   *)
(***************************************************************************)
EXTENDS Terminal

MCPrompt == <<">", ">">>
MCKeys == {"x", "_"}
MCGlyphs == {"x", "_", ">", "*"}

\* No output; one line; a line as wide as the screen; an empty line, as echo of
\* nothing prints it, and one below it.
MCOutputs == { << >>, <<"*", "newline">>, <<"*", "*", "*", "newline">>,
               <<"newline", "*", "newline">> }
=============================================================================
