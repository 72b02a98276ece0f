----------------------------- MODULE KeyboardMC -----------------------------
(***************************************************************************)
(* A small instance of Keyboard for TLC.                                   *)
(***************************************************************************)
EXTENDS Keyboard

CONSTANTS letter, lshift, rshift

MCKeys   == {letter, Enter}
MCShifts == {lshift, rshift}
=============================================================================
