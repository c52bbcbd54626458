------------------------------- MODULE MCIsqrt -------------------------------
(***************************************************************************)
(* Instance of Isqrt for TLC: every argument of a small machine word.      *)
(***************************************************************************)
EXTENDS Isqrt

MCInputs == 0 .. 2 ^ Width - 1
=============================================================================
