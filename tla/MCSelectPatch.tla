--------------------------- MODULE MCSelectPatch ----------------------------
(* Three candidates and each of the 256 selectors over them, monotone or   *)
(* not: a candidate may undo another one.                                  *)
EXTENDS SelectPatch
=============================================================================
