------------------------------ MODULE BestPatch -------------------------------
(***************************************************************************)
(* What the driver promises about its result: the patch file holds the     *)
(* cheapest patch proved equivalent so far.  Replacing it takes two shell  *)
(* commands, so the file is absent for a while, and it comes back cheaper. *)
(***************************************************************************)
EXTENDS Naturals

CONSTANTS
  Cost,     \* the costs a patch can have
  IntMax,   \* INT_MAX: no patch found yet
  NoFile    \* the patch file does not exist

VARIABLES
  file,     \* the patch file: absent, or the cost of the patch in it
  best      \* the cost of the best patch found

Init ==
  /\ file = NoFile
  /\ best = IntMax

(* The old file is removed before a cheaper patch is copied.               *)
Remove ==
  /\ file' = NoFile
  /\ UNCHANGED best

(* A cheaper patch is in place.                                            *)
Install ==
  \E c \in Cost :
    /\ file = NoFile
    /\ c < best
    /\ file' = c
    /\ best' = c

Next == Remove \/ Install

Spec == Init /\ [][Next]_<<file, best>>
=============================================================================
