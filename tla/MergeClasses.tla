---------------------------- MODULE MergeClasses ----------------------------
(***************************************************************************)
(* What the merge lists of NtkGate promise to the rest of the program:     *)
(* two gates are reported merged exactly when they belong to different     *)
(* circuits and the fraiged miter drives both from the same literal.  The  *)
(* relation is kept as a set of pairs, with no lists and no pointers.      *)
(***************************************************************************)

CONSTANTS
  Gate,      \* the gates of the two netlists
  OldGate,   \* those of the old netlist; the others belong to the golden one
  PrePatch,  \* gates written by a prepatch: mapped, never merged
  Key,       \* the literals of the miter that gates are mapped to
  NoKey      \* the literal of a gate that is not mapped yet

VARIABLES
  node,      \* the literal each gate is mapped to
  merged     \* the pairs reported as merged

vars == <<node, merged>>

(* The gates of the other circuit that g becomes equivalent to.            *)
Counterparts(g, k) ==
  {x \in Gate \ PrePatch : node[x] = k /\ (x \in OldGate <=> g \notin OldGate)}

Init ==
  /\ node = [g \in Gate |-> NoKey]
  /\ merged = {}

Map(g, k) ==
  /\ node[g] = NoKey
  /\ node' = [node EXCEPT ![g] = k]
  /\ merged' = IF g \in PrePatch
               THEN merged
               ELSE merged \union ({g} \X Counterparts(g, k))
                           \union (Counterparts(g, k) \X {g})

Reset ==
  /\ node' = [g \in Gate |-> NoKey]
  /\ merged' = {}

Next == Reset \/ \E g \in Gate, k \in Key : Map(g, k)

Spec == Init /\ [][Next]_vars

=============================================================================
