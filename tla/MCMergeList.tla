---------------------------- MODULE MCMergeList -----------------------------
(* Three old gates and two golden ones on two literals: chains of every    *)
(* shape up to three gates, in every mapping order, and a prepatch gate.   *)
EXTENDS MergeList

CONSTANTS o1, o2, o3, g1, g2, p1

MCGate == {o1, o2, o3, g1, g2, p1}
MCOldGate == {o1, o2, o3, p1}
MCPrePatch == {p1}
=============================================================================
