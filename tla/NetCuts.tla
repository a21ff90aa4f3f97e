------------------------------- MODULE NetCuts -------------------------------
(***************************************************************************)
(* Netlists and their cuts: a netlist is the function fanin from a gate to *)
(* the sequence of gates it reads.  Shared by the modules that find cuts   *)
(* and match them.                                                         *)
(***************************************************************************)
EXTENDS Integers, Sequences, FiniteSets, SequencesExt, FiniteSetsExt

(* _level, as NtkGate::postOrderVisit counts it.                           *)
Level(f) ==
  LET level[g \in DOMAIN f] ==
        IF f[g] = <<>> THEN 0 ELSE 1 + Max({level[h] : h \in Range(f[g])})
  IN [g \in DOMAIN f |-> level[g]]

NoMarks(gates) ==
  [reached |-> {}, isNew |-> [g \in gates |-> FALSE], flag |-> [g \in gates |-> "EMPTY"],
   active |-> {}, dups |-> <<>>, numNew |-> 0]

(* What stops the walk to the lowest cut at a level: the gates of this     *)
(* level, the merged ones, and the dups, those with a partner on the other *)
(* side.  n: the netlist and these.                                        *)
OnLowest(g, n) == g \notin n.dups /\ (n.level[g] <= n.low \/ g \in n.merged)
Stops(g, n) == g \in n.dups \/ OnLowest(g, n)

(* The walk reaches g.  m: the marks.                                      *)
MarkGate(m, g, new, n) ==
  [reached |-> m.reached \union {g},
   isNew |-> [m.isNew EXCEPT ![g] = new],
   flag |-> [m.flag EXCEPT ![g] = CASE g \in n.dups -> "DUP"
                                    [] OnLowest(g, n) -> "CUT"
                                    [] ~Stops(g, n) -> "ABOVE"],
   active |-> IF OnLowest(g, n) THEN m.active \union {g} ELSE m.active,
   dups |-> IF g \in n.dups THEN Append(m.dups, g) ELSE m.dups,
   numNew |-> IF new THEN m.numNew + 1 ELSE m.numNew]

(* The gates that wait are visited in order, the fanins of a gate before   *)
(* the others.                                                             *)
Visit(w, n) ==
  IF w.waiting = <<>> THEN w
  ELSE
    LET g == Head(w.waiting).gate
        seen == g \in w.marks.reached
        fanins == [i \in DOMAIN n.fanin[g] |->
                     [gate |-> n.fanin[g][i], new |-> n.level[g] = n.low + 1]]
    IN [marks |-> IF seen THEN w.marks ELSE MarkGate(w.marks, g, Head(w.waiting).new, n),
        waiting |-> (IF seen \/ Stops(g, n) THEN <<>> ELSE fanins) \o Tail(w.waiting)]

(* Each fanin of a gate waits at most once.                                *)
MarkBottomCut(gates, root, n) ==
  LET pins == UNION {{g} \X DOMAIN n.fanin[g] : g \in DOMAIN n.fanin}
      walk[i \in Nat] ==
        IF i = 0 THEN [marks |-> NoMarks(gates), waiting |-> <<[gate |-> root, new |-> FALSE]>>]
        ELSE Visit(walk[i - 1], n)
  IN walk[Cardinality(pins) + 1].marks

-----------------------------------------------------------------------------
(* What is reached from a set of gates, fanin by fanin, within another.    *)
ReadBy(f, R, within) == (UNION {Range(f[g]) : g \in R}) \intersect within
Reach(f, base, within) ==
  LET reach[n \in Nat] ==
        IF n = 0 THEN base ELSE LET R == reach[n - 1] IN R \union ReadBy(f, R, within)
  IN reach[Cardinality(within)]

(* What lies between a root and a set of gates, and below these gates.     *)
Above(f, root, reached, S) == Reach(f, {root} \ S, reached \ S)
Below(f, reached, S) == Reach(f, ReadBy(f, S, reached), reached)

(* A set of gates that separates the root from the inputs of what was      *)
(* reached, none of them below another.                                    *)
IsCut(f, root, reached, S) ==
  /\ \A g \in Above(f, root, reached, S) : f[g] # <<>> /\ Range(f[g]) \subseteq reached
  /\ S \intersect Below(f, reached, S) = {}

(* The cuts at or above the marked gates, with at most size gates besides  *)
(* the dups and, unless the dups changed, with a new gate.                 *)
CutsAbove(f, root, m, size, changed) ==
  LET dup == Range(m.dups)
  IN {S \in SUBSET (m.reached \ dup) :
        /\ m.active # {} /\ S # {} /\ Cardinality(S) <= size
        /\ changed \/ \E g \in S \union dup : m.isNew[g]
        /\ IsCut(f, root, m.reached, S \union dup)
        /\ m.active \intersect Above(f, root, m.reached, S \union dup) = {}}
=============================================================================
