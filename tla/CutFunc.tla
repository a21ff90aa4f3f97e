------------------------------- MODULE CutFunc --------------------------------
(***************************************************************************)
(* The function of a gate over a cut, and how it is given to the solver.   *)
(* A gate's variable stands for the gate or, when its phase is set, for    *)
(* its complement.  The clauses of a gate fix its variable for each value  *)
(* of its fanins, so that what a solver is left to choose is a value for   *)
(* each gate without clauses.                                              *)
(*                                                                         *)
(* A netlist n holds both circuits: n.type and n.fanin of each gate,       *)
(* n.root the two gates to be matched, n.merged the pairs that isMergedWith*)
(* is true of, n.consts the golden constants zero and one.                 *)
(***************************************************************************)
EXTENDS NetCuts, GateFunction

(* NtkGate::addClause of each type: the value of the gate's variable.      *)
Clause(t, lits) ==
  CASE t \in {"AND", "NAND"} -> \A i \in DOMAIN lits : lits[i]
    [] t \in {"OR", "NOR"} -> \A i \in DOMAIN lits : ~lits[i]
    [] t \in {"XOR", "XNOR"} -> Odd(lits)
    [] t \in {"BUF", "NOT"} -> lits[1]

(* _satPhase as the constructor sets it, and as addClauseRec( int ) does.  *)
Inverted == {"NAND", "OR", "XNOR", "NOT"}
GateTypes == Inverted \union {"AND", "NOR", "XOR", "BUF"}
CtorPhase(t) == t \in Inverted \/ t = "CONST1"
LevelPhase(t) == t \in Inverted

(* Mutant: xnor has no phase.                                              *)
Encoded_Xnor(t, lits) == Clause(t, lits) # (t \in Inverted \ {"XNOR"})

(* The literal that the fanouts of a gate get.                             *)
Encoded(t, lits) == Clause(t, lits) # LevelPhase(t)

-----------------------------------------------------------------------------
(* The gates that a walk from a root reaches when it stops at S.           *)
Walk(f, root, S) ==
  LET above == Above(f, root, DOMAIN f, S)
  IN {root} \union above \union UNION {Range(f[g]) : g \in above}

(* addClauseRec() from the old gate; addClauseRec( int ) from the golden   *)
(* one, and the golden constants.                                          *)
OldEncoded(n, cut) == Walk(n.fanin, n.root[1], cut)
GolWalk_Short(n, low) ==  \* mutant: one level less
  Walk(n.fanin, n.root[2], {g \in DOMAIN n.fanin : Level(n.fanin)[g] <= low + 1})
GolWalk(n, low) == Walk(n.fanin, n.root[2], {g \in DOMAIN n.fanin : Level(n.fanin)[g] <= low})
GolEncoded(n, low) == GolWalk(n, low) \union n.consts

(* The function that is f, and g where f has no value.                     *)
Joined(f, g) ==
  [x \in DOMAIN f \union DOMAIN g |-> IF x \in DOMAIN f THEN f[x] ELSE g[x]]

(* The values of the gates, by F from the values of the gates in a.        *)
Values(n, a, F(_, _)) ==
  LET value[g \in DOMAIN n.fanin] ==
        IF g \in DOMAIN a THEN a[g]
        ELSE F(n.type[g], [i \in DOMAIN n.fanin[g] |-> value[n.fanin[g][i]]])
  IN value

(* No values of the golden gates in free tell the roots apart when the old *)
(* gates take the values of their partners: pairs is a function from the   *)
(* old cut to golden gates, consts the values of the golden constants.     *)
RootsEqual(n, pairs, free, consts, F(_, _)) ==
  \A a \in [free \ n.consts -> BOOLEAN] :
    LET gol == Values(n, Joined(a, consts), F)
        old == Values(n, [h \in DOMAIN pairs |-> gol[pairs[h]]], F)
    IN old[n.root[1]] = gol[n.root[2]]

(* The golden gates without clauses.                                       *)
Free(n, low) ==
  {g \in GolWalk(n, low) : Level(n.fanin)[g] <= low \/ n.fanin[g] = <<>>}

TrueConst(n) == [c \in n.consts |-> n.type[c] = "CONST1"]

(* The solver's answer; the variables of the golden constants are false.   *)
Unsat(n, pairs, low, phase) ==
  RootsEqual(n, pairs, Free(n, low), [c \in n.consts |-> FALSE # phase[c]], Encoded)
=============================================================================
