---------------------------- MODULE SelectPatch -----------------------------
(***************************************************************************)
(* CirMgr::selectPatch: which of the N candidate patches are needed.  The  *)
(* selector circuit has one select input per candidate and a miter output  *)
(* that can be 1 exactly when the old circuit, patched as the select       *)
(* inputs say, differs from the golden one.  The incremental SAT solver    *)
(* tries to switch the candidates off one after the other.                 *)
(*                                                                         *)
(* The selector is kept as the set of select assignments under which the   *)
(* miter can be 1.  solver->reset() restarts the variable numbers at 0,    *)
(* and addClauseRec numbers the miter first and then the gates of its      *)
(* cone; a gate outside the cone keeps the number 0 it was created with,   *)
(* which is the miter's.                                                   *)
(***************************************************************************)
EXTENDS Naturals

CONSTANTS
  N,            \* NtkMgr::_numMux: how many candidates there are
  FraigedAway   \* candidates whose select input fraig can drop from the cone

ASSUME SelectPatchAssumption ==
  /\ N \in Nat
  /\ FraigedAway \subseteq 1 .. N

VARIABLES
  bad,      \* the select assignments under which the miter can be 1
  inCone,   \* the candidates whose select input is in the miter's cone
  units,    \* the literals asserted in the solver, as <<variable, value>>
  legal,    \* the verdict printed before the removal
  res,      \* the selection: TRUE keeps the candidate
  i,        \* the loop index; N + 1 when the loop is over
  step

selectVars == <<bad, inCone, units, legal, res, i, step>>

Mux == 1 .. N
Assignment == [Mux -> BOOLEAN]

AllOn == [m \in Mux |-> TRUE]

-----------------------------------------------------------------------------

(* CirGate::getVar of a select input, and the value a model of the miter   *)
(* gives to a variable: every model sets the miter, variable 0, to 1.      *)
MiterVar == 0
Var(m) == IF m \in inCone THEN m ELSE MiterVar
Value(a, v) == IF v = MiterVar THEN TRUE ELSE a[v]

(* SatSolver::assumpSolve: a model that agrees with the asserted literals  *)
(* and the assumed ones.                                                   *)
Sat(assumed) ==
  \E a \in bad : \A l \in units \union assumed : Value(a, l[1]) = l[2]

(* The selector depends on a select input only if it is in the cone.       *)
Independent(b, cone) ==
  \A x, y \in Assignment :
    (\A m \in cone : x[m] = y[m]) => (x \in b <=> y \in b)

SelectInit ==
  /\ inCone \in {Mux \ S : S \in SUBSET FraigedAway}
  /\ bad \in {b \in SUBSET Assignment : Independent(b, inCone)}
  /\ units = {}
  /\ legal = FALSE
  /\ res = AllOn
  /\ i = 1
  /\ step = "encode"

(* The miter is encoded and asserted.                                      *)
Encode ==
  /\ step = "encode"
  /\ units' = {<<MiterVar, TRUE>>}
  /\ step' = "preproof"
  /\ UNCHANGED <<bad, inCone, legal, res, i>>

(* The proof with every candidate on decides nothing, it only reports.     *)
PreProof ==
  /\ step = "preproof"
  /\ legal' = ~Sat({<<Var(m), TRUE>> : m \in Mux})
  /\ step' = "remove"
  /\ UNCHANGED <<bad, inCone, units, res, i>>

(* Slips the runs must notice: the tried value is asserted in place of the *)
(* decided one, the assumptions start behind i, the loop runs once more.   *)
Remove_AssertsTried(sat) ==
  /\ res' = [res EXCEPT ![i] = sat]
  /\ units' = units \union {<<Var(i), FALSE>>}

(* Candidate i is switched off; it comes back if the circuits can differ,  *)
(* and the decision is asserted for the iterations that follow.            *)
Tried == [res EXCEPT ![i] = FALSE]

Remove(sat) ==
  /\ res' = [res EXCEPT ![i] = sat]
  /\ units' = units \union {<<Var(i), sat>>}

TryRemove_SkipsI ==
  /\ step = "remove" /\ i <= N
  /\ Remove(Sat({<<Var(j), Tried[j]>> : j \in i + 1 .. N}))
  /\ i' = i + 1
  /\ UNCHANGED <<bad, inCone, legal, step>>

TryRemove_PastEnd ==
  /\ step = "remove" /\ i <= N + 1
  /\ Remove(Sat({<<Var(j), Tried[j]>> : j \in i .. N}))
  /\ i' = i + 1
  /\ UNCHANGED <<bad, inCone, legal, step>>

TryRemove ==
  /\ step = "remove" /\ i <= N
  /\ Remove(Sat({<<Var(j), Tried[j]>> : j \in i .. N}))
  /\ i' = i + 1
  /\ UNCHANGED <<bad, inCone, legal, step>>

Finish ==
  /\ step = "remove" /\ i = N + 1
  /\ step' = "done"
  /\ UNCHANGED <<bad, inCone, units, legal, res, i>>

SelectNext == Encode \/ PreProof \/ TryRemove \/ Finish

SelectSpec == SelectInit /\ [][SelectNext]_selectVars

-----------------------------------------------------------------------------

(* The selection has one truth value per candidate, the solver literals    *)
(* are over the variables that exist.                                      *)
SelectTypeOK ==
  /\ bad \subseteq Assignment
  /\ inCone \subseteq Mux
  /\ units \subseteq (0 .. N) \X BOOLEAN
  /\ legal \in BOOLEAN
  /\ res \in Assignment
  /\ i \in 1 .. N + 1
  /\ step \in {"encode", "preproof", "remove", "done"}

(* A set of candidates reported as valid is still valid after any number   *)
(* of removals: the circuits cannot differ under the selection so far.     *)
ValidStaysValid == step \in {"remove", "done"} /\ legal => res \notin bad

(* A candidate is kept exactly when the circuits could differ without it,  *)
(* the earlier decisions made and the later candidates still on.           *)
Without(m) == [k \in Mux |-> IF k < m THEN res[k] ELSE k # m]

KeptIffNeeded == \A m \in 1 .. i - 1 : res[m] <=> Without(m) \in bad

(* The half of it that loses a solution when it fails: no candidate of a   *)
(* valid set is dropped while it is needed.                                *)
NeededIsKept == legal => \A m \in 1 .. i - 1 : Without(m) \in bad => res[m]

=============================================================================
