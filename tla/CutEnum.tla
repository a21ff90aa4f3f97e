------------------------------- MODULE CutEnum -------------------------------
(***************************************************************************)
(* The cuts of a gate, found level by level: from the lowest cut, each     *)
(* decision first takes the lowest gate on the cut and then pops it, that  *)
(* is, moves the cut above it.  A cut is found when all its gates are      *)
(* taken.  Gates known to be merged with a gate on the other side stay on  *)
(* the cut, and each cut has a gate that the levels before did not reach.  *)
(* The search is one recursive function on shared state, which each call   *)
(* has to leave as it found it.                                            *)
(*                                                                         *)
(* markDupMerge and markGolBottomCut, enumerateCuts, makeDecisionOnCut,    *)
(* recoverCut, legalizeCut and NtkGate's legalize_ functions, whose loops  *)
(* and recursion take a step for each gate they come to.                   *)
(***************************************************************************)
EXTENDS NetCuts

CONSTANTS
  N,             \* the gates are 1 .. N, by _netId: fanins before fanouts
  Fanins,        \* the netlists to enumerate: NtkGate::_fanin of each gate
  MinCheckSizes, \* what minCheckSize can be: 4, or less after a match
  Unlimited      \* the count of new gates when the merged gates changed

Gate == 1 .. N
Root == N
ASSUME CutEnumAssumption ==
  /\ N \in Nat \ {0} /\ MinCheckSizes \subseteq Nat
  /\ Unlimited \in Nat /\ Unlimited > N
  /\ \A f \in Fanins : /\ f \in [Gate -> Seq(Gate)]
                       /\ \A g \in Gate : Range(f[g]) \subseteq 1 .. (g - 1)

VARIABLES
  minCheckSize, \* no more gates than these are taken
  fanin,      \* NtkGate::_fanin
  fanout,     \* NtkGate::_fanout
  isNew,      \* _ce_new
  reached,    \* _flag = _globalFlag: the gates of the cone
  dup,        \* the gates of dupMerge that were reached
  dupMergeChange, \* the level before had other merged gates
  lowest,     \* the gates that were marked as the lowest cut
  flag,       \* _ce_flag
  covered,    \* _ce_covered
  active,     \* activeGates
  numNew,     \* numNew
  queue,      \* checkFanin, or checkFanout when a call recovers
  waiting,    \* what the recursion of legalize_checkFanin, or of
              \* legalize_checkFanout, and the loop of recoverCut have to visit
  spread,     \* q of legalize_popUp, or of legalize_checkFanout
  removed,    \* removed
  taken,      \* the gates of taken
  stack,      \* the calls of makeDecisionOnCut
  cutList,    \* cutList
  pc

inputs == <<minCheckSize, fanin, fanout, isNew, reached, dup, dupMergeChange, lowest>>
cut == <<flag, covered, active, numNew>>
lists == <<queue, waiting, spread, removed>>
vars == <<inputs, cut, lists, taken, stack, cutList, pc>>

Fanout(f) == [g \in Gate |-> SetToSeq({h \in Gate : g \in Range(f[h])})]

(* The lowest cut is legalized by the dups and then its gates; new gates   *)
(* need not be on the cuts when the dups changed.                          *)
Init ==
  /\ fanin \in Fanins /\ fanout = Fanout(fanin)
  /\ \E low \in 0 .. (Level(fanin)[Root] - 1), merged \in SUBSET (Gate \ {Root}) :
       \E dups \in SUBSET merged :
       \E m \in {MarkBottomCut(Gate, Root, [fanin |-> fanin, level |-> Level(fanin), low |-> low,
                                            merged |-> merged, dups |-> dups])} :
         /\ merged \subseteq m.reached
         /\ dupMergeChange \in BOOLEAN /\ (dupMergeChange => dups # {})
         /\ isNew = m.isNew /\ reached = m.reached /\ dup = m.dups /\ lowest = m.active
         /\ flag = m.flag /\ active = m.active
         /\ numNew = IF dupMergeChange THEN Unlimited ELSE m.numNew
  /\ minCheckSize \in MinCheckSizes
  /\ covered = [g \in Gate |-> FALSE]
  /\ queue = <<>> /\ waiting = <<>> /\ spread = <<>> /\ removed = <<>>
  /\ taken = <<>> /\ stack = <<>> /\ cutList = <<>>
  /\ pc = "enumerate"

EnumerateCuts ==
  /\ pc = "enumerate"
  /\ queue' = dup \o SetToSeq(active)
  /\ pc' = IF active = {} THEN "done" ELSE "pop"
  /\ UNCHANGED <<inputs, cut, waiting, spread, removed, taken, stack, cutList>>

-----------------------------------------------------------------------------
(* NtkGate::legalize_popUp: the cut moves above g, to those fanouts that   *)
(* are not on it or below it.                                              *)
LastNew_Early(g) == isNew[g] /\ numNew <= 2  \* mutant: only the last but one
LastNew(g) == isNew[g] /\ numNew = 1

PopUp(g) ==
  /\ numNew' = IF isNew[g] THEN numNew - 1 ELSE numNew
  /\ flag' = [flag EXCEPT ![g] = "BELOW"]
  /\ covered' = [covered EXCEPT ![g] = TRUE]
  /\ active' = active \ {g}
  /\ spread' = fanout[g]

CoverFanout ==
  /\ pc \in {"pop", "legalize"} /\ spread # <<>>
  /\ LET g == Head(spread)
     IN IF g \in reached /\ flag[g] = "BELOW" /\ ~covered[g]
        THEN /\ covered' = [covered EXCEPT ![g] = TRUE]
             /\ spread' = Tail(spread) \o fanout[g]
             /\ UNCHANGED <<flag, active, queue>>
        ELSE /\ spread' = Tail(spread)
             /\ IF g \in reached /\ flag[g] \in {"EMPTY", "ABOVE"}
                THEN /\ flag' = [flag EXCEPT ![g] = "CUT"]
                     /\ covered' = [covered EXCEPT ![g] = FALSE]
                     /\ active' = active \union {g}
                     /\ queue' = Append(queue, g)
                ELSE UNCHANGED <<flag, covered, active, queue>>
  /\ UNCHANGED <<inputs, numNew, waiting, removed, taken, stack, cutList, pc>>

(* NtkMgr::legalizeCut fails: the call that popped a gate goes on to       *)
(* recover, the search does not begin.  Its result: what was removed.      *)
Result == IF stack = <<>> THEN stack ELSE [stack EXCEPT ![Len(stack)].removed = removed']
Fail == /\ stack' = Result /\ waiting' = <<>>
        /\ pc' = IF stack = <<>> THEN "done" ELSE "return"

(* Mutants: a cut without new gates is legal; no gate is checked.          *)
LegalizeCut_Old ==
  /\ pc = "pop" /\ spread = <<>>
  /\ pc' = "legalize"
  /\ UNCHANGED <<inputs, cut, lists, taken, stack, cutList>>
LegalizeCut_Unchecked ==
  /\ pc = "pop" /\ spread = <<>>
  /\ removed' = removed /\ queue' = <<>>
  /\ IF numNew = 0 THEN Fail ELSE stack' = Result /\ UNCHANGED waiting /\ pc' = "decide"
  /\ UNCHANGED <<inputs, cut, spread, taken, cutList>>
LegalizeCut ==
  /\ pc = "pop" /\ spread = <<>>
  /\ removed' = removed
  /\ IF numNew = 0 THEN Fail ELSE pc' = "legalize" /\ UNCHANGED <<waiting, stack>>
  /\ UNCHANGED <<inputs, cut, queue, spread, taken, cutList>>

CheckNext ==
  /\ pc = "legalize" /\ spread = <<>> /\ waiting = <<>> /\ queue # <<>>
  /\ LET g == Head(queue)
     IN waiting' = IF g \in reached /\ flag[g] # "BELOW" THEN fanin[g] ELSE <<>>
  /\ queue' = Tail(queue)
  /\ UNCHANGED <<inputs, cut, spread, removed, taken, stack, cutList, pc>>

(* NtkGate::legalize_checkFanin: what is below a gate on the cut is not on *)
(* the cut.  A taken or merged gate there, or the last new one, stays.     *)
Checked(g) == pc = "legalize" /\ spread = <<>> /\ waiting # <<>> /\ g = Head(waiting)
Stays(g) == flag[g] \in {"TAKEN", "DUP"} \/ (flag[g] = "CUT" /\ LastNew(g))

IsBelow(g) ==
  /\ Checked(g) /\ (g \notin reached \/ flag[g] = "BELOW")
  /\ waiting' = Tail(waiting)
  /\ UNCHANGED <<inputs, cut, queue, spread, removed, taken, stack, cutList, pc>>

MoveBelow(g) ==
  /\ Checked(g) /\ g \in reached /\ flag[g] \in {"EMPTY", "ABOVE"}
  /\ flag' = [flag EXCEPT ![g] = "BELOW"] /\ covered' = [covered EXCEPT ![g] = FALSE]
  /\ waiting' = fanin[g] \o Tail(waiting)
  /\ UNCHANGED <<inputs, active, numNew, queue, spread, removed, taken, stack, cutList, pc>>

RemoveFromCut(g) ==
  /\ Checked(g) /\ g \in reached /\ flag[g] = "CUT" /\ ~LastNew(g)
  /\ removed' = Append(removed, g)
  /\ PopUp(g)
  /\ waiting' = fanin[g] \o Tail(waiting)
  /\ UNCHANGED <<inputs, queue, taken, stack, cutList, pc>>

CannotRemove(g) ==
  /\ Checked(g) /\ g \in reached /\ Stays(g)
  /\ removed' = Append(removed, g)
  /\ Fail
  /\ UNCHANGED <<inputs, cut, queue, spread, taken, cutList>>

CheckFanin == \E g \in Gate : IsBelow(g) \/ MoveBelow(g) \/ RemoveFromCut(g) \/ CannotRemove(g)

Legal ==
  /\ pc = "legalize" /\ spread = <<>> /\ waiting = <<>> /\ queue = <<>>
  /\ removed' = removed /\ stack' = Result
  /\ pc' = "decide"
  /\ UNCHANGED <<inputs, cut, queue, waiting, spread, taken, cutList>>

-----------------------------------------------------------------------------
(* makeDecisionOnCut: "take this".                                         *)
TooLong ==
  /\ pc = "decide"
  /\ Len(taken) >= minCheckSize
  /\ pc' = IF stack = <<>> THEN "done" ELSE "return"
  /\ UNCHANGED <<inputs, cut, lists, taken, stack, cutList>>

Take ==
  /\ pc = "decide"
  /\ Len(taken) < minCheckSize
  /\ IF active = {}
     THEN /\ pc' = "abort"
          /\ UNCHANGED <<flag, active, taken, stack, cutList>>
     ELSE LET g == Min(active)
              rest == active \ {g}
          IN /\ active' = rest /\ flag' = [flag EXCEPT ![g] = "TAKEN"]
             /\ taken' = Append(taken, g)
             /\ stack' = Append(stack, [gate |-> g, removed |-> <<>>, popped |-> FALSE,
                                        before |-> [flag |-> flag, active |-> active,
                                                    numNew |-> numNew]])
             /\ cutList' = IF rest = {} THEN Append(cutList, taken') ELSE cutList
             /\ pc' = IF rest = {} THEN "return" ELSE "decide"
  /\ UNCHANGED <<inputs, covered, numNew, lists>>

(* "pop this": the decisions above g, or none when g cannot be popped.     *)
(* Mutant: the gate stays taken.                                           *)
Pop_Taken ==
  /\ pc = "return"
  /\ ~Last(stack).popped
  /\ stack' = [stack EXCEPT ![Len(stack)].popped = TRUE]
  /\ LET g == Last(stack).gate
     IN IF LastNew(g)
        THEN /\ flag' = [flag EXCEPT ![g] = "CUT"] /\ active' = active \union {g}
             /\ UNCHANGED <<covered, numNew, spread, pc>>
        ELSE PopUp(g) /\ pc' = "pop"
  /\ removed' = <<>>
  /\ UNCHANGED <<inputs, queue, waiting, taken, cutList>>
Pop ==
  /\ pc = "return"
  /\ ~Last(stack).popped
  /\ stack' = [stack EXCEPT ![Len(stack)].popped = TRUE]
  /\ taken' = Front(taken)
  /\ LET g == Last(stack).gate
     IN IF LastNew(g)
        THEN /\ flag' = [flag EXCEPT ![g] = "CUT"] /\ active' = active \union {g}
             /\ UNCHANGED <<covered, numNew, spread, pc>>
        ELSE PopUp(g) /\ pc' = "pop"
  /\ removed' = <<>>
  /\ UNCHANGED <<inputs, queue, waiting, cutList>>

(* "recover": the gate that was popped and what was removed with it.       *)
Recover ==
  /\ pc = "return"
  /\ Last(stack).popped
  /\ queue' = <<>> /\ waiting' = <<Last(stack).gate>> \o Last(stack).removed
  /\ pc' = "recover"
  /\ UNCHANGED <<inputs, cut, spread, removed, taken, stack, cutList>>

-----------------------------------------------------------------------------
(* NtkGate::legalize_popDown: g is on the cut again.                       *)
(* Mutant: a gate that is back on the cut is not counted.                  *)
PutBack_Uncounted(g) ==
  /\ flag' = [flag EXCEPT ![g] = "CUT"] /\ covered' = [covered EXCEPT ![g] = FALSE]
  /\ active' = active \union {g}
  /\ UNCHANGED numNew
PutBack(g) ==
  /\ flag' = [flag EXCEPT ![g] = "CUT"] /\ covered' = [covered EXCEPT ![g] = FALSE]
  /\ active' = active \union {g}
  /\ numNew' = IF isNew[g] THEN numNew + 1 ELSE numNew

PopDown ==
  /\ pc = "recover" /\ waiting # <<>>
  /\ LET g == Head(waiting)
     IN IF flag[g] \in {"CUT", "TAKEN", "DUP"} THEN UNCHANGED cut ELSE PutBack(g)
  /\ queue' = Append(queue, Head(waiting)) /\ waiting' = Tail(waiting)
  /\ UNCHANGED <<inputs, spread, removed, taken, stack, cutList, pc>>

(* NtkMgr::recoverCut                                                      *)
RecoverCut ==
  /\ pc = "recover" /\ waiting = <<>>
  /\ pc' = "fanouts"
  /\ UNCHANGED <<inputs, cut, lists, taken, stack, cutList>>

CheckNextFanouts ==
  /\ pc = "fanouts" /\ spread = <<>> /\ waiting = <<>> /\ queue # <<>>
  /\ LET g == Head(queue)
     IN waiting' = IF g \in reached /\ flag[g] # "ABOVE" THEN fanout[g] ELSE <<>>
  /\ queue' = Tail(queue)
  /\ UNCHANGED <<inputs, cut, spread, removed, taken, stack, cutList, pc>>

(* NtkGate::legalize_checkFanout: what is above a gate on the cut is not   *)
(* on the cut; the fanins of what is removed are, unless they are covered. *)
CheckFanout ==
  /\ pc = "fanouts" /\ spread = <<>> /\ waiting # <<>>
  /\ LET g == Head(waiting)
     IN IF g \notin reached \/ flag[g] = "ABOVE"
        THEN waiting' = Tail(waiting) /\ UNCHANGED <<flag, covered, active, spread, pc>>
        ELSE IF flag[g] \in {"TAKEN", "DUP"}
        THEN pc' = "abort" /\ UNCHANGED <<flag, covered, active, spread, waiting>>
        ELSE /\ flag' = [flag EXCEPT ![g] = "ABOVE"]
             /\ covered' = [covered EXCEPT ![g] = (flag[g] = "CUT")]
             /\ active' = active \ {g}
             /\ spread' = IF flag[g] = "CUT" THEN fanin[g] ELSE <<>>
             /\ waiting' = fanout[g] \o Tail(waiting)
             /\ UNCHANGED pc
  /\ UNCHANGED <<inputs, numNew, queue, removed, taken, stack, cutList>>

CoverFanin ==
  /\ pc = "fanouts" /\ spread # <<>>
  /\ LET g == Head(spread)
     IN IF g \in reached /\ flag[g] = "ABOVE" /\ ~covered[g]
        THEN /\ covered' = [covered EXCEPT ![g] = TRUE]
             /\ spread' = Tail(spread) \o fanin[g]
             /\ UNCHANGED <<flag, active, numNew, queue>>
        ELSE /\ spread' = Tail(spread)
             /\ IF g \in reached /\ flag[g] \in {"EMPTY", "BELOW"}
                THEN PutBack(g) /\ queue' = Append(queue, g)
                ELSE UNCHANGED <<cut, queue>>
  /\ UNCHANGED <<inputs, waiting, removed, taken, stack, cutList, pc>>

Recovered ==
  /\ pc = "fanouts" /\ spread = <<>> /\ waiting = <<>> /\ queue = <<>>
  /\ stack' = Front(stack)
  /\ pc' = IF Cardinality(active) # Cardinality(Last(stack).before.active) THEN "abort"
           ELSE IF Len(stack) = 1 THEN "done" ELSE "return"
  /\ UNCHANGED <<inputs, cut, lists, taken, cutList>>

Next ==
  \/ EnumerateCuts \/ CoverFanout \/ LegalizeCut \/ CheckNext \/ CheckFanin \/ Legal
  \/ TooLong \/ Take \/ Pop
  \/ Recover \/ PopDown \/ RecoverCut \/ CheckNextFanouts \/ CheckFanout \/ CoverFanin \/ Recovered
Spec == Init /\ [][Next]_vars

-----------------------------------------------------------------------------
(* The active gates are what the flags say, and so are the taken and the   *)
(* merged ones, wherever the search is.                                    *)
TypeOK ==
  /\ flag \in [Gate -> {"EMPTY", "ABOVE", "BELOW", "CUT", "TAKEN", "DUP"}]
  /\ covered \in [Gate -> BOOLEAN]
  /\ active = {g \in Gate : flag[g] = "CUT"}
  /\ numNew \in Nat
  /\ minCheckSize \in Nat
  /\ IsInjective(taken) /\ Len(taken) <= minCheckSize
  /\ Range(taken) = {g \in Gate : flag[g] = "TAKEN"}
  /\ Range(dup) = {g \in Gate : flag[g] = "DUP"}
  /\ pc \in {"enumerate", "pop", "legalize", "decide", "return", "recover", "fanouts", "done",
             "abort"}

(* No assertion of the search fails: there is a gate on the cut to decide  *)
(* on, and a recovery meets no taken gate and ends with as many gates.     *)
NeverAborts == pc # "abort"

(* A decision leaves the cut that it found ("Recover to cut"), gate by     *)
(* gate, with the same number of new gates: what is decided next starts    *)
(* from there.                                                             *)
Restored ==
  [][Recovered => /\ active' = Last(stack).before.active
                  /\ numNew' = Last(stack).before.numNew
                  /\ \A g \in reached : flag'[g] = Last(stack).before.flag[g]]_vars

Found == {Range(cutList[k]) : k \in 1 .. Len(cutList)}
Cuts ==
  CutsAbove(fanin, Root, [reached |-> reached, isNew |-> isNew, dups |-> dup, active |-> lowest],
            minCheckSize, dupMergeChange)

(* What is found is a cut: with the dups, it separates the root from the   *)
(* inputs of the cone, no gate of it is below another, and it has a gate   *)
(* that the levels before did not reach, unless the dups changed.          *)
FoundAreCuts == Found \subseteq Cuts

(* Every such cut at or above the lowest one is found, unless it has more  *)
(* than minCheckSize gates, although the search only ever moves the cut    *)
(* that it has.                                                            *)
AllFound == pc = "done" => Cuts \subseteq Found
=============================================================================
