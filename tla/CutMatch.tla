------------------------------- MODULE CutMatch -------------------------------
(***************************************************************************)
(* Matching a cut of an old gate with a cut of a golden gate so that the   *)
(* golden gates, put in the place of the old ones, give the old gate the   *)
(* golden function.  Level by level the cuts of both sides are collected;  *)
(* for each old cut, pairs of similar gates are selected in order until    *)
(* one gate is left, which is tried with each golden gate that completes a *)
(* golden cut, or with a constant; the solver decides.                     *)
(*                                                                         *)
(* The selection is one recursive function.  It shares the partners of the *)
(* gates (_mapping), the number of gates without one in each golden cut    *)
(* (numGateLeft) and the indices of the cuts of each gate (_cuts).         *)
(*                                                                         *)
(* cutMatching, getGuildedCutCands2, updateSimPairList, checkCutFunc2,     *)
(* addPairToFormCut and checkCutFuncEquivWithOneGateLeft.  That the cuts   *)
(* found are the ones of CutsAt is what CutEnum shows of the enumeration.  *)
(***************************************************************************)
EXTENDS CutFunc

CONSTANTS
  OldGates,      \* the gates of the two circuits, numbered so that a gate
  GolGates,      \* comes after the ones that it reads
  Netlists,      \* the netlists to match in, see CutFunc
  SimOrders,     \* the pairs that are similar enough, most similar first
  LvThre,        \* _lv_thre
  MinCheckSize   \* minCheckSize at the start

(* The circuits share no gate; the golden constants are known; a gate      *)
(* without fanins is an input or a constant.                               *)
Sources == {"PI", "CONST0", "CONST1"}
IsNetlist(n) ==
  /\ DOMAIN n.fanin = OldGates \union GolGates
  /\ \A side \in {OldGates, GolGates} : \A g \in side : n.fanin[g] \in Seq({h \in side : h < g})
  /\ \A g \in OldGates \union GolGates :
       IF n.fanin[g] = <<>> THEN n.type[g] \in Sources ELSE n.type[g] \in GateTypes
  /\ n.root \in OldGates \X GolGates
  /\ n.merged \subseteq OldGates \X GolGates
  /\ n.consts = {g \in GolGates : n.type[g] \in {"CONST0", "CONST1"}}

ASSUME CutMatchAssumption ==
  /\ IsFiniteSet(OldGates) /\ IsFiniteSet(GolGates)
  /\ OldGates \union GolGates \subseteq Nat /\ OldGates \intersect GolGates = {}
  /\ \A n \in Netlists : IsNetlist(n)
  /\ \A s \in SimOrders : s \in Seq(OldGates \X GolGates)
  /\ LvThre \in Nat /\ MinCheckSize \in Nat

VARIABLES
  nl,            \* the netlist
  sim,           \* the order of the similar pairs
  level,
  minCheckSize,
  dups,          \* dupMerge
  dupOf,         \* the golden gates they are merged with
  rev, gol,      \* revCutList and golCutList
  oldMax,        \* rev_oldCutMaxId and gol_oldCutMaxId
  known,         \* revGates and golGates
  k,             \* the old cut being matched
  checkSize,
  cuts,          \* NtkGate::_cuts
  left,          \* numGateLeft
  mapping,       \* NtkGate::_mapping of the gates that have one
  at,            \* index, numGateLeftInCut and numConstMatch of the call
  stack,         \* the calls it was made from
  found,         \* what it returns
  phase,         \* _satPhase of the golden constants
  res,           \* resCut, with the dups it was found with
  pc

inputs == <<nl, sim>>
lists == <<dups, dupOf, rev, gol, oldMax, known>>
search == <<cuts, left, mapping, at, stack, found>>
vars == <<inputs, level, minCheckSize, lists, k, checkSize, search, phase, res, pc>>

NoMatch == [pairs |-> <<>>, dups |-> <<>>]
Start == [index |-> 1, left |-> 0, consts |-> 0]

Low(side) == Level(nl.fanin)[nl.root[side]] - level
Partners(h) == {g \in DOMAIN nl.fanin : <<h, g>> \in nl.merged}

(* markMergeCone: merged gates, and in the old netlist all that is below.  *)
MergeFlag(n) ==
  LET old == {p[1] : p \in n.merged}
  IN {p[2] : p \in n.merged} \union old \union Below(n.fanin, DOMAIN n.fanin, old)

Init ==
  /\ nl \in Netlists /\ sim \in SimOrders
  /\ level = 1 /\ minCheckSize = MinCheckSize
  /\ dups = <<>> /\ dupOf = <<>> /\ rev = <<>> /\ gol = <<>> /\ oldMax = <<0, 0>>
  /\ known = nl.consts
  /\ k = 1 /\ checkSize = 0
  /\ cuts = <<>> /\ left = <<>> /\ mapping = <<>>
  /\ at = Start /\ stack = <<>> /\ found = FALSE
  /\ phase = [c \in nl.consts |-> CtorPhase(nl.type[c])]
  /\ res = NoMatch
  /\ pc = "level"

-----------------------------------------------------------------------------
(* The cuts of one side at a level, in the order the decisions find them:  *)
(* with the lowest gate before without it.                                 *)
Earlier(S, T) == S # T /\ Min((S \ T) \union (T \ S)) \in S
InOrder(sets) ==
  [i \in 1 .. Cardinality(sets) |->
     CHOOSE S \in sets : Cardinality({T \in sets : Earlier(T, S)}) = i - 1]
CutsAt(m, root, changed) ==
  InOrder(CutsAbove(nl.fanin, root, m, minCheckSize, changed))

Mark(side, dup) ==
  MarkBottomCut(DOMAIN nl.fanin, nl.root[side],
                [fanin |-> nl.fanin, level |-> Level(nl.fanin), low |-> Low(side),
                 merged |-> MergeFlag(nl), dups |-> dup])

(* getGuildedCutCands2 and updateSimPairList, and the lists kept or        *)
(* emptied: when the dups changed, the cuts of the levels before are gone. *)
NextLevel ==
  /\ pc = "level"
  /\ LET cone == Mark(2, {}).reached
         r == Mark(1, {h \in DOMAIN nl.fanin : Partners(h) \intersect cone # {}})
         partner == [h \in Range(r.dups) |->
                       CHOOSE g \in Partners(h) \intersect cone :
                         \A g2 \in Partners(h) \intersect cone :
                           Level(nl.fanin)[g] >= Level(nl.fanin)[g2]]
         changed == r.dups # dups
         revNew == CutsAt(r, nl.root[1], changed)
         golNew == CutsAt(Mark(2, Range(partner)), nl.root[2], changed)
         revOld == IF changed THEN <<>> ELSE rev
         golOld == IF changed THEN <<>> ELSE gol
         golAll == golOld \o golNew
     IN /\ dups' = r.dups
        /\ dupOf' = partner
        /\ known' = known \union (UNION Range(revNew)) \union (UNION Range(golNew))
        /\ oldMax' = <<Len(revOld), Len(golOld)>>
        /\ rev' = revOld \o revNew
        /\ gol' = IF r.dups # <<>> /\ golAll = <<>> /\ rev' # <<>> THEN <<{}>> ELSE golAll
        /\ pc' = IF r.dups # <<>> /\ rev' = <<>> /\ golAll = <<>> THEN "done" ELSE "cut"
  /\ left' = [i \in DOMAIN gol' |-> Cardinality(gol'[i])]
  /\ mapping' = <<>>
  /\ k' = 1 /\ checkSize' = 0
  /\ UNCHANGED <<inputs, level, minCheckSize, cuts, at, stack, found, phase, res>>

(* The next old cut: a larger one takes in the golden cuts of its size.    *)
(* checkCutFunc2 encodes both sides; addClauseRec( int ) gives a constant  *)
(* that it reaches a new phase.                                            *)
CutIndices(size) ==
  [g \in known |-> {i \in DOMAIN gol : g \in gol[i] /\ Cardinality(gol[i]) <= size}]

NextCut ==
  /\ pc = "cut"
  /\ k <= Len(rev)
  /\ LET size == Cardinality(rev[k])
     IN /\ ~(size > checkSize /\ size > minCheckSize)
        /\ checkSize' = Max({size, checkSize})
        /\ cuts' = IF size > checkSize THEN CutIndices(size) ELSE cuts
        /\ at' = [Start EXCEPT !.left = size]
  /\ phase' = [c \in nl.consts |->
                 IF c \in GolWalk(nl, Low(2)) THEN LevelPhase(nl.type[c]) ELSE phase[c]]
  /\ stack' = <<>> /\ pc' = "pair"
  /\ UNCHANGED <<inputs, level, minCheckSize, lists, k, left, mapping, found, res>>

NoMoreCuts ==
  /\ pc = "cut"
  /\ k <= Len(rev) => Cardinality(rev[k]) > Max({checkSize, minCheckSize})
  /\ pc' = "end"
  /\ UNCHANGED <<inputs, level, minCheckSize, lists, k, checkSize, search, phase, res>>

-----------------------------------------------------------------------------
(* addPairToFormCut                                                        *)

(* candPairList: the similar pairs of an old gate in a set, both known.    *)
IsCand(p, old, gates) == p[1] \in old /\ {p[1], p[2]} \subseteq gates
CandPairList(pairs, old, gates) ==
  LET list[i \in Nat] ==
        IF i = 0 THEN <<>>
        ELSE IF IsCand(pairs[i], old, gates) THEN Append(list[i - 1], pairs[i])
        ELSE list[i - 1]
  IN list[Len(pairs)]
CandPairs == CandPairList(sim, rev[k] \union Range(dups), known)

Mapped(g) == g \in DOMAIN mapping \union Range(dups)
Allowed == {i \in DOMAIN gol : k > oldMax[1] \/ i > oldMax[2]}

(* Candidates for the last gate: the gate that completes a golden cut of   *)
(* the same size, and both constants when none is used yet and a golden    *)
(* cut is complete.                                                        *)
Candidates ==
  LET one == {i \in Allowed : /\ Cardinality(gol[i]) = Cardinality(rev[k]) - at.consts
                              /\ left[i] = 1}
      rest == {CHOOSE g \in gol[i] : ~Mapped(g) : i \in one}
  IN rest \union (IF at.consts = 0 /\ \E i \in Allowed : left[i] = 0 THEN nl.consts ELSE {})

(* checkCutFuncEquivWithOneGateLeft: the first candidate is taken that the *)
(* solver proves; which one is first does not matter here.                 *)
TryLastGate ==
  /\ pc = "pair"
  /\ at.left = 1
  /\ LET h == CHOOSE h \in rev[k] : ~Mapped(h)
         pairs(g) == [r \in (rev[k] \union Range(dups)) |->
                        IF r = h THEN g ELSE IF r \in Range(dups) THEN dupOf[r] ELSE mapping[r]]
         proved == {g \in Candidates : Unsat(nl, pairs(g), Low(2), phase)}
     IN IF proved = {} THEN found' = FALSE /\ UNCHANGED mapping
        ELSE found' = TRUE /\ \E g \in proved : mapping' = Joined([x \in {h} |-> g], mapping)
  /\ pc' = "return"
  /\ UNCHANGED <<inputs, level, minCheckSize, lists, k, checkSize, cuts, left, at, stack, phase, res>>

NoPairLeft ==
  /\ pc = "pair"
  /\ at.left # 1 /\ at.index > Len(CandPairs)
  /\ found' = FALSE
  /\ pc' = "return"
  /\ UNCHANGED <<inputs, level, minCheckSize, lists, k, checkSize, cuts, left, mapping, at, stack,
                 phase, res>>

(* The pair at index is selected, unless a gate of it has a partner or no  *)
(* golden cut with it can be completed.                                    *)
Possible_Strict(g) ==  \* mutant: a cut that needs each gate left is given up
  g \in nl.consts \/ \E i \in cuts[g] \intersect Allowed : left[i] - 1 < at.left - 1
Possible(g) ==
  g \in nl.consts \/ \E i \in cuts[g] \intersect Allowed : left[i] - 1 <= at.left - 1

SkipPair ==
  /\ pc = "pair"
  /\ at.left # 1 /\ at.index <= Len(CandPairs)
  /\ LET p == CandPairs[at.index] IN Mapped(p[1]) \/ Mapped(p[2]) \/ ~Possible(p[2])
  /\ at' = [at EXCEPT !.index = @ + 1]
  /\ UNCHANGED <<inputs, level, minCheckSize, lists, k, checkSize, cuts, left, mapping, stack, found,
                 phase, res, pc>>

SelectPair ==
  /\ pc = "pair"
  /\ at.left # 1 /\ at.index <= Len(CandPairs)
  /\ LET p == CandPairs[at.index]
     IN /\ ~Mapped(p[1]) /\ ~Mapped(p[2]) /\ Possible(p[2])
        /\ mapping' = Joined([g \in {p[1], p[2]} |-> IF g = p[1] THEN p[2] ELSE p[1]], mapping)
        /\ left' = [i \in DOMAIN left |-> IF i \in cuts[p[2]] THEN left[i] - 1 ELSE left[i]]
        /\ stack' = Append(stack, at)
        /\ at' = [index |-> at.index + 1, left |-> at.left - 1,
                  consts |-> IF p[2] \in nl.consts THEN at.consts + 1 ELSE at.consts]
  /\ UNCHANGED <<inputs, level, minCheckSize, lists, k, checkSize, cuts, found, phase, res, pc>>

(* Mutant: the gate is not counted again.                                  *)
Unselect_Stale ==
  /\ pc = "return"
  /\ stack # <<>>
  /\ LET call == Last(stack)
         p == CandPairs[call.index]
     IN /\ mapping' = IF found THEN mapping
                      ELSE [g \in DOMAIN mapping \ {p[1], p[2]} |-> mapping[g]]
        /\ at' = [call EXCEPT !.index = @ + 1]
        /\ pc' = IF found THEN "return" ELSE "pair"
  /\ stack' = Front(stack)
  /\ UNCHANGED <<inputs, level, minCheckSize, lists, k, checkSize, cuts, left, found, phase, res>>

(* "unselect and pick other"; with a match the partners stay.              *)
Unselect ==
  /\ pc = "return"
  /\ stack # <<>>
  /\ LET call == Last(stack)
         p == CandPairs[call.index]
     IN /\ left' = [i \in DOMAIN left |-> IF i \in cuts[p[2]] THEN left[i] + 1 ELSE left[i]]
        /\ mapping' = IF found THEN mapping
                      ELSE [g \in DOMAIN mapping \ {p[1], p[2]} |-> mapping[g]]
        /\ at' = [call EXCEPT !.index = @ + 1]
        /\ pc' = IF found THEN "return" ELSE "pair"
  /\ stack' = Front(stack)
  /\ UNCHANGED <<inputs, level, minCheckSize, lists, k, checkSize, cuts, found, phase, res>>

-----------------------------------------------------------------------------
(* cutMatching, after checkCutFunc2.                                       *)
Matched ==
  /\ pc = "return"
  /\ stack = <<>> /\ found
  /\ res' = [pairs |-> [h \in rev[k] |-> mapping[h]], dups |-> dupOf]
  /\ minCheckSize' = checkSize
  /\ pc' = "end"
  /\ UNCHANGED <<inputs, level, lists, k, checkSize, search, phase>>

NotMatched ==
  /\ pc = "return"
  /\ stack = <<>> /\ ~found
  /\ k' = k + 1
  /\ pc' = "cut"
  /\ UNCHANGED <<inputs, level, minCheckSize, lists, checkSize, search, phase, res>>

EndLevel ==
  /\ pc = "end"
  /\ level' = level + 1
  /\ pc' = IF level < LvThre THEN "level" ELSE "done"
  /\ UNCHANGED <<inputs, minCheckSize, lists, k, checkSize, search, phase, res>>

Next ==
  \/ NextLevel \/ NextCut \/ NoMoreCuts
  \/ TryLastGate \/ NoPairLeft \/ SkipPair \/ SelectPair \/ Unselect
  \/ Matched \/ NotMatched \/ EndLevel

Spec == Init /\ [][Next]_vars

-----------------------------------------------------------------------------

(* A match is right: the old gate, with the golden partners in the place   *)
(* of the gates on the cut and the merged gates, has the function of the   *)
(* golden gate, for all inputs (checkCutFunc2, whose solver sees only the  *)
(* gates of some levels).                                                  *)
GolInputs == {g \in DOMAIN nl.fanin : nl.type[g] = "PI"}
MatchSound ==
  res # NoMatch => RootsEqual(nl, Joined(res.pairs, res.dups), GolInputs, TrueConst(nl), Function)

(* Each gate that a miter names has a variable in this encoding:           *)
(* satAddMiterNtk returns -1 for the others, which is then used as a       *)
(* variable.                                                               *)
AllEncoded ==
  pc = "pair" =>
    /\ rev[k] \union Range(dups) \subseteq OldEncoded(nl, rev[k] \union Range(dups))
    /\ Range(dupOf) \union UNION Range(gol) \subseteq GolEncoded(nl, Low(2))

(* numGateLeft counts the gates of a cut without a partner, wherever the   *)
(* recursion is, and between two old cuts everything is unselected.        *)
LeftCounts ==
  /\ pc = "pair" => \A i \in DOMAIN gol : Cardinality(gol[i]) <= checkSize =>
                      left[i] = Cardinality(gol[i] \ DOMAIN mapping)
  /\ pc = "cut" => mapping = <<>> /\ \A i \in DOMAIN gol : left[i] = Cardinality(gol[i])

(* Until there is a match, each old cut of the level is matched with each  *)
(* golden cut in each way that the similar pairs allow, with constants for *)
(* missing gates: none that would be right is passed over.                 *)
Pairings(cut) ==
  {m \in [cut -> (UNION Range(gol)) \union nl.consts] :
     /\ IsInjective(m)
     /\ \E h \in cut :
          /\ \A h2 \in cut \ {h} : <<h2, m[h2]>> \in Range(sim)
          /\ m[h] \in nl.consts => nl.consts \intersect {m[h2] : h2 \in cut \ {h}} = {}}
Complete(m, j) ==
  \E i \in DOMAIN gol :
    /\ j > oldMax[1] \/ i > oldMax[2]
    /\ gol[i] \intersect nl.consts = {}
    /\ Range(m) \ nl.consts = gol[i]

AllTried ==
  pc = "end" /\ res = NoMatch =>
    \A j \in DOMAIN rev : \A m \in Pairings(rev[j]) :
      Complete(m, j) =>
        ~RootsEqual(nl, Joined(m, dupOf), Free(nl, Low(2)), TrueConst(nl), Function)
=============================================================================
