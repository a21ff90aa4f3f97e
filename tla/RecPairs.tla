------------------------------- MODULE RecPairs -------------------------------
(***************************************************************************)
(* Rectification pairs: which input pins of the old netlist are to read a  *)
(* golden gate instead of the gate they read now, how the selector numbers *)
(* these candidates, and what is left of them after the selection.         *)
(*                                                                         *)
(* A pin is <<gate, position>>.  A pair old gate -> golden gate is kept    *)
(* three times: on the pins (_recPair_fanin), on the old gate              *)
(* (_recPair_fanout) and as a count (_recCnt); the selector gives each     *)
(* entry of _recPair_fanout a mux, and selectRecPair walks the same lists  *)
(* to apply the verdicts.  With option r golden pins are also made to read *)
(* old gates (backward patches), with the same addRecPair.                 *)
(*                                                                         *)
(* What cut matching finds is an input: a cut is the set of gates flagged  *)
(* between a gate and its cut, and the pairs on the cut.                   *)
(***************************************************************************)
EXTENDS Integers, Sequences, FiniteSets, SequencesExt

CONSTANTS
  Old,         \* the gates of the old netlist, the dummy outputs among them
  Gol,         \* the gates of the golden netlist
  Fanin,       \* NtkGate::_fanin
  Level,       \* NtkGate::_level of the old gates
  Merged,      \* the pairs isMergedWith is true of, in both directions
  MergeFlag,   \* the gates with _mergeFlag
  POs,         \* the outputs, as <<dummy output, old gate, golden gate>>
  Cuts,        \* what cutMatching can return: [cone, pairs]
  OptionsR,    \* the values of debug_r: golden pins may read old gates too
  BwdCuts,     \* the backward cuts of cutMatchingWithFraig
  MaxCuts,     \* bound on the cuts matched between two calls of reset
  MaxRounds,   \* bound on the searches between two calls of reset
  None         \* no gate

Gate == Old \union Gol
Pins == UNION {{g} \X DOMAIN Fanin[g] : g \in Gate}
Reads(p) == Fanin[p[1]][p[2]]
FanoutPins(g) == {p \in Pins : Reads(p) = g}

(* The pin addRecPair stops at: the first one of a gate that reads g.      *)
FirstPins(g) == {p \in FanoutPins(g) : \A q \in FanoutPins(g) : q[1] = p[1] => p[2] <= q[2]}

(* An output is a net of its own, which only its dummy output need read;   *)
(* the gates of a cut are read in the cone, and the search for a cut goes  *)
(* from a gate to its fanins, so it meets no dummy output.                 *)
ASSUME RecPairsAssumption ==
  /\ OptionsR \subseteq BOOLEAN
  /\ IsFiniteSet(Gate) /\ Old \intersect Gol = {} /\ None \notin Gate
  /\ Fanin \in [Gate -> Seq(Gate)]
  /\ \A p \in Pins : p[1] \in Old <=> Reads(p) \in Old
  /\ POs \in Seq(Old \X Old \X Gol)
  /\ \A k \in DOMAIN POs :
       /\ Fanin[POs[k][1]] = <<POs[k][2]>>
       /\ FanoutPins(POs[k][1]) = {}
       /\ \A i \in DOMAIN POs : POs[i][2] = POs[k][2] => i = k
  /\ Cuts \subseteq [cone : SUBSET Old, pairs : Seq(Old \X Gol)]
  /\ BwdCuts \subseteq [cone : SUBSET Gol, pairs : Seq(Gol \X Old)]
  /\ \A cut \in Cuts \union BwdCuts :
       /\ \A k \in DOMAIN cut.pairs : FanoutPins(cut.pairs[k][1]) # {}
       /\ \A k \in DOMAIN POs :
            /\ POs[k][1] \notin cut.cone
            /\ \A i \in DOMAIN cut.pairs : cut.pairs[i][2] # POs[k][1]

VARIABLES
  optionR,    \* debug_r
  rp,         \* [fanin, fanout, cnt, list, bwdList]: the pairs, see below
  bwdMap,     \* _bwdPatchMap, whose lengths are the gates' _numBwdPatch
  muxId,      \* NtkGate::_muxId
  res,        \* CirMgr::selectPatch's verdict on each mux, until it is applied
  cuts,       \* how many cuts were matched
  round,
  pc

vars == <<optionR, rp, bwdMap, muxId, res, cuts, round, pc>>

NoPairs(bwdList) ==
  [fanin |-> [p \in Pins |-> None],       \* _recPair_fanin
   fanout |-> [g \in Gate |-> <<>>],      \* _recPair_fanout
   cnt |-> [g \in Gate |-> 0],            \* _recCnt
   list |-> <<>>,                         \* _recPairList
   bwdList |-> bwdList]                   \* _bwdPatchList

-----------------------------------------------------------------------------
(* identifyRecPairs                                                        *)

(* Adding a pair: the gate and the golden gate (for a backward patch, the  *)
(* golden gate and the old gate), and the gates that are flagged.          *)
Adds(cut) ==
  [k \in DOMAIN cut.pairs |->
     [gate |-> cut.pairs[k][1], rec |-> cut.pairs[k][2], cone |-> cut.cone]]

(* The flags of an output are those of all outputs so far.                 *)
OutputAdds ==
  [k \in DOMAIN POs |->
     [gate |-> POs[k][2], rec |-> POs[k][3], cone |-> {POs[i][1] : i \in 1 .. k}]]

(* Mutant: a later pair takes the pins of an earlier one.                  *)
FreePins_Overwrite(r, add) ==
  {p \in FirstPins(add.gate) : p[1] \in add.cone \ MergeFlag}

(* The pins addRecPair gives to a pair: in flagged gates that are not      *)
(* merged themselves, where no earlier pair is ("keep the original rec").  *)
FreePins(r, add) ==
  {p \in FirstPins(add.gate) : p[1] \in add.cone \ MergeFlag /\ r.fanin[p] = None}

Put(fanin, pins, rec) == [p \in Pins |-> IF p \in pins THEN rec ELSE fanin[p]]

(* The first pair of a gate puts it into _recPairList or _bwdPatchList.    *)
Listed(r, g) ==
  IF r.fanout[g] # <<>> THEN r
  ELSE IF g \in Old THEN [r EXCEPT !.list = Append(@, g)]
  ELSE [r EXCEPT !.bwdList = Append(@, g)]

(* Mutant: the pair is noted once for each time it is found.               *)
Noted_EachTime(r, g, rec) == [Listed(r, g) EXCEPT !.fanout[g] = Append(@, rec)]

Noted(r, g, rec) ==
  IF rec \in Range(r.fanout[g]) THEN r
  ELSE [Listed(r, g) EXCEPT !.fanout[g] = Append(@, rec)]

(* Mutant: "no new rec pair is needed" does not return.                    *)
AddRecPair_Unneeded(r, add) ==
  LET pins == FreePins(r, add)
      put == [r EXCEPT !.fanin = Put(@, pins, add.rec), !.cnt[add.gate] = @ + Cardinality(pins)]
  IN IF <<add.gate, add.rec>> \in Merged THEN r ELSE Noted(put, add.gate, add.rec)

AddRecPair(r, add) ==
  LET pins == FreePins(r, add)
      put == [r EXCEPT !.fanin = Put(@, pins, add.rec), !.cnt[add.gate] = @ + Cardinality(pins)]
  IN IF <<add.gate, add.rec>> \in Merged \/ (pins = {} /\ FanoutPins(add.gate) # {})
     THEN r ELSE Noted(put, add.gate, add.rec)

AddPairs(r, adds) == FoldLeft(AddRecPair, r, adds)

(* checkLoopIfPatched: no gate of the cut that reads the pair's gate is in *)
(* the cone of its rec, by what the gates read and by their pairs.         *)
ReadBy(r, g) ==
  {Fanin[g][k] : k \in DOMAIN Fanin[g]}
    \union ({r.fanin[<<g, k>>] : k \in DOMAIN Fanin[g]} \ {None})

Widen(R, r) == UNION {{g} \union ReadBy(r, g) : g \in R}

Cone(r, g) == FoldLeft(Widen, {g}, [k \in 1 .. Cardinality(Gate) |-> r])

LoopFree(r, add) ==
  \A p \in FanoutPins(add.gate) : p[1] \in add.cone => p[1] \notin Cone(r, add.rec)

(* Mutant: the pairs are only checked with the pins they had before.       *)
AddUnlessLoop_Fanins(r, add) ==
  IF optionR /\ ~LoopFree([r EXCEPT !.fanin = [p \in Pins |-> None]], add) THEN r
  ELSE AddRecPair(r, add)

(* With option r a pair that would close a loop is left out.               *)
AddUnlessLoop(r, add) == IF optionR /\ ~LoopFree(r, add) THEN r ELSE AddRecPair(r, add)

AddLoopFree(r, adds) == FoldLeft(AddUnlessLoop, r, adds)

(* checkRecPair: no pin of the cut is kept by another pair.                *)
CheckRecPair(r, add) ==
  \/ <<add.gate, add.rec>> \in Merged
  \/ \A p \in FirstPins(add.gate) :
       p[1] \in add.cone \ MergeFlag => r.fanin[p] \in {None, add.rec}

Init ==
  /\ optionR \in OptionsR
  /\ rp = NoPairs(<<>>)
  /\ bwdMap = [g \in Old |-> <<>>]
  /\ muxId = [g \in Old |-> 0]
  /\ res = <<>>
  /\ cuts = 0
  /\ round = 1
  /\ pc = "outputs"

(* The outputs come first.                                                 *)
PairOutputs ==
  /\ pc = "outputs"
  /\ rp' = AddPairs([rp EXCEPT !.list = <<>>], OutputAdds)
  /\ pc' = "cuts"
  /\ UNCHANGED <<optionR, bwdMap, muxId, res, cuts, round>>

Found(cut) == \E g \in cut.cone : rp.fanout[g] # <<>> /\ g \notin MergeFlag

(* A pair behind a found one; all pairs of a cut are checked before the    *)
(* first is added.                                                         *)
MatchCut ==
  /\ pc = "cuts"
  /\ cuts < MaxCuts
  /\ \E cut \in Cuts :
       /\ Found(cut)
       /\ \A k \in DOMAIN cut.pairs : CheckRecPair(rp, Adds(cut)[k])
       /\ rp' = AddLoopFree(rp, Adds(cut))
  /\ cuts' = cuts + 1
  /\ UNCHANGED <<optionR, bwdMap, muxId, res, round, pc>>

(* With option r: the end of cutMatchingWithFraig, and the cut it returns. *)
(* fraigCutFunc has checked each backward patch for loops, one by one.     *)
MatchCutWithFraig ==
  /\ pc = "cuts"
  /\ optionR
  /\ cuts < MaxCuts
  /\ \E bwd \in BwdCuts, cut \in Cuts :
       /\ Found(cut)
       /\ \A k \in DOMAIN bwd.pairs : LoopFree(rp, Adds(bwd)[k])
       /\ rp' = AddLoopFree(AddPairs(rp, Adds(bwd)), Adds(cut))
  /\ cuts' = cuts + 1
  /\ UNCHANGED <<optionR, bwdMap, muxId, res, round, pc>>

(* checkBwdPatches: the backward patches of each old gate, in the order of *)
(* _bwdPatchList; a gate that has no pair of its own joins the list.       *)
AddBwd(patches, gol) ==
  [g \in Old |-> IF g \in Range(rp.fanout[gol]) THEN Append(patches[g], gol) ELSE patches[g]]

BwdMap == FoldLeft(AddBwd, [g \in Old |-> <<>>], rp.bwdList)

Joining(patches) == {g \in Old : patches[g] # <<>> /\ rp.fanout[g] = <<>>}

(* The list in an order std::sort can leave it in.                         *)
Sorted(s) ==
  LET orders == {f \in [DOMAIN s -> DOMAIN s] : IsInjective(f)}
  IN {t \in {[k \in DOMAIN s |-> s[f[k]]] : f \in orders} :
        \A i, k \in DOMAIN s : i < k => Level[t[i]] >= Level[t[k]]}

(* The search ends, by itself or by a timeout.                             *)
EndIdentify ==
  /\ pc = "cuts"
  /\ bwdMap' = BwdMap
  /\ \E t \in Sorted(rp.list \o SetToSeq(Joining(BwdMap))) : rp' = [rp EXCEPT !.list = t]
  /\ pc' = "build"
  /\ UNCHANGED <<optionR, muxId, res, cuts, round>>
-----------------------------------------------------------------------------
(* buildSelector: the nets of the muxes                                    *)

NumBwd(g) == Len(bwdMap[g])
NumMuxOf(g) == Len(rp.fanout[g]) + NumBwd(g)
MuxBegin == Cardinality(Gate)

(* Mutant: one net for each mux.                                           *)
NumberMux_OneNet(s, g) ==
  IF NumMuxOf(g) = 0 THEN s
  ELSE [next |-> s.next + NumMuxOf(g), id |-> [s.id EXCEPT ![g] = s.next]]

(* Two nets for each mux, its output and its select input, gate after gate.*)
NumberMux(s, g) ==
  IF NumMuxOf(g) = 0 THEN s
  ELSE [next |-> s.next + 2 * NumMuxOf(g), id |-> [s.id EXCEPT ![g] = s.next]]

Numbering == FoldLeft(NumberMux, [next |-> MuxBegin, id |-> muxId], rp.list)
NumMux == (Numbering.next - MuxBegin) \div 2

BuildSelector ==
  /\ pc = "build"
  /\ muxId' = Numbering.id
  /\ res' \in [1 .. NumMux -> BOOLEAN]
  /\ pc' = "select"
  /\ UNCHANGED <<optionR, rp, bwdMap, cuts, round>>

(* The first place of e in s.                                              *)
Pos(s, e) == CHOOSE k \in DOMAIN s : s[k] = e /\ \A i \in 1 .. k - 1 : s[i] # e

(* Mutant: the backward muxes are not skipped.                             *)
SelGetNet_NoBwd(g, rec) == muxId[g] + 2 * (Pos(rp.fanout[g], rec) - 1)

(* selGetNet: the net a pin of an old gate reads for its pair; getBwdPatch-*)
(* Mux: the net a pin of a golden gate reads.                              *)
SelGetNet(g, rec) == muxId[g] + 2 * (NumBwd(g) + Pos(rp.fanout[g], rec) - 1)
BwdPatchMux(g, gol) == muxId[g] + 2 * (Pos(bwdMap[g], gol) - 1)

(* The net an output with a pair is compared on.                           *)
OutputNet(g, rec) == muxId[g] + NumBwd(g) + Pos(rp.fanout[g], rec) - 1

-----------------------------------------------------------------------------
(* NtkMgr::selectPatch                                                     *)

(* The pins a backward patch gol -> g loses: in each gate that reads gol,  *)
(* as many pins as read gol, whichever of its pins are on g.               *)
BwdPins(fanin, g, gol) ==
  {p \in Pins :
     /\ fanin[p] = g
     /\ Cardinality({q \in Pins : q[1] = p[1] /\ q[2] < p[2] /\ fanin[q] = g})
          < Cardinality({q \in FanoutPins(gol) : q[1] = p[1]})}

(* A golden gate listed twice in _bwdPatchList is dropped twice.            *)
Without(s, g) == IF g \in Range(s) THEN RemoveAt(s, Pos(s, g)) ELSE s

Muxes(kind, g, others) == [k \in DOMAIN others |-> <<kind, g, others[k]>>]

(* Mutant: a backward patch is kept when its mux must stay on.             *)
DropBwd_Swapped(s, mux) ==
  LET g == mux[2]
      gol == mux[3]
  IN IF res[s.index] THEN [s EXCEPT !.index = @ + 1]
     ELSE [s EXCEPT !.index = @ + 1,
                    !.r.fanin = Put(@, BwdPins(@, g, gol), None),
                    !.r.fanout[gol] = Without(@, g)]

(* selectRecPair: s carries the pairs, the index into res, the pairs kept  *)
(* of the gate and the new list.  A backward patch is kept when its mux    *)
(* can be switched off.                                                    *)
DropBwd(s, mux) ==
  LET g == mux[2]
      gol == mux[3]
  IN IF ~res[s.index] THEN [s EXCEPT !.index = @ + 1]
     ELSE [s EXCEPT !.index = @ + 1,
                    !.r.fanin = Put(@, BwdPins(@, g, gol), None),
                    !.r.fanout[gol] = Without(@, g)]

(* A pair is kept when its mux cannot be switched off.                     *)
DropFwd(s, mux) ==
  LET g == mux[2]
      rec == mux[3]
      pins == {p \in FanoutPins(g) : s.r.fanin[p] = rec}
  IN IF res[s.index] THEN [s EXCEPT !.index = @ + 1, !.kept = Append(@, rec)]
     ELSE [s EXCEPT !.index = @ + 1,
                    !.r.fanin = Put(@, pins, None),
                    !.r.cnt[g] = @ - Cardinality(pins)]

SelectRecPair(s, g) ==
  LET bwd == FoldLeft(DropBwd, s, Muxes("bwd", g, bwdMap[g]))
      fwd == FoldLeft(DropFwd, [bwd EXCEPT !.kept = <<>>], Muxes("fwd", g, bwd.r.fanout[g]))
  IN [fwd EXCEPT !.r.fanout[g] = fwd.kept,
                 !.list = IF fwd.kept = <<>> THEN @ ELSE Append(@, g)]

Selected ==
  FoldLeft(SelectRecPair, [r |-> rp, index |-> 1, kept |-> <<>>, list |-> <<>>], rp.list)

SelectPatch ==
  /\ pc = "select"
  /\ rp' = [Selected.r EXCEPT !.list = Selected.list]
  /\ res' = <<>>
  /\ pc' = "output"
  /\ UNCHANGED <<optionR, bwdMap, muxId, cuts, round>>

(* Mutant: the pins keep their pairs.                                      *)
ResetRecPair_KeepsPins ==
  /\ pc = "output"
  /\ round < MaxRounds
  /\ rp' = [NoPairs(rp.bwdList) EXCEPT !.fanin = rp.fanin]
  /\ round' = round + 1
  /\ pc' = "outputs"
  /\ UNCHANGED <<optionR, bwdMap, muxId, res, cuts>>

(* resetRecPair: the backward patch list and map stay, whatever the option,*)
(* so that a golden gate paired again is listed again.                     *)
ResetRecPair ==
  /\ pc = "output"
  /\ round < MaxRounds
  /\ rp' = NoPairs(rp.bwdList)
  /\ round' = round + 1
  /\ pc' = "outputs"
  /\ UNCHANGED <<optionR, bwdMap, muxId, res, cuts>>

Next ==
  \/ PairOutputs \/ MatchCut \/ MatchCutWithFraig \/ EndIdentify
  \/ BuildSelector \/ SelectPatch \/ ResetRecPair

Spec == Init /\ [][Next]_vars

-----------------------------------------------------------------------------

OldPins == {p \in Pins : p[1] \in Old}
GolPins == {p \in Pins : p[1] \in Gol}

(* The order in which selectPatch hands out the verdicts.                  *)
MuxesOf(g) == Muxes("bwd", g, bwdMap[g]) \o Muxes("fwd", g, rp.fanout[g])
AddMuxes(s, g) == s \o MuxesOf(g)
Walk == FoldLeft(AddMuxes, <<>>, rp.list)
Verdict(kind, g, other) == res[Pos(Walk, <<kind, g, other>>)]
MuxNet(kind, g, other) == MuxBegin + 2 * (Pos(Walk, <<kind, g, other>>) - 1)

(* Each pin the selector writes reads the output of the mux whose verdict  *)
(* selectRecPair applies to the pin's pair: nets are numbered by muxId,    *)
(* position and _numBwdPatch, verdicts by walking the list (buildSelector, *)
(* selGetNet, getBwdPatchMux, selectRecPair).                              *)
NetsMatchVerdicts ==
  pc = "select" =>
    /\ \A p \in OldPins :
         LET g == Reads(p)
             rec == rp.fanin[p]
         IN rec # None =>
              /\ rec \in Range(rp.fanout[g])
              /\ <<"fwd", g, rec>> \in Range(Walk)
              /\ SelGetNet(g, rec) = MuxNet("fwd", g, rec)
    /\ \A p \in GolPins :
         LET g == rp.fanin[p]
             gol == Reads(p)
         IN g # None =>
              /\ <<"bwd", g, gol>> \in Range(Walk)
              /\ BwdPatchMux(g, gol) = MuxNet("bwd", g, gol)

(* addRecPair has put gol into _bwdPatchList twice: in two searches.       *)
ListedTwice(gol) ==
  \E i, k \in DOMAIN rp.bwdList : i # k /\ rp.bwdList[i] = gol /\ rp.bwdList[k] = gol

(* Every mux is some pin's: the select input of another one would be out-  *)
(* side the cone of the miter.  Only the mux of a backward patch is ever   *)
(* built twice, when its golden gate is listed twice (addRecPair, check-   *)
(* BwdPatches, buildSelector); by NetsMatchVerdicts pins read the first.   *)
EveryMuxRead ==
  pc = "select" =>
    /\ \A i, k \in DOMAIN Walk :
         i # k /\ Walk[i] = Walk[k] => Walk[i][1] = "bwd" /\ ListedTwice(Walk[i][3])
    /\ \A c \in Range(Walk) :
         IF c[1] = "fwd" THEN \E p \in FanoutPins(c[2]) : rp.fanin[p] = c[3]
                         ELSE \E p \in FanoutPins(c[3]) : rp.fanin[p] = c[2]

(* What ntkMgr.h calls "the mapping of bwdpatch to mux id" gives a backward*)
(* patch one mux.  A second search with option r gives it another, which   *)
(* no pin reads: resetRecPair leaves _bwdPatchList as it is.               *)
OneMuxPerPatch == pc = "select" => \A g \in Old : IsInjective(bwdMap[g])

(* The other fanins of p's golden gate have no patch to p's old gate.      *)
Alone(p) ==
  \A q \in Pins :
    q[1] = p[1] /\ Reads(q) # Reads(p) => rp.fanin[p] \notin Range(rp.fanout[Reads(q)])

(* A mux of the backward patch gol -> g can stay on: the patch is dropped. *)
BwdDropped(g, gol) == \E k \in DOMAIN Walk : Walk[k] = <<"bwd", g, gol>> /\ res[k]

BwdPinLeft(p) == IF BwdDropped(rp.fanin[p], Reads(p)) THEN None ELSE rp.fanin[p]

(* The pairs that are left are the ones whose verdict keeps them, on every *)
(* pin; the others are gone from every pin.  selectRecPair drops a backward*)
(* patch by the old gate alone, so of golden pins this is said when no     *)
(* other fanin of the gate is patched to that old gate.                    *)
SelectionApplied ==
  [][pc = "select" =>
       /\ \A p \in OldPins :
            rp.fanin[p] # None =>
              rp'.fanin[p] = IF Verdict("fwd", Reads(p), rp.fanin[p]) THEN rp.fanin[p] ELSE None
       /\ \A p \in GolPins :
            rp.fanin[p] # None /\ Alone(p) => rp'.fanin[p] = BwdPinLeft(p)]_vars

(* selectRecPair takes a backward patch from its pins "if not taken", and  *)
(* only then.  When a golden gate has two patches to the same old gate, it *)
(* takes the first pin on that gate, which can be the other patch's.       *)
BwdSelectionApplied ==
  [][pc = "select" =>
       \A p \in GolPins : rp.fanin[p] # None => rp'.fanin[p] = BwdPinLeft(p)]_vars

(* _recCnt counts the pins that read a pair of the gate; a gate whose      *)
(* count reaches its fanout (IsAllPatched) is read by no unpatched pin.    *)
CountMatches ==
  \A g \in Old :
    /\ rp.cnt[g] = Cardinality({p \in FanoutPins(g) : rp.fanin[p] # None})
    /\ rp.cnt[g] >= Cardinality(FanoutPins(g)) =>
         \A p \in FanoutPins(g) : rp.fanin[p] # None

(* The selection leaves the list, the lists of the gates and the pins with *)
(* the same pairs, which the patch writer takes from all three; the list   *)
(* of a golden gate when each of its pins is the only one of its reader    *)
(* with a patch to that old gate (selectRecPair, selectPatch).             *)
ListsAgree ==
  [][pc = "select" =>
       /\ \A g \in Old : g \in Range(rp'.list) <=> rp'.fanout[g] # <<>>
       /\ \A g \in Gate :
            (g \in Gol => \A p \in FanoutPins(g) : rp.fanin[p] # None => Alone(p)) =>
              Range(rp'.fanout[g]) = {rp'.fanin[p] : p \in FanoutPins(g)} \ {None}]_vars

(* An output with a pair is compared on the output of the pair's mux ("the *)
(* ith rec pair in _recPair_fanout will use id+2*i as their mux output"),  *)
(* unless option r gave the output gate a backward patch.                  *)
OutputsReadMuxes ==
  pc = "select" =>
    \A k \in 1 .. Len(POs) :
      LET rec == rp.fanin[<<POs[k][1], 1>>]
      IN rec # None /\ NumBwd(POs[k][2]) = 0 =>
           OutputNet(POs[k][2], rec) = MuxNet("fwd", POs[k][2], rec)

(* The same of every output.  With backward patches buildSelector counts   *)
(* one net for each of their muxes, which have two, and compares the output*)
(* on the select input of a mux.                                           *)
OutputsOnTheirMuxes ==
  pc = "select" =>
    \A k \in 1 .. Len(POs) :
      LET rec == rp.fanin[<<POs[k][1], 1>>]
      IN rec # None => OutputNet(POs[k][2], rec) = MuxNet("fwd", POs[k][2], rec)

(* No gate of the patched netlist reads itself, whatever is selected: each *)
(* pair of the option r search is checked for that before it is taken      *)
(* ("Safe bwd patch found").                                               *)
NoLoop ==
  optionR => \A p \in Pins : rp.fanin[p] # None => p[1] \notin Cone(rp, rp.fanin[p])

(* The step gives p a backward patch.                                      *)
NewlyPatched(p) == rp.fanin[p] = None /\ rp'.fanin[p] # None

(* A netlist without a loop stays so until a backward cut adds two patches *)
(* at once: each pair is checked against the pairs before the cut, and only*)
(* the patches of one backward cut are not checked against each other      *)
(* (checkLoopIfPatched, cutMatchingWithFraig).                             *)
LoopsClosedTogether ==
  [][rp' # rp /\ ~NoLoop' /\ NoLoop =>
       \E p, q \in GolPins :
         /\ NewlyPatched(p) /\ NewlyPatched(q)
         /\ <<Reads(p), rp'.fanin[p]>> # <<Reads(q), rp'.fanin[q]>>]_vars
=============================================================================
