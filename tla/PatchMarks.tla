------------------------------ MODULE PatchMarks ------------------------------
(***************************************************************************)
(* How the patch file is decided: the selected pairs say which pins of the *)
(* old netlist are to read a golden gate; a patch can only replace nets.   *)
(* A net is replaced as a whole (ALL: the patch drives it with the golden  *)
(* gate of one pair) or its gate is rebuilt in the patch with the fanins   *)
(* it should have (PAR).  Whoever is marked is still there under the name  *)
(* with _in, as the old netlist computes it.                               *)
(*                                                                         *)
(* markFloatingGates, the marking in outputPatchFile and decidePatchType,  *)
(* for a patch of all outputs without backward patches.                    *)
(***************************************************************************)
EXTENDS Integers, Sequences, FiniteSets, SequencesExt, FiniteSetsExt

CONSTANTS
  Old,         \* the gates of the old netlist, the dummy outputs among them
  Gol,         \* the gates of the golden netlist
  Fanin,       \* NtkGate::_fanin
  Level,       \* NtkGate::_level of the old gates
  POs,         \* the sequence of the dummy outputs
  Const,       \* the gates of type NTK_GATE_CONST
  Mapped,      \* _in2Aig: the old gate a golden gate is replaced by, or itself
  RecsOf,      \* the golden gates a pin can have a pair with
  Stale,       \* the gates that an earlier patch of this search reached
  MaxCost,     \* MAX_COST
  None         \* no gate

Gate == Old \union Gol
Dummies == Range(POs)
Pins == UNION {{g} \X (1 .. Len(Fanin[g])) : g \in Gate}
PinsOf(f) == {p \in Pins : p[1] = f}
Reads(p) == Fanin[p[1]][p[2]]
FanoutPins(g) == {p \in Pins : Reads(p) = g}
Fanouts(g) == {p[1] : p \in FanoutPins(g)}

(* The two netlists are apart, and the old one has no loop (setLevel); a   *)
(* dummy output reads its net on its only pin (buildNtk); a constant reads *)
(* nothing, the pins of the golden netlist have no pairs.                  *)
ASSUME PatchMarksAssumption ==
  /\ IsFiniteSet(Old) /\ IsFiniteSet(Gol) /\ Old \intersect Gol = {}
  /\ None \notin Gate
  /\ DOMAIN Fanin = Gate
  /\ \A g \in Old : Fanin[g] \in Seq(Old)
  /\ \A g \in Gol : Fanin[g] \in Seq(Gol)
  /\ Level \in [Old -> Nat]
  /\ \A g \in Old : \A i \in 1 .. Len(Fanin[g]) : Level[Fanin[g][i]] < Level[g]
  /\ POs \in Seq(Old) /\ \A d \in Range(POs) : Len(Fanin[d]) = 1
  /\ Const \subseteq Gate /\ \A g \in Const : Fanin[g] = <<>>
  /\ Mapped \in [Gol -> Gate] /\ \A c \in Gol : Mapped[c] \in Old \union {c}
  /\ RecsOf \in [Pins -> SUBSET Gol]
  /\ \A p \in Pins : p[1] \in Gol => RecsOf[p] = {}
  /\ Stale \subseteq Gate

VARIABLES
  rec,        \* NtkGate::_recPair_fanin, after selectPatch
  first,      \* _recPair_fanout[0], or None when the gate has no pair
  stamp,      \* _flagB: "now" on the gates that are not floating, "old" on
              \* those an earlier patch of this search stamped, or "never"
  mark,       \* _flag: "ALL", "PAR" or "none"
  allTo,      \* NtkGate::_allPatchTo
  queue,      \* allPatchQueue
  netList,    \* what decidePatchType is still to be called for
  used,       \* the old gates of _in2Aig that the patch reads
  inputs,     \* _patchInputSet
  outputs,    \* _patchOutputList
  wires,      \* _patchWireList
  clash,      \* the gates marked ALL whose _allPatchTo was overwritten
  pc

pairs == <<rec, first>>
lists == <<inputs, outputs, wires>>
vars == <<pairs, stamp, mark, allTo, queue, netList, used, lists, clash, pc>>

(* getRecPairFanin: the pair of the first pin of f that reads g.           *)
RecPairFanin(f, g) ==
  rec[CHOOSE p \in FanoutPins(g) :
        p[1] = f /\ \A q \in FanoutPins(g) : q[1] = f => p[2] <= q[2]]

PairsOf(r, g) == {r[p] : p \in FanoutPins(g)} \ {None}

(* The pairs of a net are in the order in which they were found.           *)
Init ==
  /\ \E r \in [{p \in Pins : RecsOf[p] # {}} -> Gol \union {None}] :
       /\ \A p \in DOMAIN r : r[p] \in RecsOf[p] \union {None}
       /\ rec = [p \in Pins |-> IF p \in DOMAIN r THEN r[p] ELSE None]
  /\ \E f \in [{g \in Old : PairsOf(rec, g) # {}} -> Gol] :
       /\ \A g \in DOMAIN f : f[g] \in PairsOf(rec, g)
       /\ first = [g \in Old |-> IF g \in DOMAIN f THEN f[g] ELSE None]
  /\ \E old \in SUBSET Stale :
       stamp = [g \in Gate |-> IF g \in old THEN "old" ELSE "never"]
  /\ mark = [g \in Gate |-> "none"]
  /\ allTo = [g \in Old |-> None]
  /\ queue = <<>> /\ netList = <<>>
  /\ used = {} /\ inputs = {} /\ outputs = <<>> /\ wires = <<>>
  /\ clash = {}
  /\ pc = "floating"

-----------------------------------------------------------------------------
(* markFloatingGates                                                       *)

(* Mutant: the walk ignores the pairs.                                     *)
Source_Unpatched(p) == IF p[1] \in Old THEN Reads(p) ELSE Mapped[Reads(p)]

(* What a pin reads once the netlist is patched; a golden gate whose AIG   *)
(* node is an old gate's is replaced by that gate (getMappedFanin).        *)
Source(p) ==
  IF rec[p] # None THEN Mapped[rec[p]]
  ELSE IF p[1] \in Old THEN Reads(p) ELSE Mapped[Reads(p)]

(* What postOrderMark reaches from the outputs, the fanins of one more     *)
(* gate at a time at least.                                                *)
Reach(live, i) == live \union {Source(p) : p \in {q \in Pins : q[1] \in live}}
NotFloating == FoldLeft(Reach, Dummies, [i \in 1 .. Cardinality(Gate) |-> i])

(* The golden gates getMappedFanin was called for on the way.              *)
MappedOn(S) ==
  {IF rec[p] # None THEN rec[p] ELSE Reads(p) : p \in {q \in Pins : q[1] \in S}} \intersect Gol

Paired == {g \in Old : first[g] # None}
Listed(S) == FoldSet(LAMBDA g, t : Append(t, g), <<>>, S)

(* Mutants: fanouts first; the gates with pairs once more.                 *)
NetLists_FanoutsFirst(live) ==
  {s \o Listed(live \ Paired) :
     s \in {t \in SetToSeqs(Paired) :
              \A i, k \in 1 .. Len(t) : i < k => Level[t[i]] >= Level[t[k]]}}
NetLists_Twice(live) ==
  {s \o Listed(live) :
     s \in {t \in SetToSeqs(Paired) :
              \A i, k \in 1 .. Len(t) : i < k => Level[t[i]] <= Level[t[k]]}}

(* The gates with pairs, fanins first, and then the rest of what was       *)
(* reached; the order among the rest does not matter to decidePatchType.   *)
NetLists(live) ==
  {s \o Listed(live \ Paired) :
     s \in {t \in SetToSeqs(Paired) :
              \A i, k \in 1 .. Len(t) : i < k => Level[t[i]] <= Level[t[k]]}}

MarkFloatingGates ==
  /\ pc = "floating"
  /\ LET live == NotFloating
     IN /\ stamp' = [g \in Gate |-> IF g \in live THEN "now" ELSE stamp[g]]
        /\ netList' \in NetLists(live)
        /\ used' = {Mapped[c] : c \in MappedOn(live)} \intersect Old
  /\ pc' = "outputs"
  /\ UNCHANGED <<pairs, mark, allTo, queue, lists, clash>>

-----------------------------------------------------------------------------
(* outputPatchFile: "mark ALLs"                                            *)

OutputPins == [k \in 1 .. Len(POs) |-> <<POs[k], 1>>]
GatePins(g) == [i \in 1 .. Len(Fanin[g]) |-> <<g, i>>]

(* The nets that a list of pins reads by pairs, in the order of the list.  *)
PairedNet(nets, p) == IF rec[p] # None THEN Append(nets, Reads(p)) ELSE nets
PairedNets(pins) == FoldLeft(PairedNet, <<>>, pins)

(* The pin of the dummy output that reads g, when it has a pair.           *)
OutputPairs(g) == {p \in Range(OutputPins) : Reads(p) = g /\ rec[p] # None}

(* Mutant: the output's net gets no target.                                *)
MarkOutputs_NoTarget ==
  /\ pc = "outputs"
  /\ queue' = PairedNets(OutputPins)
  /\ pc' = "induced"
  /\ UNCHANGED <<pairs, stamp, mark, allTo, netList, used, lists, clash>>

MarkOutputs ==
  /\ pc = "outputs"
  /\ queue' = PairedNets(OutputPins)
  /\ allTo' = [g \in Old |-> IF OutputPairs(g) # {} THEN rec[CHOOSE p \in OutputPairs(g) : TRUE]
                                                   ELSE allTo[g]]
  /\ pc' = "induced"
  /\ UNCHANGED <<pairs, stamp, mark, netList, used, lists, clash>>

(* The target of each fanin of an ALL gate is overwritten, with or without *)
(* a pair, once addRecPair has given the gate room for pairs at all.       *)
Targets(g) ==
  [h \in Range(Fanin[g]) |->
     rec[CHOOSE p \in PinsOf(g) :
           Reads(p) = h /\ \A q \in PinsOf(g) : Reads(q) = h => q[2] <= p[2]]]

(* A net that the patch drives needs no gate: what its gate reads by a     *)
(* pair becomes ALL too.                                                   *)
InduceAll ==
  /\ pc = "induced"
  /\ queue # <<>>
  /\ LET g == Head(queue)
         paired == PairedNets(GatePins(g))
         target == Targets(g)
     IN /\ mark' = [mark EXCEPT ![g] = "ALL"]
        /\ queue' = Tail(queue) \o paired
        /\ \/ /\ allTo' = [h \in Old |-> IF h \in DOMAIN target THEN target[h] ELSE allTo[h]]
              /\ clash' = clash \union
                   {h \in DOMAIN target :
                      (mark[h] = "ALL" \/ h \in Range(queue)) /\ target[h] # allTo[h]}
           \/ /\ paired = <<>>
              /\ UNCHANGED <<allTo, clash>>
  /\ UNCHANGED <<pairs, stamp, netList, used, lists, pc>>

EndInduce ==
  /\ pc = "induced"
  /\ queue = <<>>
  /\ pc' = "decide"
  /\ UNCHANGED <<pairs, stamp, mark, allTo, queue, netList, used, lists, clash>>

-----------------------------------------------------------------------------
(* decidePatchType of the next gate; its disjuncts are the early returns.  *)

Decide(g) == pc = "decide" /\ netList # <<>> /\ g = Head(netList) /\ netList' = Tail(netList)

Marked(fanouts) == [f \in Gate |-> IF f \in fanouts THEN "PAR" ELSE mark[f]]
PairedFanouts(g) == {f \in Fanouts(g) : RecPairFanin(f, g) # None}
(* Mutant: a fanout that keeps the old gate need not be rebuilt.           *)
NotPatchedTo_Paired(g, c) == {f \in Fanouts(g) : RecPairFanin(f, g) \notin {c, None}}
NotPatchedTo(g, c) == {f \in Fanouts(g) : RecPairFanin(f, g) # c}
Now == {f \in Gate : stamp[f] = "now"}
Stamped == {f \in Gate : stamp[f] # "never"}

(* The old gates that getMappedFanin finds for the pairs of a gate's pins. *)
MappedFanins(g) == {Mapped[rec[p]] : p \in {q \in PinsOf(g) : rec[q] # None}} \intersect Old

(* Mutant: the test of checkPatchFanin on the other mark.                  *)
PatchFanins_NotAll(g) ==
  {Reads(p) : p \in {q \in PinsOf(g) : rec[q] = None /\ mark[Reads(q)] # "ALL"}}
    \union MappedFanins(g)

(* checkPatchFanin of an old gate that is rebuilt in the patch.            *)
PatchFanins(g) ==
  {Reads(p) : p \in {q \in PinsOf(g) : rec[q] = None /\ mark[Reads(q)] # "PAR"}}
    \union MappedFanins(g)

Wire(g) ==
  /\ Decide(g)
  /\ g \in Gol
  /\ wires' = Append(wires, g)
  /\ UNCHANGED <<pairs, stamp, mark, allTo, queue, used, inputs, outputs, clash, pc>>

(* A gate without pairs is rebuilt when one of its fanins asked for it.    *)
Unpaired(g) ==
  /\ Decide(g)
  /\ g \in Old /\ first[g] = None
  /\ IF mark[g] = "PAR"
     THEN /\ inputs' = inputs \union PatchFanins(g)
          /\ used' = used \union MappedFanins(g)
          /\ outputs' = Append(outputs, g)
     ELSE UNCHANGED <<inputs, used, outputs>>
  /\ UNCHANGED <<pairs, stamp, mark, allTo, queue, wires, clash, pc>>

(* A gate that is rebuilt, and a constant, keep their net.                 *)
AlreadyPar(g) ==
  /\ Decide(g)
  /\ g \in Old /\ first[g] # None
  /\ mark[g] = "PAR" \/ g \in Const
  /\ mark' = Marked(PairedFanouts(g))
  /\ outputs' = IF g \in Const THEN outputs ELSE Append(outputs, g)
  /\ inputs' = inputs \union PatchFanins(g)
  /\ used' = used \union MappedFanins(g)
  /\ UNCHANGED <<pairs, stamp, allTo, queue, wires, clash, pc>>

AlreadyAll(g) ==
  /\ Decide(g)
  /\ g \in Old \ Const /\ first[g] # None
  /\ mark[g] = "ALL"
  /\ mark' = Marked(NotPatchedTo(g, allTo[g]) \intersect Now)
  /\ outputs' = Append(outputs, g)
  /\ UNCHANGED <<pairs, stamp, allTo, queue, used, inputs, wires, clash, pc>>

(* getPartialCost: what it costs to rebuild f.                             *)
PartialCost(f) ==
  CASE mark[f] = "ALL" -> MaxCost
    [] mark[f] = "PAR" -> 0
    [] OTHER -> 1 + Len(Fanin[f]) - 2 + Cardinality({p \in PinsOf(f) : rec[p] = None})

CostOf(g, c) ==
  MapThenSumSet(LAMBDA p : PartialCost(p[1]),
                {p \in FanoutPins(g) : p[1] \in Now /\ RecPairFanin(p[1], g) = c})

(* The net goes to the pair that is cheaper than keeping it; the costs are *)
(* only ever counted for the first pair.                                   *)
Choose(g) ==
  /\ Decide(g)
  /\ g \in Old \ Const /\ first[g] # None
  /\ mark[g] = "none"
  /\ \/ /\ CostOf(g, first[g]) > 1 + CostOf(g, None)
        /\ mark' = [Marked(NotPatchedTo(g, first[g]) \intersect Stamped) EXCEPT ![g] = "ALL"]
        /\ allTo' = [allTo EXCEPT ![g] = first[g]]
        /\ outputs' = Append(outputs, g)
     \/ /\ CostOf(g, first[g]) <= 1 + CostOf(g, None)
        /\ mark' = Marked(PairedFanouts(g))
        /\ UNCHANGED <<allTo, outputs>>
  /\ UNCHANGED <<pairs, stamp, queue, used, inputs, wires, clash, pc>>

DecidePatchType ==
  \E g \in Gate : Wire(g) \/ Unpaired(g) \/ AlreadyPar(g) \/ AlreadyAll(g) \/ Choose(g)

(* "move input to list"                                                    *)
WriteInputs ==
  /\ pc = "decide"
  /\ netList = <<>>
  /\ inputs' = (inputs \union used) \ Const
  /\ pc' = "gates"
  /\ UNCHANGED <<pairs, stamp, mark, allTo, queue, netList, used, outputs, wires, clash>>

(* getMappedFaninName throws ERR_RESET_REC for a golden gate that is not   *)
(* in the patch.                                                           *)
Named(e) == IF Mapped[e] \in Old THEN Mapped[e] \in used ELSE e \in Now

GateNamed(g) ==
  CASE g \in Gol -> \A p \in PinsOf(g) : Named(Reads(p))
    [] mark[g] = "ALL" -> allTo[g] # None /\ Named(allTo[g])
    [] OTHER -> \A p \in PinsOf(g) : rec[p] # None => Named(rec[p])

(* The gates of the patch, outputs first; the target of an ALL is used     *)
(* without a test.                                                         *)
WriteGates ==
  /\ pc = "gates"
  /\ LET list == outputs \o wires
         bad == {i \in 1 .. Len(list) : ~GateNamed(list[i])}
         g == list[Min(bad)]
     IN pc' = IF bad = {} THEN "written"
              ELSE IF mark[g] = "ALL" /\ allTo[g] = None THEN "crash" ELSE "reset"
  /\ UNCHANGED <<pairs, stamp, mark, allTo, queue, netList, used, lists, clash>>

Next ==
  \/ MarkFloatingGates \/ MarkOutputs \/ InduceAll \/ EndInduce
  \/ DecidePatchType \/ WriteInputs \/ WriteGates

Spec == Init /\ [][Next]_vars

-----------------------------------------------------------------------------

TypeOK ==
  /\ rec \in [Pins -> Gol \union {None}]
  /\ first \in [Old -> Gol \union {None}]
  /\ stamp \in [Gate -> {"never", "old", "now"}]
  /\ mark \in [Gate -> {"none", "PAR", "ALL"}]
  /\ allTo \in [Old -> Gol \union {None}]
  /\ queue \in Seq(Old)
  /\ netList \in Seq(Gate) /\ IsInjective(netList)
  /\ used \subseteq Old /\ inputs \subseteq Old
  /\ outputs \in Seq(Old) /\ IsInjective(outputs)
  /\ wires \in Seq(Gol) /\ IsInjective(wires)
  /\ clash \subseteq Old

Written == pc = "written"

(* A constant is not a net: whatever its mark, it is read as it is.        *)
Replaced(g) == mark[g] = "ALL" /\ g \notin Const

(* The net the pin is on carries what the pin should read.                 *)
PinRight(p) ==
  IF rec[p] = None THEN ~Replaced(Reads(p))
  ELSE Replaced(Reads(p)) /\ allTo[Reads(p)] = rec[p]

(* A gate that is not floating and is not rebuilt in the patch reads what  *)
(* the selection says, as the nets are after the patch, on each pin that   *)
(* has the pair getRecPairFanin finds for the net it reads (decidePatch-   *)
(* Type).  A dummy output stands for the output port.                      *)
NetsRight ==
  Written =>
    \A f \in Now \intersect Old :
      mark[f] # "PAR" =>
        \A p \in PinsOf(f) : rec[p] = RecPairFanin(f, Reads(p)) => PinRight(p)

(* The fanouts that do not read what the net is patched to are rebuilt     *)
(* ("for those not _patchTo, set to P").  But of a gate that reads the net *)
(* by two pins only the first has the pair, and only the first is asked.   *)
EveryPinRight ==
  Written =>
    \A f \in Now \intersect Old : mark[f] # "PAR" => \A p \in PinsOf(f) : PinRight(p)

(* Of the fanouts that decidePatchType sets to PAR one must "check it's    *)
(* not ALL", and that it is a gate: a dummy output is in no netlist, the   *)
(* patch cannot rebuild it.                                                *)
OutputsNotRebuilt ==
  clash = {} => \A d \in Dummies : mark[d] # "PAR"

(* The patch is not written when one of its gates has no name ("throw      *)
(* ERR_RESET_REC"): then a pair of a floating gate was selected.           *)
ResetWhenFloating ==
  pc = "reset" => \E p \in Pins : rec[p] # None /\ p[1] \notin Now

(* Some gate reads g by pins that have different pairs.                    *)
Split(g) == \E p, q \in FanoutPins(g) : p[1] = q[1] /\ rec[p] # rec[q]

(* The target that outputPatchFile dereferences is null only for a net     *)
(* that two ALLs disagreed about, or that some gate reads by two pins with *)
(* different pairs.                                                        *)
CrashWhenClash ==
  pc = "crash" => \E g \in Old : mark[g] = "ALL" /\ allTo[g] = None /\ (g \in clash \/ Split(g))

(* The one case that outputPatchFile names: "2 ALL will error if they don't*)
(* have the same allpatchto".                                              *)
CrashOnlyWhenClash == pc = "crash" => clash # {}

(* The names in the patch: getPatchFaninName2 for a net that a rebuilt gate*)
(* keeps, getMappedFaninName for a golden gate, and what is declared.  The *)
(* net of g is still there as <<g, "in">> when the patch drives <<g, "net">>. *)
KeptName(g) == <<g, IF mark[g] = "ALL" THEN "in" ELSE "net">>

InputName(g) == <<g, IF mark[g] = "none" THEN "net" ELSE "in">>

MappedName(c) == IF Mapped[c] \in Old THEN InputName(Mapped[c]) ELSE <<c, "net">>

NamesRead(g) ==
  CASE g \in Gol -> {MappedName(Reads(p)) : p \in PinsOf(g)}
    [] mark[g] = "ALL" -> {MappedName(allTo[g])}
    [] OTHER -> {IF rec[p] = None THEN KeptName(Reads(p)) ELSE MappedName(rec[p]) : p \in PinsOf(g)}

DeclaredNames ==
  {InputName(g) : g \in inputs}
    \union {<<g, "net">> : g \in Range(outputs) \union Range(wires) \union Const}

(* Every name that the patch reads is declared there as an input, an output*)
(* or a wire, or is a constant, but for the gates that are rebuilt although*)
(* they are floating; the name of a constant that is marked ALL has the    *)
(* suffix _in and is never declared (getPatchFaninName2).                  *)
Declared ==
  Written =>
    \A g \in Range(outputs) \union Range(wires) :
      g \in Now \/ mark[g] = "ALL" =>
        \A n \in NamesRead(g) :
          n \in DeclaredNames <=> ~(n[1] \in Const /\ mark[n[1]] = "ALL")

(* Constants are found by their names: "check const at fanin; if exist,    *)
(* simplify the gate".  But a constant that an ALL gate reads by a pair is *)
(* named with _in, is not simplified and is not declared.                  *)
ConstantsSimplified ==
  Written =>
    \A g \in Range(outputs) \union Range(wires) :
      \A n \in NamesRead(g) : n[1] \in Const => n[2] = "net"

(* The mark of a gate is final once decidePatchType was called for it: its *)
(* name in the patch was chosen by it.                                     *)
MarksFinal ==
  [][pc = "decide" =>
       \A g \in (Now \union Paired) \ Range(netList) :
         mark'[g] = mark[g]]_vars

(* A golden gate that reads an old gate with the same function reads it    *)
(* under the name that still has this function: with _in the net is the    *)
(* old gate on the patched nets, which is not what a rebuilt gate computes.*)
MappedReadsRight ==
  Written =>
    \A w \in Range(wires), p \in Pins :
      p[1] = w /\ Mapped[Reads(p)] \in Old => mark[Mapped[Reads(p)]] # "PAR"
=============================================================================
