--------------------------- MODULE RecPairsProofs ----------------------------
(***************************************************************************)
(* The three copies of the rectification pairs agree while pairs are       *)
(* found, the selector's nets are those of the muxes its verdicts are for, *)
(* and the selection leaves what the verdicts say. The invariant follows   *)
(* the search: what holds of the pairs while outputs and cuts are matched  *)
(* (Identified), once the list is made (Made), once its muxes are numbered *)
(* (Selectable) and after the selection (Left).                            *)
(***************************************************************************)
EXTENDS RecPairs, FiniteSetTheorems, TLAPS

AddFold == INSTANCE FoldLemmas WITH Op <- AddRecPair
LoopFold == INSTANCE FoldLemmas WITH Op <- AddUnlessLoop
ConeFold == INSTANCE FoldLemmas WITH Op <- Widen
BwdFold == INSTANCE FoldLemmas WITH Op <- AddBwd
NumberFold == INSTANCE FoldLemmas WITH Op <- NumberMux
WalkFold == INSTANCE FoldLemmas WITH Op <- AddMuxes

(* The folds of the instances are those of the model.                      *)
LEMMA SameFolds ==
  ASSUME NEW base, NEW seq
  PROVE  /\ AddFold!LeftFold(base, seq) = FoldLeft(AddRecPair, base, seq)
         /\ LoopFold!LeftFold(base, seq) = FoldLeft(AddUnlessLoop, base, seq)
         /\ ConeFold!LeftFold(base, seq) = FoldLeft(Widen, base, seq)
         /\ WalkFold!LeftFold(base, seq) = FoldLeft(AddMuxes, base, seq)
         /\ NumberFold!LeftFold(base, seq) = FoldLeft(NumberMux, base, seq)
         /\ BwdFold!LeftFold(base, seq) = FoldLeft(AddBwd, base, seq)
BY DEF FoldLeft, MapThenFoldSet, Max,
       AddFold!LeftFold, AddFold!MapThenFoldSet, AddFold!Largest,
       LoopFold!LeftFold, LoopFold!MapThenFoldSet, LoopFold!Largest,
       ConeFold!LeftFold, ConeFold!MapThenFoldSet, ConeFold!Largest,
       WalkFold!LeftFold, WalkFold!MapThenFoldSet, WalkFold!Largest,
       NumberFold!LeftFold, NumberFold!MapThenFoldSet, NumberFold!Largest,
       BwdFold!LeftFold, BwdFold!MapThenFoldSet, BwdFold!Largest

-----------------------------------------------------------------------------

(* The pairs the state holds, and the pairs addRecPair is given.           *)
Rp == [fanin : [Pins -> Gate \union {None}], fanout : [Gate -> Seq(Gate)],
       cnt : [Gate -> Int], list : Seq(Old), bwdList : Seq(Gol)]

AddSet == [gate : Gate, rec : Gate, cone : SUBSET Gate]

(* The pins of a gate are finitely many.                                   *)
LEMMA PinsFinite ==
  /\ IsFiniteSet(Pins)
  /\ \A p \in Pins : p[1] \in Gate /\ p[2] \in DOMAIN Fanin[p[1]] /\ p = <<p[1], p[2]>>
                     /\ Reads(p) \in Gate
<1>1. Fanin \in [Gate -> Seq(Gate)] /\ IsFiniteSet(Gate)
  BY RecPairsAssumption
<1>2. ASSUME NEW g \in Gate PROVE IsFiniteSet({g} \X DOMAIN Fanin[g])
  <2>1. Fanin[g] \in Seq(Gate)
    BY <1>1
  <2>2. DOMAIN Fanin[g] = 1 .. Len(Fanin[g]) /\ Len(Fanin[g]) \in Nat
    BY <2>1
  <2>3. IsFiniteSet(1 .. Len(Fanin[g])) /\ IsFiniteSet({g})
    <3>1. 1 \in Int /\ Len(Fanin[g]) \in Int
      BY <2>2
    <3>2. IsFiniteSet(1 .. Len(Fanin[g]))
      BY <3>1, FS_Interval
    <3>3. IsFiniteSet({g})
      BY FS_Singleton
    <3>4. QED
      BY <3>2, <3>3
  <2>4. QED
    BY <2>2, <2>3, FS_Product
<1> DEFINE PinsOf(g) == {g} \X DOMAIN Fanin[g]
<1>3. IsFiniteSet({PinsOf(g) : g \in Gate})
  <2> HIDE DEF PinsOf
  <2>1. [g \in Gate |-> PinsOf(g)] \in Surjection(Gate, {PinsOf(g) : g \in Gate})
    BY DEF Surjection
  <2>2. QED
    BY <1>1, <2>1, FS_Surjection
<1>4. IsFiniteSet(Pins)
  BY <1>2, <1>3, FS_UNION DEF Pins
<1>5. QED
  BY <1>1, <1>4 DEF Pins, Reads

(* What addRecPair leaves: the pairs as they are, or one more pair, on at  *)
(* least one pin.                                                          *)
Added(r, add, new) ==
  LET pins == FreePins(r, add)
      old == add.rec \in Range(r.fanout[add.gate])
      first == r.fanout[add.gate] = <<>>
  IN /\ pins # {}
     /\ new.fanin = Put(r.fanin, pins, add.rec)
     /\ new.cnt = [r.cnt EXCEPT ![add.gate] = @ + Cardinality(pins)]
     /\ new.fanout = IF old THEN r.fanout
                     ELSE [r.fanout EXCEPT ![add.gate] = Append(@, add.rec)]
     /\ new.list = IF ~old /\ first /\ add.gate \in Old THEN Append(r.list, add.gate) ELSE r.list
     /\ new.bwdList = IF ~old /\ first /\ add.gate \notin Old THEN Append(r.bwdList, add.gate)
                      ELSE r.bwdList

(* The pins a pair gets are finitely many pins of its gate.                *)
LEMMA FreePinsFinite ==
  ASSUME NEW r, NEW add
  PROVE  /\ FreePins(r, add) \subseteq FanoutPins(add.gate) /\ FanoutPins(add.gate) \subseteq Pins
         /\ IsFiniteSet(FreePins(r, add)) /\ Cardinality(FreePins(r, add)) \in Nat
<1>1. FreePins(r, add) \subseteq FanoutPins(add.gate) /\ FanoutPins(add.gate) \subseteq Pins
  BY DEF FreePins, FirstPins, FanoutPins
<1>2. QED
  BY <1>1, PinsFinite, FS_Subset, FS_CardinalityType

(* A call of addRecPair that changes something has the effect Added: the   *)
(* pins, the count, the list of the gate and the list of the gates.        *)
LEMMA AddRecPairAdds ==
  ASSUME NEW r \in Rp, NEW add \in AddSet, FanoutPins(add.gate) # {},
         AddRecPair(r, add) # r
  PROVE  /\ Added(r, add, AddRecPair(r, add))
         /\ AddRecPair(r, add) \in Rp
         /\ <<add.gate, add.rec>> \notin Merged
<1> DEFINE pins == FreePins(r, add)
           g == add.gate
           put == [r EXCEPT !.fanin = Put(@, pins, add.rec), !.cnt[g] = @ + Cardinality(pins)]
           new == AddRecPair(r, add)
<1>1. /\ g \in Gate /\ add.rec \in Gate
      /\ Cardinality(pins) \in Nat
  BY FreePinsFinite DEF AddSet
<1>2. /\ <<add.gate, add.rec>> \notin Merged
      /\ pins # {}
      /\ new = Noted(put, g, add.rec)
  BY DEF AddRecPair
<1>3. Put(r.fanin, pins, add.rec) \in [Pins -> Gate \union {None}]
  BY <1>1 DEF Put, Rp
<1> HIDE DEF pins
<1>4. /\ put.fanin = Put(r.fanin, pins, add.rec)
      /\ put.cnt = [r.cnt EXCEPT ![g] = @ + Cardinality(pins)]
      /\ put.fanout = r.fanout /\ put.list = r.list /\ put.bwdList = r.bwdList
      /\ put \in Rp
  <2> DEFINE f == Put(r.fanin, pins, add.rec)
             c == [r.cnt EXCEPT ![g] = @ + Cardinality(pins)]
  <2>1. c \in [Gate -> Int]
    BY <1>1 DEF Rp
  <2>2. put = [r EXCEPT !.fanin = f, !.cnt = c]
    OBVIOUS
  <2> HIDE DEF f, c, put
  <2>3. /\ put.fanin = f /\ put.cnt = c
        /\ put.fanout = r.fanout /\ put.list = r.list /\ put.bwdList = r.bwdList
    BY <2>2 DEF Rp
  <2>4. f \in [Pins -> Gate \union {None}]
    BY <1>3 DEF f
  <2>5. put \in Rp
    BY <2>1, <2>2, <2>4 DEF Rp
  <2>6. QED
    BY <2>3, <2>5 DEF f, c
<1> HIDE DEF put, new
<1>5. CASE add.rec \in Range(r.fanout[g])
  <2>1. new = put
    BY <1>2, <1>4, <1>5 DEF Noted
  <2>2. QED
    BY <1>2, <1>4, <1>5, <2>1 DEF Added, pins, new
<1>6. CASE add.rec \notin Range(r.fanout[g])
  <2> DEFINE listed == Listed(put, g)
  <2>1. /\ listed.fanin = put.fanin /\ listed.cnt = put.cnt /\ listed.fanout = put.fanout
        /\ listed.list = IF r.fanout[g] = <<>> /\ g \in Old THEN Append(r.list, g) ELSE r.list
        /\ listed.bwdList = IF r.fanout[g] = <<>> /\ g \notin Old THEN Append(r.bwdList, g)
                            ELSE r.bwdList
        /\ listed \in Rp
    <3>1. CASE r.fanout[g] # <<>>
      BY <1>4, <3>1 DEF Listed
    <3>2. CASE r.fanout[g] = <<>> /\ g \in Old
      <4>1. listed = [put EXCEPT !.list = Append(@, g)]
        BY <1>4, <3>2 DEF Listed
      <4>2. Append(put.list, g) \in Seq(Old)
        BY <1>4, <3>2 DEF Rp
      <4> HIDE DEF listed
      <4>3. QED
        BY <1>4, <3>2, <4>1, <4>2 DEF Rp
    <3>3. CASE r.fanout[g] = <<>> /\ g \notin Old
      <4>1. listed = [put EXCEPT !.bwdList = Append(@, g)]
        BY <1>4, <3>3 DEF Listed
      <4>2. Append(put.bwdList, g) \in Seq(Gol)
        BY <1>1, <1>4, <3>3 DEF Rp, Gate
      <4> HIDE DEF listed
      <4>3. QED
        BY <1>4, <3>3, <4>1, <4>2 DEF Rp
    <3>4. QED
      BY <3>1, <3>2, <3>3
  <2>2. new = [listed EXCEPT !.fanout[g] = Append(@, add.rec)]
    BY <1>2, <1>4, <1>6 DEF Noted
  <2> HIDE DEF listed
  <2>3. /\ new.fanin = listed.fanin /\ new.cnt = listed.cnt
        /\ new.fanout = [listed.fanout EXCEPT ![g] = Append(@, add.rec)]
        /\ new.list = listed.list /\ new.bwdList = listed.bwdList
        /\ new \in Rp
    <3> DEFINE f == [listed.fanout EXCEPT ![g] = Append(@, add.rec)]
    <3>1. f \in [Gate -> Seq(Gate)]
      BY <1>1, <2>1 DEF Rp
    <3>2. new = [listed EXCEPT !.fanout = f]
      BY <2>2
    <3> HIDE DEF f
    <3>3. QED
      BY <2>1, <3>1, <3>2 DEF Rp, f
  <2>4. QED
    BY <1>2, <1>4, <1>6, <2>1, <2>3 DEF Added, pins, new
<1>7. QED
  BY <1>5, <1>6

-----------------------------------------------------------------------------

(* What Append does to the set of elements and to their being distinct.    *)
LEMMA Appending ==
  ASSUME NEW S, NEW s \in Seq(S), NEW e \in S
  PROVE  /\ Append(s, e) \in Seq(S) /\ Append(s, e) # <<>>
         /\ Range(Append(s, e)) = Range(s) \union {e}
         /\ DOMAIN Append(s, e) = DOMAIN s \union {Len(s) + 1} /\ Len(s) + 1 \notin DOMAIN s
         /\ Append(s, e)[Len(s) + 1] = e /\ \A i \in DOMAIN s : Append(s, e)[i] = s[i]
         /\ IsInjective(s) /\ e \notin Range(s) => IsInjective(Append(s, e))
<1>1. /\ Append(s, e) \in Seq(S)
      /\ Len(s) \in Nat /\ DOMAIN s = 1 .. Len(s) /\ DOMAIN Append(s, e) = 1 .. Len(s) + 1
      /\ Append(s, e)[Len(s) + 1] = e
      /\ \A i \in 1 .. Len(s) : Append(s, e)[i] = s[i]
  OBVIOUS
<1> DEFINE t == Append(s, e)
<1> HIDE DEF t
<1>2. \A i : i \in 1 .. Len(s) + 1 <=> i \in 1 .. Len(s) \/ i = Len(s) + 1
  BY <1>1
<1>3. Range(t) = Range(s) \union {e}
  BY <1>1, <1>2 DEF t, Range
<1>4. IsInjective(s) /\ e \notin Range(s) => IsInjective(t)
  BY <1>1, <1>2 DEF t, Range, IsInjective
<1>5. t # <<>>
  BY <1>1 DEF t
<1>6. DOMAIN t = DOMAIN s \union {Len(s) + 1} /\ Len(s) + 1 \notin DOMAIN s
  BY <1>1, <1>2 DEF t
<1>7. QED
  BY <1>1, <1>3, <1>4, <1>5, <1>6 DEF t

(* The dummy outputs.                                                      *)
Dummies == {POs[k][1] : k \in DOMAIN POs}

(* A pair leads from one netlist to the other.                             *)
Crosses(r) == \A p \in Pins : r.fanin[p] # None => (r.fanin[p] \in Old <=> p[1] \in Gol)

(* _recCnt is the number of pins with a pair.                              *)
Counted(r) ==
  \A g \in Old : r.cnt[g] = Cardinality({p \in FanoutPins(g) : r.fanin[p] # None})

(* The list of a gate names each pair of its pins once.                    *)
Together(r) ==
  \A g \in Gate :
    /\ IsInjective(r.fanout[g])
    /\ Range(r.fanout[g]) = {r.fanin[p] : p \in FanoutPins(g)} \ {None}

(* _recPairList has each old gate with a pair once; _bwdPatchList has each *)
(* golden one, and what earlier searches put there, in any number.         *)
InList(r) == IsInjective(r.list) /\ \A g \in Old : g \in Range(r.list) <=> r.fanout[g] # <<>>
InBwdList(r) == \A g \in Gol : r.fanout[g] # <<>> => g \in Range(r.bwdList)

(* No pair leads to a dummy output.                                        *)
NoDummies(r) == \A p \in Pins : r.fanin[p] \notin Dummies

(* What holds of the pairs from the search to the selection; Consistent    *)
(* adds the list, which checkBwdPatches extends.                           *)
Paired(r) ==
  /\ r \in Rp
  /\ Crosses(r) /\ Counted(r) /\ Together(r) /\ InBwdList(r)
  /\ NoDummies(r)

Consistent(r) == Paired(r) /\ InList(r)

(* What is added crosses from one netlist to the other.                    *)
Fits(add) ==
  /\ add \in AddSet
  /\ FanoutPins(add.gate) # {}
  /\ add.gate \in Old <=> add.rec \in Gol
  /\ add.rec \notin Dummies

(* addRecPair keeps the pairs consistent.                                  *)
LEMMA AddedConsistent ==
  ASSUME NEW r, Consistent(r), NEW add, Fits(add)
  PROVE  Consistent(AddRecPair(r, add))
<1> DEFINE new == AddRecPair(r, add)
           pins == FreePins(r, add)
           g == add.gate
           rec == add.rec
<1>1. SUFFICES ASSUME new # r PROVE Consistent(new)
  OBVIOUS
<1>2. /\ r \in Rp /\ add \in AddSet /\ g \in Gate /\ rec \in Gate /\ rec # None
      /\ Old \intersect Gol = {}
  BY RecPairsAssumption DEF Consistent, Paired, Fits, AddSet
<1>3. Added(r, add, new) /\ new \in Rp
  BY <1>1, <1>2, AddRecPairAdds DEF Fits
<1>4. /\ pins # {} /\ pins \subseteq FanoutPins(g) /\ FanoutPins(g) \subseteq Pins
      /\ \A p \in pins : r.fanin[p] = None /\ Reads(p) = g
      /\ IsFiniteSet(pins) /\ Cardinality(pins) \in Nat
      /\ new.fanin = [p \in Pins |-> IF p \in pins THEN rec ELSE r.fanin[p]]
  <2>1. /\ pins \subseteq FanoutPins(g) /\ FanoutPins(g) \subseteq Pins
        /\ IsFiniteSet(pins) /\ Cardinality(pins) \in Nat
    BY FreePinsFinite
  <2>2. \A p \in pins : r.fanin[p] = None /\ Reads(p) = g
    BY DEF FreePins, FirstPins, FanoutPins
  <2>3. pins # {} /\ new.fanin = [p \in Pins |-> IF p \in pins THEN rec ELSE r.fanin[p]]
    BY <1>3 DEF Added, Put
  <2>4. QED
    BY <2>1, <2>2, <2>3
<1> HIDE DEF new, pins
<1>5. \A p \in pins : p[1] \in Old <=> g \in Old
  BY <1>4, RecPairsAssumption
<1>6. Crosses(new)
  <2>1. \A p \in pins : rec \in Old <=> p[1] \in Gol
    BY <1>2, <1>4, <1>5, PinsFinite DEF Fits, Gate
  <2>2. QED
    BY <1>4, <2>1 DEF Consistent, Paired, Crosses
<1>7. Counted(new)
  <2> SUFFICES ASSUME NEW h \in Old
               PROVE  new.cnt[h] = Cardinality({p \in FanoutPins(h) : new.fanin[p] # None})
    BY DEF Counted
  <2> DEFINE F == {p \in FanoutPins(h) : r.fanin[p] # None}
             N == {p \in FanoutPins(h) : new.fanin[p] # None}
  <2>1. r.cnt[h] = Cardinality(F)
    BY DEF Consistent, Paired, Counted
  <2>2. new.cnt = [r.cnt EXCEPT ![g] = @ + Cardinality(pins)] /\ h \in Gate
    BY <1>3 DEF Added, pins, Gate
  <2>3. CASE h # g
    <3>1. \A p \in FanoutPins(h) : p \in Pins /\ p \notin pins
      BY <1>4, <2>3 DEF FanoutPins
    <3>2. N = F
      BY <1>4, <3>1
    <3>3. new.cnt[h] = r.cnt[h]
      BY <1>2, <2>2, <2>3 DEF Rp
    <3>4. QED
      BY <2>1, <3>2, <3>3
  <2>4. CASE h = g
    <3>1. N = F \union pins /\ F \intersect pins = {}
      BY <1>2, <1>4, <2>4
    <3>2. IsFiniteSet(F)
      BY PinsFinite, FS_Subset DEF FanoutPins
    <3>3. Cardinality(N) = Cardinality(F) + Cardinality(pins)
      <4> HIDE DEF F, N
      <4>1. Cardinality(F) \in Nat
        BY <3>2, FS_CardinalityType
      <4>2. Cardinality(F \union pins) = Cardinality(F) + Cardinality(pins) - Cardinality({})
        BY <1>4, <3>1, <3>2, FS_Union
      <4>3. Cardinality({}) = 0
        BY FS_EmptySet
      <4>4. QED
        BY <1>4, <3>1, <4>1, <4>2, <4>3
    <3>4. new.cnt[h] = r.cnt[h] + Cardinality(pins)
      BY <1>2, <2>2, <2>4 DEF Rp
    <3>5. QED
      BY <2>1, <3>3, <3>4
  <2>5. QED
    BY <2>3, <2>4
<1>8. \A h \in Gate : h # g => new.fanout[h] = r.fanout[h]
  BY <1>2, <1>3 DEF Added, Rp
<1>9. /\ new.fanout[g] = IF rec \in Range(r.fanout[g]) THEN r.fanout[g] ELSE Append(r.fanout[g], rec)
      /\ r.fanout[g] \in Seq(Gate)
  BY <1>2, <1>3 DEF Added, Rp
<1>10. /\ Range(new.fanout[g]) = Range(r.fanout[g]) \union {rec}
       /\ IsInjective(r.fanout[g]) => IsInjective(new.fanout[g])
       /\ new.fanout[g] # <<>>
  <2>1. CASE rec \in Range(r.fanout[g])
    <3>1. r.fanout[g] # <<>>
      BY <2>1 DEF Range
    <3>2. QED
      BY <1>9, <2>1, <3>1
  <2>2. CASE rec \notin Range(r.fanout[g])
    <3>1. new.fanout[g] = Append(r.fanout[g], rec)
      BY <1>9, <2>2
    <3>2. QED
      BY <1>2, <1>9, <2>2, <3>1, Appending
  <2>3. QED
    BY <2>1, <2>2
<1>11. Together(new)
  <2> SUFFICES ASSUME NEW h \in Gate
               PROVE  /\ IsInjective(new.fanout[h])
                      /\ Range(new.fanout[h]) = {new.fanin[p] : p \in FanoutPins(h)} \ {None}
    BY DEF Together
  <2>1. /\ IsInjective(r.fanout[h])
        /\ Range(r.fanout[h]) = {r.fanin[p] : p \in FanoutPins(h)} \ {None}
    BY DEF Consistent, Paired, Together
  <2>2. CASE h # g
    <3>1. \A p \in FanoutPins(h) : p \in Pins /\ p \notin pins
      BY <1>4, <2>2 DEF FanoutPins
    <3>2. {new.fanin[p] : p \in FanoutPins(h)} = {r.fanin[p] : p \in FanoutPins(h)}
      BY <1>4, <3>1
    <3>3. QED
      BY <1>8, <2>1, <2>2, <3>2
  <2>3. CASE h = g
    <3>1. {new.fanin[p] : p \in FanoutPins(g)} \ {None}
            = ({r.fanin[p] : p \in FanoutPins(g)} \ {None}) \union {rec}
      BY <1>2, <1>4
    <3>2. QED
      BY <1>10, <2>1, <2>3, <3>1
  <2>4. QED
    BY <2>2, <2>3
<1>12. InList(new)
  <2>1. r.list \in Seq(Old) /\ IsInjective(r.list)
        /\ \A h \in Old : h \in Range(r.list) <=> r.fanout[h] # <<>>
    BY DEF Consistent, Paired, Rp, InList
  <2>2. CASE r.fanout[g] = <<>> /\ g \in Old
    <3>1. new.list = Append(r.list, g)
      BY <1>3, <2>2 DEF Added, Range
    <3>2. Range(new.list) = Range(r.list) \union {g} /\ IsInjective(new.list)
      BY <2>1, <2>2, <3>1, Appending
    <3>3. QED
      BY <1>8, <1>10, <2>1, <3>2 DEF InList, Gate
  <2>3. CASE ~(r.fanout[g] = <<>> /\ g \in Old)
    <3>1. new.list = r.list
      BY <1>3, <2>3 DEF Added
    <3>2. QED
      BY <1>8, <1>10, <2>1, <2>3, <3>1 DEF InList, Gate
  <2>4. QED
    BY <2>2, <2>3
<1>13. InBwdList(new)
  <2>1. r.bwdList \in Seq(Gol) /\ \A h \in Gol : r.fanout[h] # <<>> => h \in Range(r.bwdList)
    BY DEF Consistent, Paired, Rp, InBwdList
  <2>2. CASE r.fanout[g] = <<>> /\ g \in Gol
    <3>1. new.bwdList = Append(r.bwdList, g)
      BY <1>2, <1>3, <2>2 DEF Added, Range
    <3>2. Range(new.bwdList) = Range(r.bwdList) \union {g}
      BY <2>1, <2>2, <3>1, Appending
    <3>3. QED
      BY <1>8, <1>10, <2>1, <3>2 DEF InBwdList, Gate
  <2>3. CASE ~(r.fanout[g] = <<>> /\ g \in Gol)
    <3>1. new.bwdList = r.bwdList
      BY <1>2, <1>3, <2>3 DEF Added, Gate
    <3>2. QED
      BY <1>8, <1>10, <2>1, <2>3, <3>1 DEF InBwdList, Gate
  <2>4. QED
    BY <2>2, <2>3
<1>14. NoDummies(new)
  BY <1>4 DEF Consistent, Paired, NoDummies, Fits
<1>15. QED
  BY <1>3, <1>6, <1>7, <1>11, <1>12, <1>13, <1>14 DEF Consistent, Paired

-----------------------------------------------------------------------------
(* The cone of a gate is the least set that holds it and what it reads.    *)

(* What the gates of S read, by themselves and by their pairs.             *)
ReadIn(r, S) ==
  {Reads(p) : p \in {q \in Pins : q[1] \in S}}
    \union {r.fanin[p] : p \in {q \in Pins : q[1] \in S /\ r.fanin[q] # None}}

(* checkLoopIfPatched goes from a set to what its gates read.              *)
LEMMA WidenReads ==
  ASSUME NEW r \in Rp, NEW S \in SUBSET Gate
  PROVE  Widen(S, r) = S \union ReadIn(r, S)
<1>1. \A p \in Pins : p = <<p[1], p[2]>> /\ p[1] \in Gate /\ p[2] \in DOMAIN Fanin[p[1]]
  BY PinsFinite
<1>2. \A g \in S : \A k \in DOMAIN Fanin[g] :
        <<g, k>> \in Pins /\ <<g, k>>[1] = g /\ Reads(<<g, k>>) = Fanin[g][k]
  BY DEF Pins, Reads
<1>3. \A x \in Widen(S, r) : x \in S \union ReadIn(r, S)
  <2> SUFFICES ASSUME NEW g \in S, NEW x, x \in {g} \union ReadBy(r, g)
               PROVE  x \in S \union ReadIn(r, S)
    BY DEF Widen
  <2>1. CASE x = g
    BY <2>1
  <2>2. ASSUME NEW k \in DOMAIN Fanin[g], x = Fanin[g][k] PROVE x \in ReadIn(r, S)
    <3> DEFINE p == <<g, k>>
    <3>1. p \in Pins /\ p[1] \in S /\ x = Reads(p)
      BY <1>2, <2>2
    <3> HIDE DEF p
    <3>2. QED
      BY <3>1 DEF ReadIn
  <2>3. ASSUME NEW k \in DOMAIN Fanin[g], x = r.fanin[<<g, k>>], x # None PROVE x \in ReadIn(r, S)
    BY <1>2, <2>3 DEF ReadIn
  <2>4. QED
    BY <2>1, <2>2, <2>3 DEF ReadBy
<1>4. \A x \in S \union ReadIn(r, S) : x \in Widen(S, r)
  <2>1. ASSUME NEW x \in S PROVE x \in Widen(S, r)
    BY DEF Widen
  <2>2. ASSUME NEW p \in Pins, p[1] \in S
        PROVE  Reads(p) \in ReadBy(r, p[1]) /\ (r.fanin[p] # None => r.fanin[p] \in ReadBy(r, p[1]))
    BY <1>1, <2>2 DEF ReadBy, Reads
  <2>3. QED
    BY <2>1, <2>2 DEF Widen, ReadIn
<1>5. QED
  BY <1>3, <1>4

(* Nothing outside S is read by S.                                         *)
Closed(r, S) == ReadIn(r, S) \subseteq S

(* What a set reads are gates, and more is read by a larger set.           *)
LEMMA ReadInFacts ==
  ASSUME NEW r \in Rp, NEW S
  PROVE  /\ ReadIn(r, S) \subseteq Gate
         /\ \A T : S \subseteq T => ReadIn(r, S) \subseteq ReadIn(r, T)
BY PinsFinite DEF ReadIn, Rp

(* The cone of a gate has the gate, is closed and is in every closed set   *)
(* with the gate: as many rounds as there are gates are enough.            *)
LEMMA ConeLeast ==
  ASSUME NEW r \in Rp, NEW g \in Gate
  PROVE  /\ g \in Cone(r, g) /\ Cone(r, g) \subseteq Gate
         /\ Closed(r, Cone(r, g))
         /\ \A S : g \in S /\ Closed(r, S) => Cone(r, g) \subseteq S
<1> DEFINE n == Cardinality(Gate)
           rounds == [k \in 1 .. Cardinality(Gate) |-> r]
<1>1. n \in Nat /\ IsFiniteSet(Gate)
  BY RecPairsAssumption, FS_CardinalityType
<1>2. rounds \in Seq({r}) /\ Len(rounds) = n /\ \A k \in 1 .. n : rounds[k] = r
  BY <1>1
<1> HIDE DEF rounds
<1>3. PICK acc : /\ ConeFold!Traces(acc, {g}, rounds)
                 /\ FoldLeft(Widen, {g}, rounds) = acc[Len(rounds)]
  BY <1>2, SameFolds, ConeFold!FoldLeftTrace
<1>4. acc[0] = {g} /\ \A i \in 1 .. n : acc[i] = Widen(acc[i - 1], r)
  BY <1>2, <1>3 DEF ConeFold!Traces
<1>5. Cone(r, g) = acc[n]
  BY <1>2, <1>3 DEF Cone, rounds
<1> DEFINE Least(A) == \A S : g \in S /\ Closed(r, S) => A \subseteq S
           G == {i \in 0 .. n : /\ g \in acc[i] /\ acc[i] \subseteq Gate /\ Least(acc[i])
                                /\ Closed(r, acc[i]) \/ Cardinality(acc[i]) > i}
<1> HIDE DEF n
<1>6. 0 \in G
  <2>1. Cardinality({g}) = 1
    BY FS_Singleton
  <2>2. QED
    BY <1>1, <1>4, <2>1
<1>7. ASSUME NEW i \in 1 .. n, i - 1 \in G PROVE i \in G
  <2> DEFINE S == acc[i - 1]
             T == acc[i]
  <2>0. T = Widen(S, r)
    BY <1>4
  <2>2. /\ g \in S /\ S \subseteq Gate /\ Least(S)
        /\ Closed(r, S) \/ Cardinality(S) > i - 1
    BY <1>7
  <2> HIDE DEF S, T
  <2>1. T = S \union ReadIn(r, S)
    BY <2>0, <2>2, WidenReads
  <2>3. S \subseteq T /\ T \subseteq Gate
    BY <2>1, <2>2, ReadInFacts
  <2>4. Least(T)
    <3>1. SUFFICES ASSUME NEW U, g \in U, Closed(r, U) PROVE T \subseteq U
      OBVIOUS
    <3>2. S \subseteq U
      BY <2>2, <3>1
    <3>3. ReadIn(r, S) \subseteq U
      BY <3>1, <3>2, ReadInFacts DEF Closed
    <3>4. QED
      BY <2>1, <3>2, <3>3
  <2>5. Closed(r, T) \/ Cardinality(T) > i
    <3>1. CASE Closed(r, S)
      BY <2>1, <3>1 DEF Closed
    <3>2. CASE ~Closed(r, S)
      <4>1. S # T
        BY <2>1, <3>2 DEF Closed
      <4>2. IsFiniteSet(T) /\ IsFiniteSet(S) /\ Cardinality(S) \in Nat /\ Cardinality(T) \in Nat
        BY <1>1, <2>2, <2>3, FS_Subset, FS_CardinalityType
      <4>3. Cardinality(S) < Cardinality(T)
        BY <2>3, <4>1, <4>2, FS_Subset
      <4>4. QED
        BY <1>1, <2>2, <3>2, <4>2, <4>3
    <3>3. QED
      BY <3>1, <3>2
  <2>6. QED
    BY <2>2, <2>3, <2>4, <2>5 DEF S, T
<1>8. n \in G
  <2> HIDE DEF G
  <2>1. \A i \in 0 .. n : i \in G
    BY <1>1, <1>6, <1>7, ConeFold!IntervalInduction
  <2>2. QED
    BY <1>1, <2>1
<1>9. Closed(r, acc[n])
  <2> DEFINE S == acc[n]
  <2>1. S \subseteq Gate /\ (Closed(r, S) \/ Cardinality(S) > Cardinality(Gate))
    BY <1>8 DEF n
  <2> HIDE DEF S
  <2>2. Cardinality(S) <= Cardinality(Gate) /\ Cardinality(S) \in Nat /\ Cardinality(Gate) \in Nat
    BY <1>1, <2>1, FS_Subset, FS_CardinalityType
  <2>3. Closed(r, S)
    BY <2>1, <2>2
  <2>4. QED
    BY <2>3 DEF S
<1>10. QED
  BY <1>5, <1>8, <1>9

(* No gate reads itself.                                                   *)
Acyclic(r) == \A p \in Pins : r.fanin[p] # None => p[1] \notin Cone(r, r.fanin[p])

(* Pins in no gate that rec reads can be given to rec: what rec reads is   *)
(* what it read before, and any other cone grows by this at most.          *)
LEMMA PinsAcyclic ==
  ASSUME NEW r \in Rp, Acyclic(r), NEW rec \in Gate, NEW pins \in SUBSET Pins,
         \A p \in pins : p[1] \notin Cone(r, rec),
         NEW new \in Rp, new.fanin = Put(r.fanin, pins, rec)
  PROVE  Acyclic(new)
<1> DEFINE R == Cone(r, rec)
<1>2. rec \in Gate /\ None \notin Gate
  BY RecPairsAssumption
<1>3. new.fanin = [p \in Pins |-> IF p \in pins THEN rec ELSE r.fanin[p]]
  BY DEF Put
<1>4. pins \subseteq Pins /\ \A p \in pins : p[1] \notin R
  OBVIOUS
<1>5. rec \in R /\ Closed(r, R)
  BY <1>2, ConeLeast
<1> HIDE DEF R
<1>6. \A S : (\A p \in pins : p[1] \notin S) => ReadIn(new, S) = ReadIn(r, S)
  BY <1>3 DEF ReadIn
<1>7. \A S : ReadIn(new, S) \subseteq ReadIn(r, S) \union {rec}
  BY <1>3 DEF ReadIn
<1>8. Cone(new, rec) \subseteq R
  BY <1>2, <1>4, <1>5, <1>6, ConeLeast DEF Closed
<1>9. ASSUME NEW p \in Pins, new.fanin[p] # None, p \notin pins
      PROVE  p[1] \notin Cone(new, new.fanin[p])
  <2> DEFINE x == r.fanin[p]
             X == Cone(r, x)
  <2>1. new.fanin[p] = x /\ x # None /\ x \in Gate /\ p[1] \notin X
    BY <1>3, <1>9 DEF Acyclic, Rp
  <2>2. x \in X /\ Closed(r, X)
    BY <2>1, ConeLeast
  <2>3. \A S : x \in S /\ Closed(r, S) => X \subseteq S
    BY <2>1, ConeLeast
  <2> HIDE DEF X
  <2>4. CASE \A q \in pins : q[1] \notin X
    <3>1. Cone(new, x) \subseteq X
      BY <1>2, <1>6, <2>1, <2>2, <2>4, ConeLeast DEF Closed
    <3>2. QED
      BY <2>1, <3>1
  <2>5. CASE \E q \in pins : q[1] \in X
    <3>1. Closed(r, X \union R)
      BY <1>5, <2>2 DEF Closed, ReadIn
    <3>2. Closed(new, X \union R)
      BY <1>5, <1>7, <3>1 DEF Closed
    <3>3. Cone(new, x) \subseteq X \union R
      BY <1>2, <2>1, <2>2, <3>2, ConeLeast
    <3>4. p[1] \notin R
      <4>1. SUFFICES ASSUME p[1] \in R PROVE FALSE
        OBVIOUS
      <4>2. x \in R
        BY <1>5, <2>1, <4>1 DEF Closed, ReadIn
      <4>3. X \subseteq R
        BY <1>5, <2>3, <4>2
      <4>4. QED
        BY <1>4, <2>5, <4>3
    <3>5. QED
      BY <2>1, <3>3, <3>4
  <2>6. QED
    BY <2>4, <2>5
<1>10. QED
  BY <1>3, <1>4, <1>8, <1>9 DEF Acyclic

(* A pair that the check lets through closes no loop.                      *)
LEMMA AddedAcyclic ==
  ASSUME NEW r \in Rp, Acyclic(r), NEW add \in AddSet, FanoutPins(add.gate) # {},
         LoopFree(r, add)
  PROVE  Acyclic(AddRecPair(r, add))
<1> DEFINE new == AddRecPair(r, add)
           pins == FreePins(r, add)
<1>1. SUFFICES ASSUME new # r PROVE Acyclic(new)
  OBVIOUS
<1>2. new.fanin = Put(r.fanin, pins, add.rec) /\ new \in Rp /\ add.rec \in Gate
  BY <1>1, AddRecPairAdds DEF Added, AddSet
<1>3. pins \in SUBSET Pins /\ \A p \in pins : p[1] \notin Cone(r, add.rec)
  BY DEF LoopFree, FreePins, FirstPins, FanoutPins
<1> HIDE DEF new, pins
<1>4. QED
  BY <1>2, <1>3, PinsAcyclic

(* Taking pairs away closes no loop.                                       *)
LEMMA FewerAcyclic ==
  ASSUME NEW r \in Rp, Acyclic(r), NEW new \in Rp,
         \A p \in Pins : new.fanin[p] \in {None, r.fanin[p]}
  PROVE  Acyclic(new)
<1>1. \A S : ReadIn(new, S) \subseteq ReadIn(r, S)
  BY DEF ReadIn
<1>2. ASSUME NEW x \in Gate PROVE Cone(new, x) \subseteq Cone(r, x)
  BY <1>1, ConeLeast DEF Closed
<1>3. QED
  BY <1>2 DEF Acyclic, Rp

-----------------------------------------------------------------------------
(* The outputs, then the cuts.                                             *)

(* The one pin of the k-th dummy output; the pairs of the outputs are on   *)
(* such pins only.                                                         *)
OutputPin(k) == <<POs[k][1], 1>>

OnlyOutputs(r) == \A p \in Pins : r.fanin[p] # None => \E k \in DOMAIN POs : p = OutputPin(k)

(* The pair of an output is the first one of its gate.                     *)
OutputsLead(r) ==
  \A k \in DOMAIN POs :
    LET rec == r.fanin[OutputPin(k)]
    IN rec # None => r.fanout[POs[k][2]] # <<>> /\ r.fanout[POs[k][2]][1] = rec

(* What holds of the pairs while cuts are matched.                         *)
Identified(r) == Consistent(r) /\ OutputsLead(r)

(* A dummy output has one pin, which reads the output's gate, and no pin   *)
(* reads it; no other output has that gate.                                *)
LEMMA OutputFacts ==
  ASSUME NEW k \in DOMAIN POs
  PROVE  /\ POs[k][1] \in Old /\ POs[k][2] \in Old /\ POs[k][3] \in Gol
         /\ POs[k][1] \in Dummies
         /\ OutputPin(k) \in Pins /\ Reads(OutputPin(k)) = POs[k][2]
         /\ \A p \in Pins : p[1] = POs[k][1] => p = OutputPin(k)
         /\ \A i \in DOMAIN POs : POs[i][2] = POs[k][2] => i = k
         /\ \A p \in Pins : Reads(p) \notin Dummies
<1>1. POs \in Seq(Old \X Old \X Gol) /\ Fanin[POs[k][1]] = <<POs[k][2]>>
      /\ \A i \in DOMAIN POs : POs[i][2] = POs[k][2] => i = k
  BY RecPairsAssumption
<1>2. POs[k] \in Old \X Old \X Gol
  BY <1>1
<1>3. DOMAIN <<POs[k][2]>> = {1}
  OBVIOUS
<1>4. OutputPin(k) \in Pins /\ \A p \in Pins : p[1] = POs[k][1] => p = OutputPin(k)
  BY <1>1, <1>2, <1>3, PinsFinite DEF Pins, OutputPin, Gate
<1>5. \A p \in Pins : Reads(p) \notin Dummies
  BY RecPairsAssumption DEF Dummies, FanoutPins
<1>6. QED
  BY <1>1, <1>2, <1>4, <1>5 DEF Dummies, Reads, OutputPin

(* The pairs of the outputs can be added, with dummy outputs as cone.      *)
LEMMA OutputAddsFit ==
  /\ OutputAdds \in Seq(AddSet) /\ Len(OutputAdds) = Len(POs)
  /\ \A k \in 1 .. Len(OutputAdds) :
       /\ k \in DOMAIN POs /\ Fits(OutputAdds[k])
       /\ OutputAdds[k].gate = POs[k][2]
       /\ OutputAdds[k].cone \subseteq Dummies
<1>1. POs \in Seq(Old \X Old \X Gol) /\ Old \intersect Gol = {}
  BY RecPairsAssumption
<1>2. Len(POs) \in Nat /\ DOMAIN POs = 1 .. Len(POs) /\ DOMAIN OutputAdds = 1 .. Len(POs)
  BY <1>1 DEF OutputAdds
<1>3. ASSUME NEW k \in DOMAIN POs
      PROVE  /\ OutputAdds[k] \in AddSet /\ Fits(OutputAdds[k])
             /\ OutputAdds[k].gate = POs[k][2]
             /\ OutputAdds[k].cone \subseteq Dummies
  <2> DEFINE cone == {POs[i][1] : i \in 1 .. k}
  <2>1. cone \subseteq Dummies /\ Dummies \subseteq Old
    BY <1>2, OutputFacts DEF Dummies
  <2>2. OutputAdds[k] = [gate |-> POs[k][2], rec |-> POs[k][3], cone |-> cone]
    BY DEF OutputAdds
  <2>3. OutputPin(k) \in FanoutPins(POs[k][2])
    BY OutputFacts DEF FanoutPins
  <2> HIDE DEF cone
  <2>4. OutputAdds[k] \in AddSet
    BY <2>1, <2>2, OutputFacts DEF AddSet, Gate
  <2>5. QED
    BY <1>1, <2>1, <2>2, <2>3, <2>4, OutputFacts DEF Fits
<1>4. OutputAdds \in Seq(AddSet) /\ Len(OutputAdds) = Len(POs)
  <2>1. OutputAdds = [k \in 1 .. Len(POs) |-> OutputAdds[k]]
    BY <1>2 DEF OutputAdds
  <2>2. \A k \in 1 .. Len(POs) : OutputAdds[k] \in AddSet
    BY <1>2, <1>3
  <2> HIDE DEF OutputAdds
  <2>3. QED
    BY <1>2, <2>1, <2>2
<1>5. QED
  BY <1>2, <1>3, <1>4

(* The first loop of identifyRecPairs leaves consistent pairs, on the      *)
(* dummy outputs only.                                                     *)
LEMMA OutputsAdded ==
  ASSUME NEW r, Consistent(r), OnlyOutputs(r)
  PROVE  Consistent(AddPairs(r, OutputAdds)) /\ OnlyOutputs(AddPairs(r, OutputAdds))
<1> DEFINE G == {s \in Rp : Consistent(s) /\ OnlyOutputs(s)}
<1>1. ASSUME NEW s \in G, NEW k \in 1 .. Len(OutputAdds)
      PROVE  AddRecPair(s, OutputAdds[k]) \in G
  <2> DEFINE add == OutputAdds[k]
             new == AddRecPair(s, add)
  <2>1. /\ Fits(add) /\ add \in AddSet /\ FanoutPins(add.gate) # {} /\ k \in DOMAIN POs
        /\ add.gate = POs[k][2] /\ add.cone \subseteq Dummies
    BY OutputAddsFit DEF Fits
  <2>a. Consistent(s) /\ OnlyOutputs(s) /\ s \in Rp
    OBVIOUS
  <2> HIDE DEF add, new, G
  <2>2. Consistent(new)
    BY <2>a, <2>1, AddedConsistent DEF new
  <2>3. CASE new = s
    BY <2>3 DEF new, add
  <2>4. CASE new # s
    <3>1. Added(s, add, new)
      BY <2>a, <2>1, <2>4, AddRecPairAdds DEF new
    <3>2. ASSUME NEW p \in Pins, new.fanin[p] # None PROVE \E i \in DOMAIN POs : p = OutputPin(i)
      <4>1. CASE p \in FreePins(s, add)
        <5>1. p[1] \in Dummies
          BY <2>1, <4>1 DEF FreePins, FirstPins
        <5>2. PICK i \in DOMAIN POs : p[1] = POs[i][1]
          BY <5>1 DEF Dummies
        <5>3. QED
          BY <5>2, OutputFacts
      <4>2. CASE p \notin FreePins(s, add)
        <5>1. s.fanin[p] # None
          BY <3>1, <3>2, <4>2 DEF Added, Put
        <5>2. QED
          BY <2>a, <5>1 DEF OnlyOutputs
      <4>3. QED
        BY <4>1, <4>2
    <3>3. OnlyOutputs(new) /\ new \in Rp
      BY <2>2, <3>2 DEF OnlyOutputs, Consistent, Paired
    <3>4. QED
      BY <2>2, <3>3 DEF G, new, add
  <2>5. QED
    BY <2>3, <2>4
<1>2. r \in G
  BY DEF Consistent, Paired
<1> HIDE DEF G
<1>3. AddFold!LeftFold(r, OutputAdds) \in G
  BY <1>1, <1>2, OutputAddsFit, AddFold!FoldLeftPreserves
<1> DEFINE all == AddPairs(r, OutputAdds)
<1>4. all \in G
  BY <1>3, SameFolds DEF AddPairs
<1> HIDE DEF all
<1>5. Consistent(all) /\ OnlyOutputs(all)
  BY <1>4 DEF G
<1>6. QED
  BY <1>5 DEF all

(* With pairs on the dummy outputs only, an output's pair is the first one *)
(* of its gate and there is no loop.                                       *)
LEMMA OutputsOnlyLead ==
  ASSUME NEW r, Consistent(r), OnlyOutputs(r)
  PROVE  OutputsLead(r) /\ Acyclic(r)
<1>1. r \in Rp
  BY DEF Consistent, Paired
<1>2. ASSUME NEW k \in DOMAIN POs, r.fanin[OutputPin(k)] # None
      PROVE  /\ r.fanout[POs[k][2]] # <<>>
             /\ r.fanout[POs[k][2]][1] = r.fanin[OutputPin(k)]
  <2> DEFINE g == POs[k][2]
             rec == r.fanin[OutputPin(k)]
  <2>1. g \in Gate /\ OutputPin(k) \in FanoutPins(g)
    BY OutputFacts DEF Gate, FanoutPins
  <2>2. \A p \in FanoutPins(g) : r.fanin[p] # None => p = OutputPin(k)
    BY OutputFacts DEF OnlyOutputs, FanoutPins
  <2>3. Range(r.fanout[g]) = {rec} /\ r.fanout[g] \in Seq(Gate)
    BY <1>1, <1>2, <2>1, <2>2 DEF Consistent, Paired, Together, Rp
  <2>4. PICK i \in DOMAIN r.fanout[g] : r.fanout[g][i] = rec
    BY <2>3 DEF Range
  <2>5. r.fanout[g] # <<>> /\ 1 \in DOMAIN r.fanout[g]
    BY <2>3, <2>4
  <2>6. QED
    BY <2>3, <2>5 DEF Range
<1>3. ASSUME NEW p \in Pins, r.fanin[p] # None PROVE p[1] \notin Cone(r, r.fanin[p])
  <2> DEFINE S == Gate \ {p[1]}
  <2>1. p[1] \in Dummies /\ r.fanin[p] \in Gate
    <3>1. PICK k \in DOMAIN POs : p = OutputPin(k)
      BY <1>3 DEF OnlyOutputs
    <3>2. p[1] \in Dummies
      BY <3>1, OutputFacts DEF OutputPin
    <3>3. QED
      BY <1>1, <1>3, <3>2 DEF Rp
  <2>2. \A q \in Pins : Reads(q) \in S /\ (r.fanin[q] # None => r.fanin[q] \in S)
    <3>1. ASSUME NEW q \in Pins PROVE Reads(q) \in S
      BY <2>1, OutputFacts, PinsFinite DEF Dummies
    <3>2. ASSUME NEW q \in Pins, r.fanin[q] # None PROVE r.fanin[q] \in S
      BY <1>1, <2>1, <3>2 DEF Consistent, Paired, NoDummies, Rp
    <3>3. QED
      BY <3>1, <3>2
  <2>3. Closed(r, S) /\ r.fanin[p] \in S
    BY <1>3, <2>2 DEF Closed, ReadIn
  <2>4. QED
    BY <1>1, <2>1, <2>3, ConeLeast
<1>4. QED
  BY <1>2, <1>3 DEF OutputsLead, Acyclic

(* The pairs of a cut, backward ones or not.                               *)
CutAdd(add) == Fits(add) /\ add.cone \intersect Dummies = {}

(* The pairs of a cut can be added, away from the dummy outputs.           *)
LEMMA CutAddsFit ==
  ASSUME NEW cut \in Cuts \union BwdCuts
  PROVE  /\ Adds(cut) \in Seq(AddSet) /\ Len(Adds(cut)) = Len(cut.pairs)
         /\ DOMAIN cut.pairs = 1 .. Len(Adds(cut))
         /\ \A k \in 1 .. Len(Adds(cut)) : /\ CutAdd(Adds(cut)[k])
                                           /\ cut \in BwdCuts => Adds(cut)[k].gate \in Gol
<1>1. /\ cut \in [cone : SUBSET Gate, pairs : Seq(Gate \X Gate)]
      /\ cut \in Cuts => cut.pairs \in Seq(Old \X Gol)
      /\ cut \in BwdCuts => cut.pairs \in Seq(Gol \X Old)
  <2>1. ASSUME cut \in Cuts
        PROVE  cut.cone \in SUBSET Old /\ cut.pairs \in Seq(Old \X Gol)
               /\ cut = [cone |-> cut.cone, pairs |-> cut.pairs]
    <3>1. cut \in [cone : SUBSET Old, pairs : Seq(Old \X Gol)]
      BY <2>1, RecPairsAssumption
    <3>2. QED
      BY <3>1
  <2>2. ASSUME cut \in BwdCuts
        PROVE  cut.cone \in SUBSET Gol /\ cut.pairs \in Seq(Gol \X Old)
               /\ cut = [cone |-> cut.cone, pairs |-> cut.pairs]
    <3>1. cut \in [cone : SUBSET Gol, pairs : Seq(Gol \X Old)]
      BY <2>2, RecPairsAssumption
    <3>2. QED
      BY <3>1
  <2>3. Old \X Gol \subseteq Gate \X Gate /\ Gol \X Old \subseteq Gate \X Gate
    BY DEF Gate
  <2>4. cut.pairs \in Seq(Gate \X Gate) /\ cut.cone \in SUBSET Gate
    BY <2>1, <2>2, <2>3 DEF Gate
  <2>5. QED
    BY <2>1, <2>2, <2>4
<1>2. Len(cut.pairs) \in Nat /\ DOMAIN cut.pairs = 1 .. Len(cut.pairs)
  BY <1>1
<1>3. ASSUME NEW k \in 1 .. Len(cut.pairs)
      PROVE  /\ Adds(cut)[k] \in AddSet /\ CutAdd(Adds(cut)[k])
             /\ cut \in BwdCuts => Adds(cut)[k].gate \in Gol
  <2> DEFINE g == cut.pairs[k][1]
             h == cut.pairs[k][2]
             add == Adds(cut)[k]
  <2>1. add = [gate |-> g, rec |-> h, cone |-> cut.cone]
    BY <1>2 DEF Adds
  <2>2. /\ k \in DOMAIN cut.pairs /\ cut.pairs[k] = <<g, h>> /\ cut.pairs[k] \in Gate \X Gate
        /\ cut \in Cuts => g \in Old /\ h \in Gol
        /\ cut \in BwdCuts => g \in Gol /\ h \in Old
    <3>1. k \in DOMAIN cut.pairs
      BY <1>2
    <3>2. cut.pairs[k] \in Gate \X Gate
      BY <1>1, <3>1
    <3>3. cut \in Cuts => cut.pairs[k] \in Old \X Gol
      BY <1>1, <3>1
    <3>4. cut \in BwdCuts => cut.pairs[k] \in Gol \X Old
      BY <1>1, <3>1
    <3>5. QED
      BY <3>1, <3>2, <3>3, <3>4
  <2>3. FanoutPins(g) # {} /\ h \notin Dummies /\ cut.cone \intersect Dummies = {}
    BY <2>2, RecPairsAssumption DEF Dummies
  <2>5. Old \intersect Gol = {}
    BY RecPairsAssumption
  <2> HIDE DEF add, g, h
  <2>6. add \in AddSet
    BY <1>1, <2>1, <2>2 DEF AddSet
  <2>7. g \in Old <=> h \in Gol
    BY <2>2, <2>5
  <2>8. CutAdd(add)
    BY <2>1, <2>3, <2>6, <2>7 DEF CutAdd, Fits
  <2>9. cut \in BwdCuts => add.gate \in Gol
    BY <2>1, <2>2
  <2>10. QED
    BY <2>6, <2>8, <2>9 DEF add
<1>4. Adds(cut) \in Seq(AddSet) /\ Len(Adds(cut)) = Len(cut.pairs)
  <2>1. Adds(cut) = [k \in 1 .. Len(cut.pairs) |-> Adds(cut)[k]]
    BY <1>2 DEF Adds
  <2>2. QED
    BY <1>2, <1>3, <2>1
<1>5. QED
  BY <1>2, <1>3, <1>4

(* A pair of a cut leaves the pairs of the outputs first.                  *)
LEMMA CutAdded ==
  ASSUME NEW r, Identified(r), NEW add, CutAdd(add)
  PROVE  Identified(AddRecPair(r, add))
<1> DEFINE new == AddRecPair(r, add)
<1>1. SUFFICES ASSUME new # r PROVE Identified(new)
  OBVIOUS
<1>2. /\ r \in Rp /\ Consistent(r) /\ Fits(add) /\ add \in AddSet /\ FanoutPins(add.gate) # {}
      /\ add.gate \in Gate /\ add.rec \in Gate
  BY DEF Identified, Consistent, Paired, CutAdd, Fits, AddSet
<1>3. Added(r, add, new)
  BY <1>1, <1>2, AddRecPairAdds
<1>4. Consistent(new)
  BY <1>2, AddedConsistent
<1> HIDE DEF new
<1>5. OutputsLead(new)
  <2>1. SUFFICES ASSUME NEW k \in DOMAIN POs, new.fanin[OutputPin(k)] # None
                 PROVE  /\ new.fanout[POs[k][2]] # <<>>
                        /\ new.fanout[POs[k][2]][1] = new.fanin[OutputPin(k)]
    BY DEF OutputsLead
  <2> DEFINE g == POs[k][2]
  <2>2. OutputPin(k) \in Pins /\ OutputPin(k)[1] \in Dummies /\ g \in Gate
    BY OutputFacts DEF OutputPin, Gate
  <2>3. OutputPin(k) \notin FreePins(r, add)
    BY <2>2 DEF CutAdd, FreePins, FirstPins
  <2>4. new.fanin[OutputPin(k)] = r.fanin[OutputPin(k)]
    BY <1>3, <2>2, <2>3 DEF Added, Put
  <2>5. r.fanout[g] # <<>> /\ r.fanout[g][1] = new.fanin[OutputPin(k)] /\ r.fanout[g] \in Seq(Gate)
    BY <1>2, <2>1, <2>2, <2>4 DEF Identified, OutputsLead, Rp
  <2>6. new.fanout[g] = r.fanout[g] \/ new.fanout[g] = Append(r.fanout[g], add.rec)
    BY <1>2, <1>3, <2>2 DEF Added, Rp
  <2> HIDE DEF g
  <2>7. 1 \in 1 .. Len(r.fanout[g])
    BY <2>5
  <2>8. QED
    BY <1>2, <2>5, <2>6, <2>7 DEF g
<1>6. QED
  BY <1>4, <1>5 DEF Identified

(* With option r, no loop is closed.                                       *)
KeptAcyclic(r, new) == optionR /\ Acyclic(r) => Acyclic(new)

(* No pin loses its pair.                                                  *)
PairsKept(r, new) == \A p \in Pins : r.fanin[p] # None => new.fanin[p] = r.fanin[p]

(* addRecPair takes no pair from a pin: a pin's pair is the one it had, or *)
(* it had none and the pair is the one that is added.                      *)
LEMMA AddedPins ==
  ASSUME NEW r \in Rp, NEW add, Fits(add), NEW p \in Pins
  PROVE  \/ AddRecPair(r, add).fanin[p] = r.fanin[p]
         \/ /\ r.fanin[p] = None /\ AddRecPair(r, add).fanin[p] = add.rec
            /\ p \in FanoutPins(add.gate) /\ p[1] \in add.cone
<1> DEFINE new == AddRecPair(r, add)
<1>1. CASE new = r
  BY <1>1
<1>2. CASE new # r
  <2>1. new.fanin = Put(r.fanin, FreePins(r, add), add.rec)
    BY <1>2, AddRecPairAdds DEF Added, Fits
  <2>2. CASE p \in FreePins(r, add)
    <3>1. r.fanin[p] = None /\ p \in FanoutPins(add.gate) /\ p[1] \in add.cone
      BY <2>2 DEF FreePins, FirstPins
    <3>2. new.fanin[p] = add.rec
      BY <2>1, <2>2 DEF Put
    <3>3. QED
      BY <3>1, <3>2
  <2>3. CASE p \notin FreePins(r, add)
    BY <2>1, <2>3 DEF Put
  <2>4. QED
    BY <2>2, <2>3
<1>3. QED
  BY <1>1, <1>2

(* The pairs of a cut, each behind checkLoopIfPatched, close no loop.      *)
LEMMA CutsAdded ==
  ASSUME NEW r, Identified(r), NEW cut \in Cuts
  PROVE  /\ Identified(AddLoopFree(r, Adds(cut)))
         /\ KeptAcyclic(r, AddLoopFree(r, Adds(cut)))
         /\ PairsKept(r, AddLoopFree(r, Adds(cut)))
<1> DEFINE adds == Adds(cut)
           G == {s \in Rp : Identified(s) /\ KeptAcyclic(r, s) /\ PairsKept(r, s)}
<1>1. ASSUME NEW s \in G, NEW k \in 1 .. Len(adds)
      PROVE  AddUnlessLoop(s, adds[k]) \in G
  <2> DEFINE add == adds[k]
             new == AddRecPair(s, add)
  <2>1. Fits(add) /\ add \in AddSet /\ FanoutPins(add.gate) # {} /\ CutAdd(add)
    BY CutAddsFit DEF CutAdd, Fits
  <2>2. Identified(s) /\ KeptAcyclic(r, s) /\ PairsKept(r, s) /\ s \in Rp
    OBVIOUS
  <2> HIDE DEF add, G
  <2>3. Identified(new) /\ new \in Rp
    BY <2>1, <2>2, CutAdded DEF Identified, Consistent, Paired
  <2>a. PairsKept(r, new)
    <3>1. \A p \in Pins : s.fanin[p] # None => new.fanin[p] = s.fanin[p]
      BY <2>1, <2>2, AddedPins
    <3>2. QED
      BY <2>2, <3>1 DEF PairsKept
  <2> HIDE DEF new
  <2>4. CASE optionR /\ ~LoopFree(s, add)
    BY <2>4 DEF AddUnlessLoop, add
  <2>5. CASE optionR /\ LoopFree(s, add)
    <3>1. Acyclic(s) => Acyclic(new)
      BY <2>1, <2>2, <2>5, AddedAcyclic DEF new
    <3>2. AddUnlessLoop(s, add) = new
      BY <2>5 DEF AddUnlessLoop, new
    <3>3. QED
      BY <2>2, <2>3, <2>a, <3>1, <3>2 DEF KeptAcyclic, G, add
  <2>6. CASE ~optionR
    <3>1. AddUnlessLoop(s, add) = new
      BY <2>6 DEF AddUnlessLoop, new
    <3>2. QED
      BY <2>3, <2>a, <2>6, <3>1 DEF KeptAcyclic, G, add
  <2>7. QED
    BY <2>4, <2>5, <2>6
<1>2. r \in G
  BY DEF Identified, Consistent, Paired, KeptAcyclic, PairsKept
<1>3. adds \in Seq(AddSet)
  BY CutAddsFit
<1> HIDE DEF G, adds
<1>4. FoldLeft(AddUnlessLoop, r, adds) \in G
  BY <1>1, <1>2, <1>3, SameFolds, LoopFold!FoldLeftPreserves
<1> DEFINE all == FoldLeft(AddUnlessLoop, r, adds)
<1>5. all = AddLoopFree(r, Adds(cut))
  BY DEF adds, AddLoopFree
<1> HIDE DEF all
<1>6. Identified(all) /\ KeptAcyclic(r, all) /\ PairsKept(r, all)
  BY <1>4 DEF G, all
<1>7. QED
  BY <1>5, <1>6

(* The step from r to new patches p.                                       *)
PatchedIn(r, new, p) == r.fanin[p] = None /\ new.fanin[p] # None

(* Two golden pins are patched that read different gates or are patched    *)
(* with different ones.                                                    *)
TwoPatches(r, new) ==
  \E p, q \in GolPins :
    /\ PatchedIn(r, new, p) /\ PatchedIn(r, new, q)
    /\ <<Reads(p), new.fanin[p]>> # <<Reads(q), new.fanin[q]>>

(* The patches of a backward cut, each of which closes no loop by itself,  *)
(* close one only together.                                                *)
LEMMA BwdAdded ==
  ASSUME NEW r, Identified(r), NEW cut \in BwdCuts
  PROVE  /\ Identified(AddPairs(r, Adds(cut)))
         /\ (Acyclic(r) /\ \A k \in DOMAIN cut.pairs : LoopFree(r, Adds(cut)[k]))
              => Acyclic(AddPairs(r, Adds(cut))) \/ TwoPatches(r, AddPairs(r, Adds(cut)))
<1> DEFINE adds == Adds(cut)
           Grown(s) == \A p \in Pins :
             \/ s.fanin[p] = r.fanin[p]
             \/ /\ r.fanin[p] = None
                /\ \E k \in 1 .. Len(adds) : /\ s.fanin[p] = adds[k].rec
                                             /\ p \in FanoutPins(adds[k].gate)
                                             /\ p[1] \in adds[k].cone
           G == {s \in Rp : Identified(s) /\ Grown(s)}
<1>1. ASSUME NEW s \in G, NEW k \in 1 .. Len(adds)
      PROVE  AddRecPair(s, adds[k]) \in G
  <2> DEFINE new == AddRecPair(s, adds[k])
  <2>1. Identified(s) /\ CutAdd(adds[k]) /\ s \in Rp /\ Fits(adds[k]) /\ Grown(s)
    BY CutAddsFit DEF CutAdd
  <2>2. Identified(new)
    BY <2>1, CutAdded
  <2>3. Grown(new)
    <3> SUFFICES ASSUME NEW p \in Pins, new.fanin[p] # r.fanin[p]
                 PROVE  /\ r.fanin[p] = None
                        /\ \E i \in 1 .. Len(adds) : /\ new.fanin[p] = adds[i].rec
                                                     /\ p \in FanoutPins(adds[i].gate)
                                                     /\ p[1] \in adds[i].cone
      OBVIOUS
    <3>1. \/ new.fanin[p] = s.fanin[p]
          \/ /\ s.fanin[p] = None /\ new.fanin[p] = adds[k].rec
             /\ p \in FanoutPins(adds[k].gate) /\ p[1] \in adds[k].cone
      BY <2>1, AddedPins
    <3>2. \A i \in 1 .. Len(adds) : adds[i].rec # None
      <4>1. \A i \in 1 .. Len(adds) : Fits(adds[i])
        BY CutAddsFit DEF CutAdd
      <4> HIDE DEF adds
      <4>2. QED
        BY <4>1, RecPairsAssumption DEF Fits, AddSet
    <3> HIDE DEF new, adds
    <3>3. CASE new.fanin[p] = s.fanin[p]
      BY <2>1, <3>3
    <3>4. CASE new.fanin[p] # s.fanin[p]
      BY <2>1, <3>1, <3>2, <3>4
    <3>5. QED
      BY <3>3, <3>4
  <2> HIDE DEF Grown
  <2>4. QED
    BY <2>2, <2>3 DEF Identified, Consistent, Paired
<1>2. r \in G
  BY DEF Identified, Consistent, Paired
<1>3. adds \in Seq(AddSet) /\ DOMAIN cut.pairs = 1 .. Len(adds)
  BY CutAddsFit
<1>4. \A k \in 1 .. Len(adds) : adds[k].gate \in Gol /\ adds[k].rec \in Gate
  <2>1. \A k \in 1 .. Len(adds) : adds[k].gate \in Gol /\ Fits(adds[k])
    BY CutAddsFit DEF CutAdd
  <2> HIDE DEF adds
  <2>2. QED
    BY <2>1 DEF Fits, AddSet
<1> HIDE DEF G
<1> DEFINE all == AddPairs(r, adds)
<1>5. all \in G
  <2>1. all = FoldLeft(AddRecPair, r, adds)
    BY DEF AddPairs
  <2> HIDE DEF adds, all
  <2>2. QED
    BY <1>1, <1>2, <1>3, <2>1, SameFolds, AddFold!FoldLeftPreserves
<1> HIDE DEF all
<1>6. Identified(all) /\ Grown(all) /\ all \in Rp /\ r \in Rp
  BY <1>5 DEF G, Identified, Consistent, Paired
<1>7. ASSUME Acyclic(r), \A k \in 1 .. Len(adds) : LoopFree(r, adds[k]), ~TwoPatches(r, all)
      PROVE  Acyclic(all)
  <2> DEFINE pins == {p \in Pins : PatchedIn(r, all, p)}
  <2>1. \A p \in Pins : p \notin pins => all.fanin[p] = r.fanin[p]
    BY <1>6, RecPairsAssumption DEF PatchedIn
  <2>2. ASSUME NEW p \in pins
        PROVE  /\ p \in GolPins
               /\ \E k \in 1 .. Len(adds) : /\ all.fanin[p] = adds[k].rec
                                            /\ p \in FanoutPins(adds[k].gate)
                                            /\ p[1] \in adds[k].cone
    <3>1. PICK k \in 1 .. Len(adds) : /\ all.fanin[p] = adds[k].rec
                                      /\ p \in FanoutPins(adds[k].gate)
                                      /\ p[1] \in adds[k].cone
      BY <1>6 DEF PatchedIn
    <3>2. p \in Pins /\ Reads(p) \in Gol /\ Reads(p) \notin Old
      BY <1>4, <3>1, RecPairsAssumption DEF FanoutPins
    <3>3. p[1] \in Gol
      BY <3>2, PinsFinite, RecPairsAssumption DEF Gate
    <3>4. QED
      BY <3>1, <3>2, <3>3 DEF GolPins
  <2>3. CASE pins = {}
    <3>1. \A p \in Pins : all.fanin[p] = r.fanin[p]
      BY <2>1, <2>3
    <3> HIDE DEF pins
    <3>2. QED
      BY <1>6, <1>7, <3>1, FewerAcyclic
  <2>4. CASE pins # {}
    <3>1. PICK o \in pins : TRUE
      BY <2>4
    <3> DEFINE rec == all.fanin[o]
    <3>2. \A p \in pins : all.fanin[p] = rec
      BY <1>7, <2>2, <3>1 DEF TwoPatches
    <3>3. rec \in Gate
      BY <1>4, <2>2, <3>1
    <3>4. \A p \in pins : p[1] \notin Cone(r, rec)
      <4> SUFFICES ASSUME NEW p \in pins PROVE p[1] \notin Cone(r, rec)
        OBVIOUS
      <4>1. PICK k \in 1 .. Len(adds) : /\ all.fanin[p] = adds[k].rec
                                        /\ p \in FanoutPins(adds[k].gate)
                                        /\ p[1] \in adds[k].cone
        BY <2>2
      <4>2. adds[k].rec = rec /\ LoopFree(r, adds[k])
        BY <1>7, <3>2, <4>1
      <4>3. QED
        BY <4>1, <4>2 DEF LoopFree
    <3>5. all.fanin = Put(r.fanin, pins, rec)
      <4>1. all.fanin \in [Pins -> Gate \union {None}]
        BY <1>6 DEF Rp
      <4>2. \A p \in Pins : all.fanin[p] = IF p \in pins THEN rec ELSE r.fanin[p]
        BY <2>1, <3>2
      <4> HIDE DEF rec, pins
      <4>3. QED
        BY <4>1, <4>2 DEF Put
    <3>6. pins \in SUBSET Pins
      OBVIOUS
    <3> HIDE DEF rec, pins
    <3>7. QED
      BY <1>6, <1>7, <3>3, <3>4, <3>5, <3>6, PinsAcyclic
  <2>5. QED
    BY <2>3, <2>4
<1>8. QED
  BY <1>3, <1>6, <1>7 DEF all

-----------------------------------------------------------------------------
(* Sequences: one after the other, a set's elements in some order, a       *)
(* permutation.                                                            *)

(* What concatenation does to the elements and to their being distinct.    *)
LEMMA Concatenating ==
  ASSUME NEW S, NEW s \in Seq(S), NEW t \in Seq(S)
  PROVE  /\ s \o t \in Seq(S) /\ Len(s \o t) = Len(s) + Len(t)
         /\ \A i \in 1 .. Len(s) : (s \o t)[i] = s[i]
         /\ \A i \in 1 .. Len(t) : (s \o t)[Len(s) + i] = t[i]
         /\ Range(s \o t) = Range(s) \union Range(t)
         /\ IsInjective(s) /\ IsInjective(t) /\ Range(s) \intersect Range(t) = {}
              => IsInjective(s \o t)
<1> DEFINE u == s \o t
<1>1. /\ u \in Seq(S) /\ Len(u) = Len(s) + Len(t) /\ Len(s) \in Nat /\ Len(t) \in Nat
      /\ DOMAIN s = 1 .. Len(s) /\ DOMAIN t = 1 .. Len(t) /\ DOMAIN u = 1 .. Len(s) + Len(t)
      /\ \A i \in 1 .. Len(s) : u[i] = s[i]
      /\ \A i \in 1 .. Len(s) + Len(t) : i > Len(s) => u[i] = t[i - Len(s)]
  OBVIOUS
<1> HIDE DEF u
<1>2. \A i \in 1 .. Len(t) : /\ Len(s) + i \in DOMAIN u /\ u[Len(s) + i] = t[i]
  <2> TAKE i \in 1 .. Len(t)
  <2>1. Len(s) + i \in 1 .. Len(s) + Len(t) /\ Len(s) + i > Len(s) /\ (Len(s) + i) - Len(s) = i
    BY <1>1
  <2>2. QED
    BY <1>1, <2>1
<1>3. \A i \in DOMAIN u : i \in DOMAIN s \/ (i > Len(s) /\ i - Len(s) \in DOMAIN t)
  BY <1>1
<1>4. Range(u) = Range(s) \union Range(t)
  <2>1. Range(u) \subseteq Range(s) \union Range(t)
    BY <1>1, <1>3 DEF Range
  <2>2. Range(s) \subseteq Range(u)
    BY <1>1 DEF Range
  <2>3. Range(t) \subseteq Range(u)
    BY <1>1, <1>2 DEF Range
  <2>4. QED
    BY <2>1, <2>2, <2>3
<1>5. ASSUME IsInjective(s), IsInjective(t), Range(s) \intersect Range(t) = {}
      PROVE  IsInjective(u)
  <2>1. SUFFICES ASSUME NEW i \in DOMAIN u, NEW k \in DOMAIN u, u[i] = u[k] PROVE i = k
    BY DEF IsInjective
  <2>2. CASE i \in DOMAIN s /\ k \in DOMAIN s
    BY <1>1, <1>5, <2>1, <2>2 DEF IsInjective
  <2>3. CASE i \notin DOMAIN s /\ k \notin DOMAIN s
    <3>1. i - Len(s) = k - Len(s)
      BY <1>1, <1>3, <1>5, <2>1, <2>3 DEF IsInjective
    <3>2. QED
      BY <1>1, <3>1
  <2>4. CASE i \in DOMAIN s /\ k \notin DOMAIN s
    BY <1>1, <1>3, <1>5, <2>1, <2>4 DEF Range
  <2>5. CASE i \notin DOMAIN s /\ k \in DOMAIN s
    BY <1>1, <1>3, <1>5, <2>1, <2>5 DEF Range
  <2>6. QED
    BY <2>2, <2>3, <2>4, <2>5
<1>6. QED
  BY <1>1, <1>2, <1>4, <1>5 DEF u

(* SetToSeq has each element of a finite set once.                         *)
LEMMA SetToSeqLists ==
  ASSUME NEW S, IsFiniteSet(S)
  PROVE  SetToSeq(S) \in Seq(S) /\ IsInjective(SetToSeq(S)) /\ Range(SetToSeq(S)) = S
<1> DEFINE n == Cardinality(S)
<1>1. n \in Nat /\ ExistsBijection(1 .. n, S)
  BY FS_CardinalityType
<1>2. PICK b : b \in Bijection(1 .. n, S)
  BY <1>1 DEF ExistsBijection
<1>3. b \in [1 .. n -> S] /\ IsInjective(b)
  BY <1>2 DEF Bijection, Injection, IsInjective
<1> DEFINE f == SetToSeq(S)
<1>4. f \in [1 .. n -> S] /\ IsInjective(f)
  BY <1>3 DEF SetToSeq
<1> HIDE DEF f
<1>5. f \in Injection(1 .. n, S)
  BY <1>4 DEF Injection, IsInjective
<1>6. Cardinality(1 .. n) = n
  BY <1>1, FS_Interval
<1>7. f \in Surjection(1 .. n, S)
  BY <1>5, <1>6, FS_Injection
<1>8. Range(f) = S
  BY <1>4, <1>7 DEF Surjection, Range
<1>9. f \in Seq(S)
  BY <1>1, <1>4
<1>10. QED
  BY <1>4, <1>8, <1>9 DEF f

(* Sorting keeps the elements, each once.                                  *)
LEMMA SortedPermutes ==
  ASSUME NEW S, NEW s \in Seq(S), IsInjective(s), NEW t \in Sorted(s)
  PROVE  t \in Seq(S) /\ IsInjective(t) /\ Range(t) = Range(s)
<1> DEFINE D == DOMAIN s
<1>1. PICK f \in [D -> D] : IsInjective(f) /\ t = [k \in D |-> s[f[k]]]
  BY DEF Sorted
<1>2. D = 1 .. Len(s) /\ Len(s) \in Nat
  OBVIOUS
<1>3. IsFiniteSet(D)
  BY <1>2, FS_Interval
<1>4. f \in Injection(D, D)
  BY <1>1 DEF Injection, IsInjective
<1> HIDE DEF D
<1>5. f \in Surjection(D, D)
  BY <1>3, <1>4, FS_Injection
<1>6. t \in Seq(S)
  <2>1. \A k \in D : s[k] \in S
    BY DEF D
  <2>2. QED
    BY <1>1, <1>2, <2>1
<1>7. IsInjective(t)
  BY <1>1 DEF IsInjective, D
<1>8. Range(t) = Range(s)
  BY <1>1, <1>5 DEF Range, Surjection, D
<1>9. QED
  BY <1>6, <1>7, <1>8

-----------------------------------------------------------------------------
(* checkBwdPatches.                                                        *)

(* The map has, for each old gate, the golden gates patched with it, each  *)
(* once unless it is twice in _bwdPatchList.                               *)
BwdMapOK(patches) ==
  /\ patches \in [Old -> Seq(Gol)]
  /\ \A g \in Old :
       /\ \A j, k \in DOMAIN patches[g] :
            j # k /\ patches[g][j] = patches[g][k] => ListedTwice(patches[g][j])
       /\ Range(patches[g]) = {gol \in Gol : g \in Range(rp.fanout[gol])}

(* checkBwdPatches builds that map.                                        *)
LEMMA BwdMapRight ==
  ASSUME Paired(rp)
  PROVE  BwdMapOK(BwdMap)
<1> DEFINE l == rp.bwdList
           none == [g \in Old |-> <<>>]
           Upto(g, i) == {l[k] : k \in {x \in 1 .. i : g \in Range(rp.fanout[l[x]])}}
           Once(s) == \A j, k \in DOMAIN s : j # k /\ s[j] = s[k] => ListedTwice(s[j])
<1>1. /\ l \in Seq(Gol) /\ Len(l) \in Nat /\ DOMAIN l = 1 .. Len(l)
      /\ \A gol \in Gol : rp.fanout[gol] # <<>> => gol \in Range(l)
  BY DEF Paired, Rp, InBwdList
<1>2. PICK acc : /\ BwdFold!Traces(acc, none, l)
                 /\ FoldLeft(AddBwd, none, l) = acc[Len(l)]
  BY <1>1, SameFolds, BwdFold!FoldLeftTrace
<1>3. acc[0] = none /\ \A i \in 1 .. Len(l) : acc[i] = AddBwd(acc[i - 1], l[i])
  BY <1>2 DEF BwdFold!Traces
<1> DEFINE G == {i \in 0 .. Len(l) :
                   /\ acc[i] \in [Old -> Seq(Gol)]
                   /\ \A g \in Old : /\ Once(acc[i][g])
                                     /\ Range(acc[i][g]) = Upto(g, i)}
<1>4. 0 \in G
  <2>1. \A g \in Old : acc[0][g] = <<>> /\ Upto(g, 0) = {}
    BY <1>3
  <2>2. acc[0] \in [Old -> Seq(Gol)]
    BY <1>3
  <2>3. Range(<<>>) = {} /\ Once(<<>>)
    BY DEF Range
  <2> HIDE DEF Upto, Once
  <2>4. \A g \in Old : /\ Once(acc[0][g])
                       /\ Range(acc[0][g]) = Upto(g, 0)
    BY <2>1, <2>3
  <2>5. 0 \in 0 .. Len(l)
    BY <1>1
  <2>6. QED
    BY <2>2, <2>4, <2>5
<1>5. ASSUME NEW i \in 1 .. Len(l), i - 1 \in G PROVE i \in G
  <2> DEFINE a == acc[i - 1]
             b == acc[i]
  <2>1. /\ i \in DOMAIN l /\ l[i] \in Gol /\ i \in Nat
        /\ \A x : x \in 1 .. i <=> x \in 1 .. i - 1 \/ x = i
        /\ i \notin 1 .. i - 1 /\ 1 .. i - 1 \subseteq DOMAIN l
    BY <1>1
  <2>2. /\ a \in [Old -> Seq(Gol)]
        /\ \A g \in Old : Once(a[g]) /\ Range(a[g]) = Upto(g, i - 1)
    BY <1>5
  <2>3. b = [g \in Old |-> IF g \in Range(rp.fanout[l[i]]) THEN Append(a[g], l[i]) ELSE a[g]]
    BY <1>3 DEF AddBwd
  <2> HIDE DEF a, b
  <2>4. \A g \in Old : b[g] \in Seq(Gol)
    BY <2>1, <2>2, <2>3
  <2>5. b \in [Old -> Seq(Gol)]
    BY <2>3, <2>4
  <2>6. ASSUME NEW g \in Old
        PROVE  Once(b[g]) /\ Range(b[g]) = Upto(g, i)
    <3>1. CASE g \in Range(rp.fanout[l[i]])
      <4>1. b[g] = Append(a[g], l[i]) /\ a[g] \in Seq(Gol)
        BY <2>2, <2>3, <3>1
      <4>2. Upto(g, i) = Upto(g, i - 1) \union {l[i]}
        BY <2>1, <3>1
      <4>3. l[i] \in Upto(g, i - 1) => ListedTwice(l[i])
        BY <1>1, <2>1 DEF ListedTwice
      <4> HIDE DEF Upto
      <4>4. Range(b[g]) = Upto(g, i)
        BY <2>1, <2>2, <4>1, <4>2, Appending
      <4>5. Once(b[g])
        <5>1. /\ DOMAIN b[g] = DOMAIN a[g] \union {Len(a[g]) + 1} /\ Len(a[g]) + 1 \notin DOMAIN a[g]
              /\ b[g][Len(a[g]) + 1] = l[i] /\ \A x \in DOMAIN a[g] : b[g][x] = a[g][x]
          BY <2>1, <4>1, Appending
        <5>2. \A x \in DOMAIN a[g] : a[g][x] = l[i] => ListedTwice(l[i])
          BY <2>2, <4>3 DEF Range
        <5>3. QED
          BY <2>2, <5>1, <5>2
      <4>6. QED
        BY <4>4, <4>5
    <3>2. CASE g \notin Range(rp.fanout[l[i]])
      <4>1. b[g] = a[g]
        BY <2>3, <3>2
      <4>2. Upto(g, i) = Upto(g, i - 1)
        BY <2>1, <3>2
      <4> HIDE DEF Upto, Once
      <4>3. QED
        BY <2>2, <4>1, <4>2
    <3>3. QED
      BY <3>1, <3>2
  <2> HIDE DEF Upto, Once
  <2>7. QED
    BY <2>5, <2>6 DEF b
<1>6. Len(l) \in G
  <2> HIDE DEF G, l
  <2>1. \A i \in 0 .. Len(l) : i \in G
    BY <1>1, <1>4, <1>5, BwdFold!IntervalInduction
  <2>2. QED
    BY <1>1, <2>1
<1>7. BwdMap = acc[Len(l)]
  BY <1>2 DEF BwdMap
<1>8. ASSUME NEW g \in Old
      PROVE  Upto(g, Len(l)) = {gol \in Gol : g \in Range(rp.fanout[gol])}
  <2>1. ASSUME NEW gol \in Gol, g \in Range(rp.fanout[gol]) PROVE gol \in Upto(g, Len(l))
    <3>1. rp.fanout[gol] # <<>>
      BY <2>1 DEF Range
    <3>2. PICK k \in DOMAIN l : l[k] = gol
      BY <1>1, <3>1 DEF Range
    <3>3. QED
      BY <1>1, <2>1, <3>2
  <2>2. \A gol \in Upto(g, Len(l)) : gol \in Gol /\ g \in Range(rp.fanout[gol])
    BY <1>1
  <2> HIDE DEF Upto
  <2>3. QED
    BY <2>1, <2>2
<1> HIDE DEF Upto
<1>9. QED
  BY <1>6, <1>7, <1>8 DEF BwdMapOK

-----------------------------------------------------------------------------
(* buildSelector: the muxes of the i-th gate follow those of the gates     *)
(* before it, at[i - 1] in number.                                         *)

(* What the selector is built from; only the backward lists may have a gate*)
(* more than once.                                                         *)
SelectorInput ==
  /\ rp.list \in Seq(Old) /\ IsInjective(rp.list)
  /\ rp.fanout \in [Gate -> Seq(Gate)]
  /\ bwdMap \in [Old -> Seq(Gol)]
  /\ \A g \in Old : IsInjective(rp.fanout[g])

(* at[i] muxes belong to the first i gates of the list.                    *)
Starts(at) ==
  /\ at[0] = 0
  /\ \A i \in 0 .. Len(rp.list) : at[i] \in Nat
  /\ \A i \in 1 .. Len(rp.list) : at[i] = at[i - 1] + NumMuxOf(rp.list[i])

(* The nets of a gate's muxes begin behind two for each earlier mux.       *)
Numbered(at, id) ==
  \A i \in 1 .. Len(rp.list) :
    NumMuxOf(rp.list[i]) # 0 => id[rp.list[i]] = MuxBegin + 2 * at[i - 1]

(* The muxes of a gate are its backward patches and its pairs.             *)
LEMMA NumMuxOfType ==
  ASSUME SelectorInput, NEW g \in Old
  PROVE  /\ NumBwd(g) \in Nat /\ NumMuxOf(g) \in Nat
         /\ rp.fanout[g] \in Seq(Gate) /\ bwdMap[g] \in Seq(Gol)
         /\ NumMuxOf(g) = Len(rp.fanout[g]) + NumBwd(g)
         /\ Len(rp.fanout[g]) \in Nat
<1>1. rp.fanout[g] \in Seq(Gate) /\ bwdMap[g] \in Seq(Gol)
  BY DEF SelectorInput, Gate
<1>2. Len(rp.fanout[g]) \in Nat /\ Len(bwdMap[g]) \in Nat
  BY <1>1
<1> DEFINE x == Len(rp.fanout[g])
           y == Len(bwdMap[g])
<1>3. x \in Nat /\ y \in Nat /\ NumBwd(g) = y /\ NumMuxOf(g) = x + y
  BY <1>2 DEF NumBwd, NumMuxOf
<1> HIDE DEF x, y
<1>4. NumBwd(g) \in Nat /\ NumMuxOf(g) \in Nat /\ NumMuxOf(g) = x + NumBwd(g)
  BY <1>3
<1>5. QED
  BY <1>1, <1>2, <1>4 DEF x

(* The first net is a number.                                              *)
LEMMA MuxBeginType == MuxBegin \in Nat
BY RecPairsAssumption, FS_CardinalityType DEF MuxBegin

(* buildSelector numbers the muxes so, and NumMux is their number.         *)
LEMMA NumberingRight ==
  ASSUME SelectorInput, muxId \in [Old -> Int]
  PROVE  \E at : /\ Starts(at) /\ Numbered(at, Numbering.id)
                 /\ NumMux = at[Len(rp.list)] /\ Numbering.id \in [Old -> Int]
<1> DEFINE l == rp.list
           base == [next |-> MuxBegin, id |-> muxId]
<1>1. /\ l \in Seq(Old) /\ IsInjective(l) /\ Len(l) \in Nat /\ DOMAIN l = 1 .. Len(l)
      /\ \A i \in 1 .. Len(l) : l[i] \in Old
      /\ MuxBegin \in Nat
  BY MuxBeginType DEF SelectorInput
<1>2. PICK acc : /\ NumberFold!Traces(acc, base, l)
                 /\ FoldLeft(NumberMux, base, l) = acc[Len(l)]
  BY <1>1, SameFolds, NumberFold!FoldLeftTrace
<1>3. acc[0] = base /\ \A i \in 1 .. Len(l) : acc[i] = NumberMux(acc[i - 1], l[i])
  BY <1>2 DEF NumberFold!Traces
<1> DEFINE m(i) == NumMuxOf(l[i])
<1>4. \A i \in 1 .. Len(l) : m(i) \in Nat
  BY <1>1, NumMuxOfType
<1> DEFINE at == [i \in 0 .. Len(l) |-> (acc[i].next - MuxBegin) \div 2]
           G == {i \in 0 .. Len(l) :
                   /\ acc[i].id \in [Old -> Int]
                   /\ at[i] \in Nat /\ acc[i].next = MuxBegin + 2 * at[i]
                   /\ i > 0 => at[i] = at[i - 1] + m(i)
                   /\ \A k \in 1 .. i : m(k) # 0 => acc[i].id[l[k]] = MuxBegin + 2 * at[k - 1]}
<1>5. 0 \in G
  <2>1. acc[0].next = MuxBegin /\ acc[0].id = muxId
    BY <1>3
  <2>2. at[0] = 0
    <3>1. at[0] = (MuxBegin - MuxBegin) \div 2
      BY <1>1, <2>1
    <3>2. QED
      BY <1>1, <3>1
  <2> HIDE DEF at, m
  <2>3. 0 \in 0 .. Len(l) /\ 1 .. 0 = {} /\ ~(0 > 0) /\ 0 \in Nat
    BY <1>1
  <2>4. acc[0].next = MuxBegin + 2 * at[0]
    BY <1>1, <2>1, <2>2
  <2>5. QED
    BY <2>1, <2>2, <2>3, <2>4
<1>6. ASSUME NEW i \in 1 .. Len(l), i - 1 \in G PROVE i \in G
  <2> DEFINE a == acc[i - 1]
             b == acc[i]
  <2>1. /\ a.id \in [Old -> Int] /\ at[i - 1] \in Nat /\ a.next = MuxBegin + 2 * at[i - 1]
        /\ \A k \in 1 .. i - 1 : m(k) # 0 => a.id[l[k]] = MuxBegin + 2 * at[k - 1]
    BY <1>6
  <2>2. i \in 0 .. Len(l) /\ i \in Nat /\ i > 0 /\ l[i] \in Old /\ m(i) \in Nat
    BY <1>1, <1>4
  <2>3. b = IF m(i) = 0 THEN a
            ELSE [next |-> a.next + 2 * m(i), id |-> [a.id EXCEPT ![l[i]] = a.next]]
    BY <1>3 DEF NumberMux
  <2>4. at[i] = (b.next - MuxBegin) \div 2
    BY <2>2
  <2> HIDE DEF a, b, m, at
  <2>5. b.next = a.next + 2 * m(i)
    BY <1>1, <2>1, <2>2, <2>3
  <2>6. at[i] = at[i - 1] + m(i)
    <3>1. b.next - MuxBegin = 2 * (at[i - 1] + m(i))
      BY <1>1, <2>1, <2>2, <2>5
    <3> DEFINE x == at[i - 1] + m(i)
    <3>2. x \in Nat
      BY <2>1, <2>2
    <3> HIDE DEF x
    <3>3. (2 * x) \div 2 = x
      BY <3>2
    <3>4. QED
      BY <2>4, <3>1, <3>3 DEF x
  <2>7. b.next = MuxBegin + 2 * at[i] /\ at[i] \in Nat
    <3> DEFINE x == at[i - 1]
               y == m(i)
    <3>1. b.next = (MuxBegin + 2 * x) + 2 * y /\ at[i] = x + y /\ x \in Nat /\ y \in Nat
      BY <2>1, <2>2, <2>5, <2>6
    <3> HIDE DEF x, y
    <3>2. QED
      BY <1>1, <3>1
  <2>8. b.id \in [Old -> Int]
    BY <1>1, <2>1, <2>2, <2>3
  <2>9. ASSUME NEW k \in 1 .. i, m(k) # 0 PROVE b.id[l[k]] = MuxBegin + 2 * at[k - 1]
    <3>1. CASE k = i
      BY <2>1, <2>2, <2>3, <2>9, <3>1
    <3>2. CASE k # i
      <4>1. k \in 1 .. i - 1 /\ l[k] # l[i]
        <5>1. k \in 1 .. i - 1 /\ k \in DOMAIN l /\ i \in DOMAIN l
          BY <1>1, <3>2
        <5>2. QED
          BY <1>1, <3>2, <5>1 DEF IsInjective
      <4>2. a.id[l[k]] = MuxBegin + 2 * at[k - 1]
        BY <2>1, <2>9, <4>1
      <4>3. b.id[l[k]] = a.id[l[k]]
        BY <2>1, <2>3, <4>1
      <4>4. QED
        BY <4>2, <4>3
    <3>3. QED
      BY <3>1, <3>2
  <2>10. QED
    BY <2>2, <2>6, <2>7, <2>8, <2>9 DEF b
<1>7. \A i \in 0 .. Len(l) : i \in G
  <2> HIDE DEF G, l
  <2>1. QED
    BY <1>1, <1>5, <1>6, NumberFold!IntervalInduction
<1>8. Numbering = acc[Len(l)]
  BY <1>2 DEF Numbering
<1> HIDE DEF at, m
<1>9. /\ \A i \in 0 .. Len(l) : at[i] \in Nat
      /\ \A i \in 1 .. Len(l) : at[i] = at[i - 1] + m(i)
  BY <1>7
<1>10. at[0] = 0
  <2>1. acc[0].next = MuxBegin /\ 0 \in 0 .. Len(l)
    BY <1>1, <1>3
  <2>2. MuxBegin = MuxBegin + 2 * at[0] /\ at[0] \in Nat
    BY <1>7, <2>1
  <2>3. QED
    BY <1>1, <2>2
<1>11. /\ Numbering.id \in [Old -> Int]
       /\ \A k \in 1 .. Len(l) : m(k) # 0 => Numbering.id[l[k]] = MuxBegin + 2 * at[k - 1]
  <2>1. Len(l) \in 0 .. Len(l)
    BY <1>1
  <2>2. Len(l) \in G
    BY <1>7, <2>1
  <2>3. QED
    BY <1>8, <2>2
<1>12. NumMux = at[Len(l)]
  BY <1>1, <1>8 DEF NumMux, at
<1>13. Starts(at) /\ Numbered(at, Numbering.id)
  BY <1>9, <1>10, <1>11 DEF Starts, Numbered, m
<1>14. QED
  BY <1>11, <1>12, <1>13

(* The k-th element of s, and none before it, is s[k].                     *)
FirstAt(s, k) == k \in DOMAIN s /\ \A i \in 1 .. k - 1 : s[i] # s[k]

(* An element is found at its first place.                                 *)
LEMMA PosFirst ==
  ASSUME NEW S, NEW s \in Seq(S), NEW k, FirstAt(s, k)
  PROVE  Pos(s, s[k]) = k
<1>1. DOMAIN s = 1 .. Len(s) /\ Len(s) \in Nat /\ k \in DOMAIN s
  BY DEF FirstAt
<1>2. \A i \in 1 .. k - 1 : s[i] # s[k]
  BY DEF FirstAt
<1>3. ASSUME NEW i \in DOMAIN s, s[i] = s[k], \A j \in 1 .. i - 1 : s[j] # s[k] PROVE i = k
  <2>1. ~(i < k)
    BY <1>1, <1>2, <1>3
  <2>2. ~(k < i)
    BY <1>1, <1>3
  <2>3. QED
    BY <1>1, <2>1, <2>2
<1>4. QED
  BY <1>1, <1>2, <1>3 DEF Pos

(* An element of s has a first place.                                      *)
LEMMA FirstPlace ==
  ASSUME NEW S, NEW s \in Seq(S), NEW e \in Range(s)
  PROVE  \E k \in DOMAIN s : FirstAt(s, k) /\ s[k] = e
<1>1. DOMAIN s = 1 .. Len(s) /\ Len(s) \in Nat
  OBVIOUS
<1> DEFINE First(n) == \E k \in 1 .. n : s[k] = e /\ \A i \in 1 .. k - 1 : s[i] # e
           G == {n \in 0 .. Len(s) : (\E i \in 1 .. n : s[i] = e) => First(n)}
<1>2. 0 \in G
  BY <1>1
<1>3. ASSUME NEW n \in 1 .. Len(s), n - 1 \in G PROVE n \in G
  <2>1. n \in 0 .. Len(s) /\ n \in Nat /\ \A i : i \in 1 .. n <=> i \in 1 .. n - 1 \/ i = n
    BY <1>1
  <2>2. CASE \E i \in 1 .. n - 1 : s[i] = e
    <3>1. First(n - 1)
      BY <1>3, <2>2
    <3>2. First(n)
      BY <2>1, <3>1
    <3>3. QED
      BY <2>1, <3>2
  <2>3. CASE ~\E i \in 1 .. n - 1 : s[i] = e
    <3>1. s[n] = e => First(n)
      BY <2>1, <2>3
    <3>2. QED
      BY <2>1, <2>3, <3>1
  <2>4. QED
    BY <2>2, <2>3
<1>4. Len(s) \in G
  <2> HIDE DEF G
  <2>1. \A n \in 0 .. Len(s) : n \in G
    BY <1>1, <1>2, <1>3, WalkFold!IntervalInduction
  <2>2. QED
    BY <1>1, <2>1
<1>5. PICK k \in 1 .. Len(s) : s[k] = e /\ \A i \in 1 .. k - 1 : s[i] # e
  <2>1. \E i \in 1 .. Len(s) : s[i] = e
    BY <1>1 DEF Range
  <2>2. QED
    BY <1>4, <2>1
<1>6. QED
  BY <1>1, <1>5 DEF FirstAt

(* Where Pos finds an element.                                             *)
LEMMA PosIn ==
  ASSUME NEW S, NEW s \in Seq(S), NEW e \in Range(s)
  PROVE  Pos(s, e) \in DOMAIN s /\ s[Pos(s, e)] = e
<1>1. PICK k \in DOMAIN s : FirstAt(s, k) /\ s[k] = e
  BY FirstPlace
<1>2. Pos(s, e) = k
  BY <1>1, PosFirst
<1>3. QED
  BY <1>1, <1>2

MuxSet == {"bwd", "fwd"} \X Old \X Gate

(* The muxes of one kind, in the order of the gate's list.                 *)
LEMMA MuxesList ==
  ASSUME NEW kind \in {"bwd", "fwd"}, NEW g \in Old, NEW others \in Seq(Gate)
  PROVE  LET s == Muxes(kind, g, others)
         IN /\ s \in Seq(MuxSet) /\ Len(s) = Len(others) /\ DOMAIN s = DOMAIN others
            /\ \A j \in DOMAIN others : s[j] = <<kind, g, others[j]>>
            /\ Range(s) = {<<kind, g, o>> : o \in Range(others)}
            /\ IsInjective(others) => IsInjective(s)
<1> DEFINE s == Muxes(kind, g, others)
<1>1. /\ DOMAIN others = 1 .. Len(others) /\ Len(others) \in Nat
      /\ \A j \in DOMAIN others : others[j] \in Gate
  OBVIOUS
<1>2. s = [j \in DOMAIN others |-> <<kind, g, others[j]>>]
  BY DEF Muxes
<1>3. \A j \in 1 .. Len(others) : <<kind, g, others[j]>> \in MuxSet
  BY <1>1 DEF MuxSet
<1>4. s \in Seq(MuxSet) /\ Len(s) = Len(others)
  BY <1>1, <1>2, <1>3
<1> HIDE DEF s
<1>5. Range(s) = {<<kind, g, o>> : o \in Range(others)}
  BY <1>2 DEF Range
<1>6. IsInjective(others) => IsInjective(s)
  BY <1>2 DEF IsInjective
<1>7. QED
  BY <1>2, <1>4, <1>5, <1>6 DEF s

(* The muxes of a gate: those of its backward patches, then its own.       *)
LEMMA MuxesOfList ==
  ASSUME SelectorInput, NEW g \in Old
  PROVE  /\ MuxesOf(g) \in Seq(MuxSet) /\ Len(MuxesOf(g)) = NumMuxOf(g)
         /\ \A j \in 1 .. NumMuxOf(g) :
              j \in DOMAIN bwdMap[g] \/ \E k \in DOMAIN rp.fanout[g] : j = NumBwd(g) + k
         /\ \A j \in DOMAIN bwdMap[g] : MuxesOf(g)[j] = <<"bwd", g, bwdMap[g][j]>>
         /\ \A j \in DOMAIN rp.fanout[g] :
              MuxesOf(g)[NumBwd(g) + j] = <<"fwd", g, rp.fanout[g][j]>>
         /\ \A c : c \in Range(MuxesOf(g)) <=>
              \/ \E o \in Range(bwdMap[g]) : c = <<"bwd", g, o>>
              \/ \E o \in Range(rp.fanout[g]) : c = <<"fwd", g, o>>
<1> DEFINE b == Muxes("bwd", g, bwdMap[g])
           f == Muxes("fwd", g, rp.fanout[g])
<1>1. /\ bwdMap[g] \in Seq(Gate) /\ rp.fanout[g] \in Seq(Gate)
      /\ Len(bwdMap[g]) = NumBwd(g) /\ NumBwd(g) \in Nat /\ Len(rp.fanout[g]) \in Nat
      /\ NumMuxOf(g) = Len(rp.fanout[g]) + NumBwd(g)
  <2>1. bwdMap[g] \in Seq(Gol) /\ rp.fanout[g] \in Seq(Gate)
    BY NumMuxOfType
  <2>2. bwdMap[g] \in Seq(Gate)
    BY <2>1 DEF Gate
  <2>3. QED
    BY <2>1, <2>2, NumMuxOfType DEF SelectorInput, NumBwd
<1>2. /\ b \in Seq(MuxSet) /\ Len(b) = NumBwd(g) /\ DOMAIN b = DOMAIN bwdMap[g]
      /\ \A j \in DOMAIN bwdMap[g] : b[j] = <<"bwd", g, bwdMap[g][j]>>
      /\ Range(b) = {<<"bwd", g, o>> : o \in Range(bwdMap[g])}
  BY <1>1, MuxesList
<1>3. /\ f \in Seq(MuxSet) /\ Len(f) = Len(rp.fanout[g]) /\ DOMAIN f = DOMAIN rp.fanout[g]
      /\ \A j \in DOMAIN rp.fanout[g] : f[j] = <<"fwd", g, rp.fanout[g][j]>>
      /\ Range(f) = {<<"fwd", g, o>> : o \in Range(rp.fanout[g])}
  BY <1>1, MuxesList
<1>4. MuxesOf(g) = b \o f
  BY DEF MuxesOf
<1> HIDE DEF b, f
<1>5. \A j \in 1 .. NumMuxOf(g) :
        j \in 1 .. NumBwd(g) \/ \E k \in 1 .. Len(rp.fanout[g]) : j = NumBwd(g) + k
  <2> DEFINE nb == NumBwd(g)
             nf == Len(rp.fanout[g])
             nm == NumMuxOf(g)
  <2>1. nb \in Nat /\ nf \in Nat /\ nm = nf + nb
    BY <1>1
  <2> HIDE DEF nb, nf, nm
  <2>2. \A j \in 1 .. nm : j \in 1 .. nb \/ (j - nb \in 1 .. nf /\ j = nb + (j - nb))
    BY <2>1
  <2>3. \A j \in 1 .. nm : j \in 1 .. nb \/ \E k \in 1 .. nf : j = nb + k
    BY <2>2
  <2>4. QED
    BY <2>3 DEF nb, nf, nm
<1>6. /\ DOMAIN b = 1 .. NumBwd(g) /\ DOMAIN f = 1 .. Len(rp.fanout[g])
      /\ DOMAIN b = DOMAIN bwdMap[g] /\ DOMAIN f = DOMAIN rp.fanout[g]
  BY <1>2, <1>3
<1>7. /\ b \o f \in Seq(MuxSet) /\ Len(b \o f) = NumBwd(g) + Len(rp.fanout[g])
      /\ Range(b \o f) = Range(b) \union Range(f)
      /\ \A j \in DOMAIN b : (b \o f)[j] = b[j]
      /\ \A j \in DOMAIN f : (b \o f)[NumBwd(g) + j] = f[j]
  <2>1. Len(b) = NumBwd(g) /\ Len(f) = Len(rp.fanout[g])
    BY <1>2, <1>3
  <2>2. /\ b \o f \in Seq(MuxSet) /\ Len(b \o f) = Len(b) + Len(f)
        /\ \A j \in 1 .. Len(b) : (b \o f)[j] = b[j]
        /\ \A j \in 1 .. Len(f) : (b \o f)[Len(b) + j] = f[j]
        /\ Range(b \o f) = Range(b) \union Range(f)
    <3>1. b \in Seq(MuxSet) /\ f \in Seq(MuxSet)
      BY <1>2, <1>3
    <3>2. QED
      BY ONLY <3>1, Concatenating
  <2>3. QED
    BY <1>6, <2>1, <2>2
<1>8. Len(MuxesOf(g)) = NumMuxOf(g)
  <2>1. Len(rp.fanout[g]) + NumBwd(g) = NumBwd(g) + Len(rp.fanout[g])
    BY <1>1
  <2>2. QED
    BY <1>1, <1>4, <1>7, <2>1
<1>9. /\ \A j \in DOMAIN bwdMap[g] : MuxesOf(g)[j] = <<"bwd", g, bwdMap[g][j]>>
      /\ \A j \in DOMAIN rp.fanout[g] :
           MuxesOf(g)[NumBwd(g) + j] = <<"fwd", g, rp.fanout[g][j]>>
  BY <1>2, <1>3, <1>4, <1>7
<1>10. Range(MuxesOf(g)) = {<<"bwd", g, o>> : o \in Range(bwdMap[g])}
                             \union {<<"fwd", g, o>> : o \in Range(rp.fanout[g])}
  BY <1>2, <1>3, <1>4, <1>7
<1>11. \A j \in 1 .. NumMuxOf(g) :
         j \in DOMAIN bwdMap[g] \/ \E k \in DOMAIN rp.fanout[g] : j = NumBwd(g) + k
  BY <1>5, <1>6
<1>12. QED
  BY <1>4, <1>7, <1>8, <1>9, <1>10, <1>11

(* The walk over the list: the muxes of the i-th gate after at[i - 1]      *)
(* others, and no other muxes.                                             *)
LEMMA WalkRight ==
  ASSUME SelectorInput, NEW at, Starts(at)
  PROVE  /\ Walk \in Seq(MuxSet) /\ Len(Walk) = at[Len(rp.list)]
         /\ \A x \in DOMAIN Walk : \E i \in 1 .. Len(rp.list) :
              \E j \in 1 .. NumMuxOf(rp.list[i]) : x = at[i - 1] + j
         /\ \A i \in 1 .. Len(rp.list) : \A j \in 1 .. NumMuxOf(rp.list[i]) :
              /\ at[i - 1] + j \in DOMAIN Walk
              /\ Walk[at[i - 1] + j] = MuxesOf(rp.list[i])[j]
         /\ \A c : c \in Range(Walk) <=>
              \E i \in 1 .. Len(rp.list) : c \in Range(MuxesOf(rp.list[i]))
<1> DEFINE l == rp.list
           m(i) == NumMuxOf(l[i])
           w(i) == MuxesOf(l[i])
<1>1. /\ l \in Seq(Old) /\ IsInjective(l) /\ Len(l) \in Nat /\ DOMAIN l = 1 .. Len(l)
      /\ \A i \in 1 .. Len(l) : l[i] \in Old
  BY DEF SelectorInput
<1>2. ASSUME NEW i \in 1 .. Len(l)
      PROVE  m(i) \in Nat /\ w(i) \in Seq(MuxSet) /\ Len(w(i)) = m(i)
  <2>1. l[i] \in Old
    BY <1>1
  <2>2. m(i) \in Nat
    BY <2>1, NumMuxOfType
  <2>3. w(i) \in Seq(MuxSet) /\ Len(w(i)) = m(i)
    BY <2>1, MuxesOfList
  <2>4. QED
    BY <2>2, <2>3
<1>3. /\ at[0] = 0
      /\ \A i \in 0 .. Len(l) : at[i] \in Nat
      /\ \A i \in 1 .. Len(l) : at[i] = at[i - 1] + m(i)
  BY DEF Starts
<1>4. PICK acc : /\ WalkFold!Traces(acc, <<>>, l)
                 /\ FoldLeft(AddMuxes, <<>>, l) = acc[Len(l)]
  BY <1>1, SameFolds, WalkFold!FoldLeftTrace
<1>5. acc[0] = <<>> /\ \A i \in 1 .. Len(l) : acc[i] = acc[i - 1] \o w(i)
  BY <1>4 DEF WalkFold!Traces, AddMuxes
<1> DEFINE In(i, c) == \E k \in 1 .. i : c \in Range(w(k))
           At(i, x) == \E k \in 1 .. i : \E j \in 1 .. m(k) : x = at[k - 1] + j
           G == {i \in 0 .. Len(l) :
                   /\ acc[i] \in Seq(MuxSet) /\ Len(acc[i]) = at[i]
                   /\ \A x \in DOMAIN acc[i] : At(i, x)
                   /\ \A c : c \in Range(acc[i]) <=> In(i, c)
                   /\ \A k \in 1 .. i : \A j \in 1 .. m(k) :
                        at[k - 1] + j \in DOMAIN acc[i] /\ acc[i][at[k - 1] + j] = w(k)[j]}
<1> HIDE DEF m, w
<1>6. 0 \in G
  <2>1. Range(<<>>) = {} /\ DOMAIN <<>> = {} /\ <<>> \in Seq(MuxSet) /\ Len(<<>>) = 0
    BY DEF Range
  <2>2. 1 .. 0 = {} /\ 0 \in 0 .. Len(l)
    BY <1>1
  <2>3. QED
    BY <1>3, <1>5, <2>1, <2>2
<1>7. ASSUME NEW i \in 1 .. Len(l), i - 1 \in G PROVE i \in G
  <2> DEFINE a == acc[i - 1]
             b == acc[i]
  <2>1. /\ a \in Seq(MuxSet) /\ Len(a) = at[i - 1]
        /\ \A x \in DOMAIN a : At(i - 1, x)
        /\ \A c : c \in Range(a) <=> In(i - 1, c)
        /\ \A k \in 1 .. i - 1 : \A j \in 1 .. m(k) :
             at[k - 1] + j \in DOMAIN a /\ a[at[k - 1] + j] = w(k)[j]
    BY <1>7
  <2>2. /\ i \in 0 .. Len(l) /\ i - 1 \in 0 .. Len(l) /\ i \in DOMAIN l
        /\ \A k : k \in 1 .. i <=> k \in 1 .. i - 1 \/ k = i
        /\ \A k \in 1 .. i - 1 : k \in DOMAIN l /\ k # i /\ k \in 1 .. Len(l)
    BY <1>1
  <2>3. b = a \o w(i)
    BY <1>5
  <2> HIDE DEF a, b
  <2>5. w(i) \in Seq(MuxSet) /\ Len(w(i)) = m(i) /\ m(i) \in Nat
    BY <1>2
  <2>6. /\ b \in Seq(MuxSet) /\ Len(b) = Len(a) + m(i)
        /\ Range(b) = Range(a) \union Range(w(i))
        /\ \A j \in 1 .. Len(a) : b[j] = a[j]
        /\ \A j \in 1 .. m(i) : b[Len(a) + j] = w(i)[j]
    <3>1. /\ b \in Seq(MuxSet) /\ Len(b) = Len(a) + Len(w(i))
          /\ Range(b) = Range(a) \union Range(w(i))
          /\ \A j \in 1 .. Len(a) : b[j] = a[j]
          /\ \A j \in 1 .. Len(w(i)) : b[Len(a) + j] = w(i)[j]
      <4>1. a \in Seq(MuxSet) /\ w(i) \in Seq(MuxSet)
        BY <2>1, <2>5
      <4>2. /\ a \o w(i) \in Seq(MuxSet) /\ Len(a \o w(i)) = Len(a) + Len(w(i))
            /\ Range(a \o w(i)) = Range(a) \union Range(w(i))
            /\ \A j \in 1 .. Len(a) : (a \o w(i))[j] = a[j]
            /\ \A j \in 1 .. Len(w(i)) : (a \o w(i))[Len(a) + j] = w(i)[j]
        BY <4>1, Concatenating
      <4>3. QED
        BY <2>3, <4>2
    <3>2. QED
      BY <2>5, <3>1
  <2>7. Len(b) = at[i]
    BY <1>3, <2>1, <2>6
  <2>8. \A c : c \in Range(b) <=> In(i, c)
    BY <2>1, <2>2, <2>6
  <2>9. ASSUME NEW k \in 1 .. i, NEW j \in 1 .. m(k)
        PROVE  at[k - 1] + j \in DOMAIN b /\ b[at[k - 1] + j] = w(k)[j]
    <3>1. DOMAIN a = 1 .. Len(a) /\ DOMAIN b = 1 .. Len(b) /\ Len(a) \in Nat /\ Len(b) = Len(a) + m(i)
      BY <2>1, <2>6
    <3>2. CASE k = i
      <4>1. j \in 1 .. m(i) /\ at[k - 1] = Len(a)
        BY <2>1, <3>2
      <4>2. at[k - 1] + j \in DOMAIN b
        BY <2>5, <3>1, <4>1
      <4>3. QED
        BY <2>6, <3>2, <4>1, <4>2
    <3>3. CASE k # i
      <4>1. k \in 1 .. i - 1
        BY <2>2, <3>3
      <4>2. at[k - 1] + j \in DOMAIN a /\ a[at[k - 1] + j] = w(k)[j]
        BY <2>1, <4>1
      <4>3. at[k - 1] + j \in DOMAIN b
        BY <2>5, <3>1, <4>2
      <4>4. QED
        BY <2>6, <3>1, <4>2, <4>3
    <3>4. QED
      BY <3>2, <3>3
  <2>10. ASSUME NEW x \in DOMAIN b PROVE At(i, x)
    <3>1. /\ DOMAIN a = 1 .. Len(a) /\ DOMAIN b = 1 .. Len(b) /\ Len(a) \in Nat
          /\ Len(b) = Len(a) + m(i) /\ Len(a) = at[i - 1]
      BY <2>1, <2>6
    <3>2. x \in DOMAIN a \/ (x - Len(a) \in 1 .. m(i) /\ x = Len(a) + (x - Len(a)))
      BY <2>5, <3>1
    <3>3. CASE x \in DOMAIN a
      BY <2>1, <2>2, <3>3
    <3>4. CASE x - Len(a) \in 1 .. m(i) /\ x = Len(a) + (x - Len(a))
      <4>1. i \in 1 .. i
        BY <1>1
      <4>2. QED
        BY <3>1, <3>4, <4>1
    <3>5. QED
      BY <3>2, <3>3, <3>4
  <2> HIDE DEF In, At
  <2>11. QED
    BY <2>2, <2>6, <2>7, <2>8, <2>9, <2>10 DEF b
<1>8. \A i \in 0 .. Len(l) : i \in G
  <2> HIDE DEF G, l
  <2>1. QED
    BY <1>1, <1>6, <1>7, WalkFold!IntervalInduction
<1>9. Len(l) \in G
  <2>1. Len(l) \in 0 .. Len(l)
    BY <1>1
  <2> HIDE DEF G, l
  <2>2. QED
    BY <1>8, <2>1
<1>10. Walk = acc[Len(l)]
  BY <1>4 DEF Walk
<1>11. QED
  BY <1>9, <1>10 DEF m, w

(* The places x and y of the walk are backward muxes of the same patch.    *)
SamePatch(at, x, y) ==
  \E i \in 1 .. Len(rp.list) : \E j, k \in DOMAIN bwdMap[rp.list[i]] :
    /\ x = at[i - 1] + j /\ y = at[i - 1] + k
    /\ bwdMap[rp.list[i]][j] = bwdMap[rp.list[i]][k]
    /\ Walk[x] = <<"bwd", rp.list[i], bwdMap[rp.list[i]][j]>>

(* Equal muxes of the walk are the same one, or those of one patch.        *)
LEMMA WalkSame ==
  ASSUME SelectorInput, NEW at, Starts(at),
         NEW x \in DOMAIN Walk, NEW y \in DOMAIN Walk, Walk[x] = Walk[y]
  PROVE  x = y \/ SamePatch(at, x, y)
<1> DEFINE l == rp.list
<1>1. /\ IsInjective(l) /\ DOMAIN l = 1 .. Len(l)
      /\ \A i \in 1 .. Len(l) : l[i] \in Old
  BY DEF SelectorInput
<1>2. PICK i \in 1 .. Len(l) : \E j \in 1 .. NumMuxOf(l[i]) : x = at[i - 1] + j
  BY WalkRight
<1>3. PICK j \in 1 .. NumMuxOf(l[i]) : x = at[i - 1] + j
  BY <1>2
<1>4. PICK n \in 1 .. Len(l) : \E k \in 1 .. NumMuxOf(l[n]) : y = at[n - 1] + k
  BY WalkRight
<1>5. PICK k \in 1 .. NumMuxOf(l[n]) : y = at[n - 1] + k
  BY <1>4
<1> DEFINE Mux(h, q) ==
      \/ \E o \in Range(bwdMap[h]) : q = <<"bwd", h, o>>
      \/ \E o \in Range(rp.fanout[h]) : q = <<"fwd", h, o>>
<1>6. ASSUME NEW h \in Old, NEW q \in 1 .. NumMuxOf(h)
      PROVE  \/ q \in DOMAIN bwdMap[h] /\ MuxesOf(h)[q] = <<"bwd", h, bwdMap[h][q]>>
             \/ \E o \in DOMAIN rp.fanout[h] : /\ q = NumBwd(h) + o
                                               /\ MuxesOf(h)[q] = <<"fwd", h, rp.fanout[h][o]>>
  BY MuxesOfList
<1>7. Walk[x] = MuxesOf(l[i])[j] /\ Walk[y] = MuxesOf(l[n])[k]
  <2>1. Walk[at[i - 1] + j] = MuxesOf(l[i])[j] /\ Walk[at[n - 1] + k] = MuxesOf(l[n])[k]
    BY WalkRight
  <2>2. QED
    BY <1>3, <1>5, <2>1
<1>8. Walk[x][2] = l[i] /\ Walk[y][2] = l[n]
  <2>1. MuxesOf(l[i])[j][2] = l[i]
    BY <1>1, <1>6
  <2>2. MuxesOf(l[n])[k][2] = l[n]
    BY <1>1, <1>6
  <2>3. QED
    BY <1>7, <2>1, <2>2
<1>9. i = n
  BY <1>1, <1>8 DEF IsInjective
<1> DEFINE g == l[i]
<1>10. g \in Old /\ k \in 1 .. NumMuxOf(g) /\ MuxesOf(g)[j] = MuxesOf(g)[k] /\ y = at[i - 1] + k
  BY <1>1, <1>5, <1>7, <1>9
<1> HIDE DEF g
<1>11. \/ j \in DOMAIN bwdMap[g] /\ MuxesOf(g)[j] = <<"bwd", g, bwdMap[g][j]>>
       \/ \E o \in DOMAIN rp.fanout[g] : /\ j = NumBwd(g) + o
                                         /\ MuxesOf(g)[j] = <<"fwd", g, rp.fanout[g][o]>>
  BY <1>6, <1>10 DEF g
<1>12. \/ k \in DOMAIN bwdMap[g] /\ MuxesOf(g)[k] = <<"bwd", g, bwdMap[g][k]>>
       \/ \E o \in DOMAIN rp.fanout[g] : /\ k = NumBwd(g) + o
                                         /\ MuxesOf(g)[k] = <<"fwd", g, rp.fanout[g][o]>>
  BY <1>6, <1>10
<1>13. CASE j \in DOMAIN bwdMap[g] /\ MuxesOf(g)[j] = <<"bwd", g, bwdMap[g][j]>>
  <2>1. k \in DOMAIN bwdMap[g] /\ bwdMap[g][j] = bwdMap[g][k]
    BY <1>10, <1>12, <1>13
  <2>2. Walk[x] = <<"bwd", g, bwdMap[g][j]>>
    BY <1>7, <1>13 DEF g
  <2>3. QED
    BY <1>3, <1>10, <1>13, <2>1, <2>2 DEF g, SamePatch
<1>14. ASSUME NEW o \in DOMAIN rp.fanout[g], j = NumBwd(g) + o,
              MuxesOf(g)[j] = <<"fwd", g, rp.fanout[g][o]>>
       PROVE  x = y
  <2>1. PICK q \in DOMAIN rp.fanout[g] : /\ k = NumBwd(g) + q
                                         /\ MuxesOf(g)[k] = <<"fwd", g, rp.fanout[g][q]>>
    BY <1>10, <1>12, <1>14
  <2>2. rp.fanout[g][o] = rp.fanout[g][q]
    BY <1>10, <1>14, <2>1
  <2>3. o = q
    BY <1>10, <2>2 DEF SelectorInput, IsInjective
  <2>4. QED
    BY <1>3, <1>10, <1>14, <2>1, <2>3
<1>15. QED
  BY <1>11, <1>13, <1>14

(* The i-th gate of the list, g, has its backward muxes, then its others,  *)
(* in Walk behind those of the gates before it; a backward mux is found    *)
(* where its golden gate is first in the map.                              *)
Placed(at, i, g) ==
  /\ \A k \in DOMAIN bwdMap[g] : FirstAt(bwdMap[g], k) =>
       /\ <<"bwd", g, bwdMap[g][k]>> \in Range(Walk)
       /\ Pos(bwdMap[g], bwdMap[g][k]) = k
       /\ Pos(Walk, <<"bwd", g, bwdMap[g][k]>>) = at[i - 1] + k
  /\ \A k \in DOMAIN rp.fanout[g] :
       /\ <<"fwd", g, rp.fanout[g][k]>> \in Range(Walk)
       /\ Pos(rp.fanout[g], rp.fanout[g][k]) = k
       /\ Pos(Walk, <<"fwd", g, rp.fanout[g][k]>>) = at[i - 1] + (NumBwd(g) + k)

(* The walk and the numbering put each mux of a gate at the same place.    *)
LEMMA MuxPlaces ==
  ASSUME SelectorInput, NEW at, Starts(at), NEW i \in 1 .. Len(rp.list)
  PROVE  Placed(at, i, rp.list[i])
<1> DEFINE g == rp.list[i]
<1>1. g \in Old /\ rp.list \in Seq(Old) /\ IsInjective(rp.list)
  BY DEF SelectorInput
<1>2. /\ NumBwd(g) \in Nat /\ rp.fanout[g] \in Seq(Gate) /\ bwdMap[g] \in Seq(Gol)
      /\ NumMuxOf(g) = Len(rp.fanout[g]) + NumBwd(g) /\ Len(rp.fanout[g]) \in Nat
      /\ Len(bwdMap[g]) = NumBwd(g)
      /\ IsInjective(rp.fanout[g])
  BY <1>1, NumMuxOfType DEF SelectorInput, NumBwd
<1>3. DOMAIN bwdMap[g] = 1 .. NumBwd(g) /\ DOMAIN rp.fanout[g] = 1 .. Len(rp.fanout[g])
  BY <1>2
<1>4. \A j \in 1 .. NumMuxOf(g) : /\ at[i - 1] + j \in DOMAIN Walk
                                 /\ Walk[at[i - 1] + j] = MuxesOf(g)[j]
  BY WalkRight
<1>5. Walk \in Seq(MuxSet) /\ DOMAIN Walk = 1 .. Len(Walk) /\ Len(Walk) \in Nat
  BY WalkRight
<1>6. at[i - 1] \in Nat
  <2>1. i - 1 \in 0 .. Len(rp.list)
    BY <1>1
  <2>2. QED
    BY <2>1 DEF Starts
<1>7. ASSUME NEW k \in DOMAIN bwdMap[g], FirstAt(bwdMap[g], k)
      PROVE  /\ <<"bwd", g, bwdMap[g][k]>> \in Range(Walk)
             /\ Pos(bwdMap[g], bwdMap[g][k]) = k
             /\ Pos(Walk, <<"bwd", g, bwdMap[g][k]>>) = at[i - 1] + k
  <2>1. k \in 1 .. NumMuxOf(g) /\ k \in Nat
    BY <1>2, <1>3
  <2>2. MuxesOf(g)[k] = <<"bwd", g, bwdMap[g][k]>>
    BY <1>1, MuxesOfList
  <2>3. Pos(bwdMap[g], bwdMap[g][k]) = k
    BY <1>2, <1>7, PosFirst
  <2> DEFINE x == at[i - 1] + k
  <2>4. x \in DOMAIN Walk /\ Walk[x] = <<"bwd", g, bwdMap[g][k]>>
    BY <1>4, <2>1, <2>2
  <2>5. ASSUME NEW y \in 1 .. x - 1, Walk[y] = Walk[x] PROVE FALSE
    <3>1. y \in DOMAIN Walk /\ y # x
      BY <1>5, <1>6, <2>1, <2>4
    <3>2. PICK n \in 1 .. Len(rp.list) : \E j, o \in DOMAIN bwdMap[rp.list[n]] :
              /\ y = at[n - 1] + j /\ x = at[n - 1] + o
              /\ bwdMap[rp.list[n]][j] = bwdMap[rp.list[n]][o]
              /\ Walk[y] = <<"bwd", rp.list[n], bwdMap[rp.list[n]][j]>>
      <4> HIDE DEF x, g
      <4>1. SamePatch(at, y, x)
        BY <2>4, <2>5, <3>1, WalkSame
      <4>2. QED
        BY <4>1 DEF SamePatch
    <3>3. rp.list[n] = g
      BY <2>4, <2>5, <3>2
    <3>4. n = i
      BY <1>1, <3>3 DEF IsInjective
    <3>5. PICK j, o \in DOMAIN bwdMap[g] : /\ y = at[i - 1] + j /\ x = at[i - 1] + o
                                           /\ bwdMap[g][j] = bwdMap[g][o]
      BY <3>2, <3>4
    <3>6. o \in Nat /\ j \in Nat /\ 1 <= j
      BY <1>2, <1>3
    <3>7. o = k /\ j < k
      BY <1>6, <2>1, <3>5, <3>6
    <3>8. j \in 1 .. k - 1
      BY <2>1, <3>6, <3>7
    <3>9. QED
      BY <1>7, <3>5, <3>7, <3>8 DEF FirstAt
  <2>6. FirstAt(Walk, x)
    BY <2>4, <2>5 DEF FirstAt
  <2> HIDE DEF x, g
  <2>7. Pos(Walk, Walk[x]) = x
    BY <1>5, <2>6, PosFirst
  <2>8. Walk[x] \in Range(Walk)
    BY <2>4 DEF Range
  <2>9. QED
    BY <2>3, <2>4, <2>7, <2>8 DEF x
<1>8. ASSUME NEW k \in DOMAIN rp.fanout[g]
      PROVE  /\ <<"fwd", g, rp.fanout[g][k]>> \in Range(Walk)
             /\ Pos(rp.fanout[g], rp.fanout[g][k]) = k
             /\ Pos(Walk, <<"fwd", g, rp.fanout[g][k]>>) = at[i - 1] + (NumBwd(g) + k)
  <2>1. NumBwd(g) + k \in 1 .. NumMuxOf(g)
    <3> DEFINE nb == NumBwd(g)
               nf == Len(rp.fanout[g])
               nm == NumMuxOf(g)
    <3>1. nb \in Nat /\ nf \in Nat /\ nm = nf + nb /\ k \in 1 .. nf
      BY <1>2, <1>3
    <3> HIDE DEF nb, nf, nm
    <3>2. nb + k \in 1 .. nm
      BY <3>1
    <3>3. QED
      BY <3>2 DEF nb, nm
  <2>2. MuxesOf(g)[NumBwd(g) + k] = <<"fwd", g, rp.fanout[g][k]>>
    BY <1>1, MuxesOfList
  <2>3. Pos(rp.fanout[g], rp.fanout[g][k]) = k
    <3> DEFINE s == rp.fanout[g]
    <3>1. s \in Seq(Gate) /\ IsInjective(s) /\ DOMAIN s = 1 .. Len(s) /\ k \in DOMAIN s
      BY <1>2, <1>3
    <3> HIDE DEF s
    <3>2. FirstAt(s, k)
      BY <3>1 DEF FirstAt, IsInjective
    <3>3. FirstAt(rp.fanout[g], k)
      BY <3>2 DEF s
    <3>4. QED
      BY <1>2, <3>3, PosFirst
  <2> DEFINE x == at[i - 1] + (NumBwd(g) + k)
  <2>4. x \in DOMAIN Walk /\ Walk[x] = <<"fwd", g, rp.fanout[g][k]>>
    BY <1>4, <2>1, <2>2
  <2>5. \A y \in DOMAIN Walk : Walk[y] = Walk[x] => y = x
    <3> SUFFICES ASSUME NEW y \in DOMAIN Walk, Walk[y] = Walk[x] PROVE y = x
      OBVIOUS
    <3>1. \A o, e : Walk[x] # <<"bwd", o, e>>
      BY <2>4
    <3> HIDE DEF x, g
    <3>2. ~SamePatch(at, x, y)
      BY <3>1 DEF SamePatch
    <3>3. QED
      BY <2>4, <3>2, WalkSame
  <2> HIDE DEF x, g
  <2>6. FirstAt(Walk, x)
    <3>1. \A y \in 1 .. x - 1 : y \in DOMAIN Walk /\ y # x
      BY <1>5, <2>4
    <3>2. QED
      BY <2>4, <2>5, <3>1 DEF FirstAt
  <2>7. Pos(Walk, Walk[x]) = x
    BY <1>5, <2>6, PosFirst
  <2>8. Walk[x] \in Range(Walk)
    BY <2>4 DEF Range
  <2>9. QED
    BY <2>3, <2>4, <2>7, <2>8 DEF x
<1>9. QED
  BY <1>7, <1>8 DEF Placed

(* The list has the old gates with a pair or a backward patch, once.       *)
Listing ==
  /\ IsInjective(rp.list)
  /\ \A g \in Old : g \in Range(rp.list) <=> rp.fanout[g] # <<>> \/ bwdMap[g] # <<>>

(* What holds between buildSelector and selectPatch.                       *)
Selectable(at) ==
  /\ Paired(rp) /\ OutputsLead(rp) /\ BwdMapOK(bwdMap) /\ Listing
  /\ Starts(at) /\ Numbered(at, muxId) /\ muxId \in [Old -> Int]
  /\ res \in [1 .. at[Len(rp.list)] -> BOOLEAN]

(* Pairs, map and list are what the selector needs.                        *)
LEMMA ListingSelects ==
  ASSUME Paired(rp), BwdMapOK(bwdMap), Listing
  PROVE  SelectorInput
BY DEF Paired, Rp, Together, BwdMapOK, Listing, SelectorInput, Gate

(* The pairs in the list of a gate are those on its pins.                  *)
LEMMA PairPins ==
  ASSUME Paired(rp), NEW g \in Gate, NEW h
  PROVE  h \in Range(rp.fanout[g]) <=> h # None /\ \E p \in FanoutPins(g) : rp.fanin[p] = h
<1>1. Range(rp.fanout[g]) = {rp.fanin[p] : p \in FanoutPins(g)} \ {None}
  BY DEF Paired, Together
<1>2. QED
  BY <1>1

(* A pair of an old pin, and a backward patch on a golden pin, has its mux. *)
LEMMA PairMux ==
  ASSUME NEW at, Selectable(at), NEW p \in OldPins, rp.fanin[p] # None
  PROVE  LET g == Reads(p)
             rec == rp.fanin[p]
         IN \E i \in 1 .. Len(rp.list), k \in DOMAIN rp.fanout[g] :
              g = rp.list[i] /\ rec = rp.fanout[g][k] /\ g \in Old
<1> DEFINE g == Reads(p)
           rec == rp.fanin[p]
<1>1. g \in Old /\ p \in FanoutPins(g) /\ g \in Gate
  BY RecPairsAssumption DEF OldPins, FanoutPins, Gate
<1>2. rec \in Range(rp.fanout[g])
  BY <1>1, PairPins DEF Selectable
<1>3. PICK k \in DOMAIN rp.fanout[g] : rec = rp.fanout[g][k]
  BY <1>2 DEF Range
<1>4. rp.fanout[g] # <<>>
  BY <1>3
<1>5. g \in Range(rp.list)
  BY <1>1, <1>4 DEF Selectable, Listing
<1>6. DOMAIN rp.list = 1 .. Len(rp.list)
  BY DEF Selectable, Paired, Rp
<1>7. PICK i \in 1 .. Len(rp.list) : g = rp.list[i]
  BY <1>5, <1>6 DEF Range
<1>8. QED
  BY <1>1, <1>3, <1>7

(* The patch of a golden pin has a place in the map of its old gate, which *)
(* is in the list.                                                         *)
LEMMA PatchMux ==
  ASSUME NEW at, Selectable(at), NEW p \in GolPins, rp.fanin[p] # None
  PROVE  LET g == rp.fanin[p]
             gol == Reads(p)
         IN \E i \in 1 .. Len(rp.list), k \in DOMAIN bwdMap[g] :
              g = rp.list[i] /\ gol = bwdMap[g][k] /\ FirstAt(bwdMap[g], k) /\ g \in Old
<1> DEFINE g == rp.fanin[p]
           gol == Reads(p)
<1>1. gol \in Gol /\ p \in FanoutPins(gol) /\ gol \in Gate /\ g \in Old
  <2>1. p \in Pins /\ p[1] \in Gol /\ p[1] \notin Old
    BY RecPairsAssumption DEF GolPins
  <2>2. Reads(p) \in Gol
    BY <2>1, PinsFinite, RecPairsAssumption DEF Gate
  <2>3. g \in Old
    BY <2>1 DEF Selectable, Paired, Crosses
  <2>4. QED
    BY <2>1, <2>2, <2>3 DEF FanoutPins, Gate
<1>2. g \in Range(rp.fanout[gol])
  BY <1>1, PairPins DEF Selectable
<1>3. gol \in Range(bwdMap[g])
  BY <1>1, <1>2 DEF Selectable, BwdMapOK
<1>4. PICK k \in DOMAIN bwdMap[g] : gol = bwdMap[g][k] /\ FirstAt(bwdMap[g], k)
  <2>1. bwdMap[g] \in Seq(Gol)
    BY <1>1 DEF Selectable, BwdMapOK
  <2>2. QED
    BY <1>3, <2>1, FirstPlace
<1>5. bwdMap[g] # <<>>
  BY <1>4
<1>6. g \in Range(rp.list)
  BY <1>1, <1>5 DEF Selectable, Listing
<1>7. DOMAIN rp.list = 1 .. Len(rp.list)
  BY DEF Selectable, Paired, Rp
<1>8. PICK i \in 1 .. Len(rp.list) : g = rp.list[i]
  BY <1>6, <1>7 DEF Range
<1>9. QED
  BY <1>1, <1>4, <1>8

(* The number of a gate's first mux.                                       *)
LEMMA FirstMux ==
  ASSUME NEW at, Selectable(at), NEW i \in 1 .. Len(rp.list), NEW g, g = rp.list[i],
         rp.fanout[g] # <<>> \/ bwdMap[g] # <<>>
  PROVE  /\ muxId[g] = MuxBegin + 2 * at[i - 1] /\ at[i - 1] \in Nat /\ MuxBegin \in Nat
         /\ NumBwd(g) \in Nat /\ SelectorInput /\ g \in Old
         /\ DOMAIN rp.fanout[g] \subseteq Nat /\ DOMAIN bwdMap[g] \subseteq Nat
<1>1. SelectorInput /\ Starts(at) /\ Numbered(at, muxId)
  BY ListingSelects DEF Selectable
<1>2. g \in Old /\ Len(rp.list) \in Nat
  BY <1>1 DEF SelectorInput
<1>3. /\ NumBwd(g) \in Nat /\ rp.fanout[g] \in Seq(Gate) /\ bwdMap[g] \in Seq(Gol)
      /\ NumMuxOf(g) = Len(rp.fanout[g]) + NumBwd(g) /\ Len(rp.fanout[g]) \in Nat
      /\ NumBwd(g) = Len(bwdMap[g])
  BY <1>1, <1>2, NumMuxOfType DEF NumBwd
<1>4. NumMuxOf(g) # 0
  <2> DEFINE x == Len(rp.fanout[g])
             y == Len(bwdMap[g])
  <2>1. x \in Nat /\ y \in Nat /\ NumMuxOf(g) = x + y
    BY <1>3
  <2>2. rp.fanout[g] # <<>> => x # 0
    BY <1>3
  <2>3. bwdMap[g] # <<>> => y # 0
    BY <1>3
  <2> HIDE DEF x, y
  <2>4. x # 0 \/ y # 0
    BY <2>2, <2>3
  <2>5. QED
    BY <2>1, <2>4
<1>5. muxId[g] = MuxBegin + 2 * at[i - 1]
  BY <1>1, <1>4 DEF Numbered
<1>6. at[i - 1] \in Nat
  <2>1. i - 1 \in 0 .. Len(rp.list)
    BY <1>2
  <2>2. QED
    BY <1>1, <2>1 DEF Starts
<1>7. DOMAIN rp.fanout[g] \subseteq Nat /\ DOMAIN bwdMap[g] \subseteq Nat
  BY <1>3
<1>8. QED
  BY <1>1, <1>2, <1>3, <1>5, <1>6, <1>7, MuxBeginType

(* The nets of the pins are those of the muxes of the walk.                *)
LEMMA NetsRight ==
  ASSUME NEW at, Selectable(at)
  PROVE  NetsMatchVerdicts
<1>0. SelectorInput /\ Starts(at)
  BY ListingSelects DEF Selectable
<1>1. ASSUME NEW p \in OldPins, rp.fanin[p] # None
      PROVE  LET g == Reads(p)
                 rec == rp.fanin[p]
             IN /\ rec \in Range(rp.fanout[g])
                /\ <<"fwd", g, rec>> \in Range(Walk)
                /\ SelGetNet(g, rec) = MuxNet("fwd", g, rec)
  <2> DEFINE g == Reads(p)
             rec == rp.fanin[p]
  <2>1. PICK i \in 1 .. Len(rp.list), k \in DOMAIN rp.fanout[g] :
               g = rp.list[i] /\ rec = rp.fanout[g][k] /\ g \in Old
    BY <1>1, PairMux
  <2> HIDE DEF g, rec
  <2>2. rp.fanout[g] # <<>>
    BY <2>1
  <2>3. /\ muxId[g] = MuxBegin + 2 * at[i - 1] /\ at[i - 1] \in Nat /\ MuxBegin \in Nat
        /\ NumBwd(g) \in Nat /\ SelectorInput /\ k \in Nat
    BY <2>1, <2>2, FirstMux
  <2>4. /\ <<"fwd", g, rec>> \in Range(Walk)
        /\ Pos(rp.fanout[g], rec) = k
        /\ Pos(Walk, <<"fwd", g, rec>>) = at[i - 1] + (NumBwd(g) + k)
    <3>1. Placed(at, i, rp.list[i])
      BY <1>0, MuxPlaces
    <3>2. QED
      BY <2>1, <3>1 DEF Placed
  <2>5. SelGetNet(g, rec) = MuxNet("fwd", g, rec)
    <3> DEFINE x == at[i - 1]
               n == NumBwd(g)
               b == MuxBegin
    <3>1. /\ SelGetNet(g, rec) = (b + 2 * x) + 2 * ((n + k) - 1)
          /\ MuxNet("fwd", g, rec) = b + 2 * ((x + (n + k)) - 1)
      BY <2>3, <2>4 DEF SelGetNet, MuxNet
    <3>2. x \in Nat /\ n \in Nat /\ b \in Nat /\ k \in Nat
      BY <2>3
    <3> HIDE DEF x, n, b
    <3>3. QED
      BY <3>1, <3>2
  <2>6. rec \in Range(rp.fanout[g])
    BY <2>1 DEF Range
  <2>7. QED
    BY <2>4, <2>5, <2>6 DEF g, rec
<1>2. ASSUME NEW p \in GolPins, rp.fanin[p] # None
      PROVE  LET g == rp.fanin[p]
                 gol == Reads(p)
             IN /\ <<"bwd", g, gol>> \in Range(Walk)
                /\ BwdPatchMux(g, gol) = MuxNet("bwd", g, gol)
  <2> DEFINE g == rp.fanin[p]
             gol == Reads(p)
  <2>1. PICK i \in 1 .. Len(rp.list), k \in DOMAIN bwdMap[g] :
               g = rp.list[i] /\ gol = bwdMap[g][k] /\ FirstAt(bwdMap[g], k) /\ g \in Old
    BY <1>2, PatchMux
  <2> HIDE DEF g, gol
  <2>2. bwdMap[g] # <<>>
    BY <2>1
  <2>3. /\ muxId[g] = MuxBegin + 2 * at[i - 1] /\ at[i - 1] \in Nat /\ MuxBegin \in Nat
        /\ SelectorInput /\ k \in Nat
    BY <2>1, <2>2, FirstMux
  <2>4. /\ <<"bwd", g, gol>> \in Range(Walk)
        /\ Pos(bwdMap[g], gol) = k
        /\ Pos(Walk, <<"bwd", g, gol>>) = at[i - 1] + k
    <3>1. Placed(at, i, rp.list[i])
      BY <1>0, MuxPlaces
    <3>2. QED
      BY <2>1, <3>1 DEF Placed
  <2>5. BwdPatchMux(g, gol) = MuxNet("bwd", g, gol)
    <3> DEFINE x == at[i - 1]
               b == MuxBegin
    <3>1. /\ BwdPatchMux(g, gol) = (b + 2 * x) + 2 * (k - 1)
          /\ MuxNet("bwd", g, gol) = b + 2 * ((x + k) - 1)
      BY <2>3, <2>4 DEF BwdPatchMux, MuxNet
    <3>2. x \in Nat /\ b \in Nat /\ k \in Nat
      BY <2>3
    <3> HIDE DEF x, b
    <3>3. QED
      BY <3>1, <3>2
  <2>6. QED
    BY <2>4, <2>5 DEF g, gol
<1>3. QED
  BY <1>1, <1>2 DEF NetsMatchVerdicts

(* Each mux of the walk is on a pin, and in the walk once unless its golden*)
(* gate is twice in _bwdPatchList.                                         *)
LEMMA MuxesRead ==
  ASSUME NEW at, Selectable(at)
  PROVE  EveryMuxRead
<1>1. SelectorInput /\ Starts(at)
  BY ListingSelects DEF Selectable
<1>2. ASSUME NEW x \in DOMAIN Walk, NEW y \in DOMAIN Walk, x # y, Walk[x] = Walk[y]
      PROVE  Walk[x][1] = "bwd" /\ ListedTwice(Walk[x][3])
  <2>1. SamePatch(at, x, y)
    BY <1>1, <1>2, WalkSame
  <2>2. PICK i \in 1 .. Len(rp.list) : \E j, k \in DOMAIN bwdMap[rp.list[i]] :
               /\ x = at[i - 1] + j /\ y = at[i - 1] + k
               /\ bwdMap[rp.list[i]][j] = bwdMap[rp.list[i]][k]
               /\ Walk[x] = <<"bwd", rp.list[i], bwdMap[rp.list[i]][j]>>
    BY <2>1 DEF SamePatch
  <2>3. PICK j \in DOMAIN bwdMap[rp.list[i]], k \in DOMAIN bwdMap[rp.list[i]] :
               /\ x = at[i - 1] + j /\ y = at[i - 1] + k
               /\ bwdMap[rp.list[i]][j] = bwdMap[rp.list[i]][k]
               /\ Walk[x] = <<"bwd", rp.list[i], bwdMap[rp.list[i]][j]>>
    BY <2>2
  <2>4. rp.list[i] \in Old /\ j # k
    BY <1>1, <1>2, <2>3 DEF SelectorInput
  <2>5. ListedTwice(bwdMap[rp.list[i]][j])
    BY <2>3, <2>4 DEF Selectable, BwdMapOK
  <2>6. QED
    BY <2>3, <2>5
<1>3. ASSUME NEW c \in Range(Walk)
      PROVE  IF c[1] = "fwd" THEN \E p \in FanoutPins(c[2]) : rp.fanin[p] = c[3]
                             ELSE \E p \in FanoutPins(c[3]) : rp.fanin[p] = c[2]
  <2>1. PICK i \in 1 .. Len(rp.list) : c \in Range(MuxesOf(rp.list[i]))
    BY <1>1, WalkRight
  <2> DEFINE g == rp.list[i]
  <2>2. g \in Old /\ g \in Gate
    BY <1>1 DEF SelectorInput, Gate
  <2> HIDE DEF g
  <2>3. \/ \E o \in Range(bwdMap[g]) : c = <<"bwd", g, o>>
        \/ \E o \in Range(rp.fanout[g]) : c = <<"fwd", g, o>>
    BY <1>1, <2>1, <2>2, MuxesOfList DEF g
  <2>4. ASSUME NEW o \in Range(rp.fanout[g]), c = <<"fwd", g, o>>
        PROVE  \E p \in FanoutPins(g) : rp.fanin[p] = o
    BY <2>2, PairPins DEF Selectable
  <2>5. ASSUME NEW o \in Range(bwdMap[g]), c = <<"bwd", g, o>>
        PROVE  \E p \in FanoutPins(o) : rp.fanin[p] = g
    <3>1. o \in Gol /\ g \in Range(rp.fanout[o])
      BY <2>2 DEF Selectable, BwdMapOK
    <3>2. o \in Gate
      BY <3>1 DEF Gate
    <3>3. QED
      BY <3>1, <3>2, PairPins DEF Selectable
  <2>6. QED
    BY <2>3, <2>4, <2>5
<1>4. QED
  BY <1>2, <1>3 DEF EveryMuxRead

(* The first pair of an output's gate has its first mux.                   *)
LEMMA OutputsRead ==
  ASSUME NEW at, Selectable(at)
  PROVE  OutputsReadMuxes
<1>1. ASSUME NEW k \in 1 .. Len(POs), rp.fanin[OutputPin(k)] # None, NumBwd(POs[k][2]) = 0
      PROVE  OutputNet(POs[k][2], rp.fanin[OutputPin(k)])
               = MuxNet("fwd", POs[k][2], rp.fanin[OutputPin(k)])
  <2> DEFINE g == POs[k][2]
             rec == rp.fanin[OutputPin(k)]
  <2>1. k \in DOMAIN POs
    BY RecPairsAssumption
  <2>2. g \in Old /\ OutputPin(k) \in OldPins /\ Reads(OutputPin(k)) = g
    BY <2>1, OutputFacts DEF OldPins, OutputPin
  <2>3. PICK i \in 1 .. Len(rp.list), j \in DOMAIN rp.fanout[g] :
               g = rp.list[i] /\ rec = rp.fanout[g][j]
    BY <1>1, <2>2, PairMux
  <2>4. rp.fanout[g] # <<>> /\ rp.fanout[g][1] = rec
    BY <1>1, <2>1 DEF Selectable, OutputsLead
  <2>5. NumBwd(g) = 0
    BY <1>1
  <2> HIDE DEF g, rec
  <2>6. /\ muxId[g] = MuxBegin + 2 * at[i - 1] /\ at[i - 1] \in Nat /\ MuxBegin \in Nat
        /\ SelectorInput
    BY <2>3, <2>4, FirstMux
  <2>7. 1 \in DOMAIN rp.fanout[g]
    <3>1. rp.fanout[g] \in Seq(Gate)
      BY <2>2, <2>6 DEF SelectorInput, Gate
    <3>2. QED
      BY <2>4, <3>1
  <2>8. /\ Pos(rp.fanout[g], rec) = 1
        /\ Pos(Walk, <<"fwd", g, rec>>) = at[i - 1] + (NumBwd(g) + 1)
    <3>1. Starts(at)
      BY DEF Selectable
    <3>2. Placed(at, i, rp.list[i])
      BY <2>6, <3>1, MuxPlaces
    <3>3. QED
      BY <2>3, <2>4, <2>7, <3>2 DEF Placed
  <2>9. OutputNet(g, rec) = MuxNet("fwd", g, rec)
    <3> DEFINE x == at[i - 1]
               b == MuxBegin
    <3>1. /\ OutputNet(g, rec) = (((b + 2 * x) + 0) + 1) - 1
          /\ MuxNet("fwd", g, rec) = b + 2 * ((x + (0 + 1)) - 1)
      BY <2>5, <2>6, <2>8 DEF OutputNet, MuxNet
    <3>2. x \in Nat /\ b \in Nat
      BY <2>6
    <3> HIDE DEF x, b
    <3>3. QED
      BY <3>1, <3>2
  <2>10. QED
    BY <2>9 DEF g, rec
<1>2. QED
  BY <1>1 DEF OutputsReadMuxes, OutputPin

-----------------------------------------------------------------------------
(* NtkMgr::selectPatch, one mux of the walk after the other.               *)

(* The loops of the selection.                                             *)
DropBwdFold == INSTANCE FoldLemmas WITH Op <- DropBwd
DropFwdFold == INSTANCE FoldLemmas WITH Op <- DropFwd
SelectFold == INSTANCE FoldLemmas WITH Op <- SelectRecPair

(* The folds of these instances are those of the model.                    *)
LEMMA SameSelectFolds ==
  ASSUME NEW base, NEW seq
  PROVE  /\ DropBwdFold!LeftFold(base, seq) = FoldLeft(DropBwd, base, seq)
         /\ DropFwdFold!LeftFold(base, seq) = FoldLeft(DropFwd, base, seq)
         /\ SelectFold!LeftFold(base, seq) = FoldLeft(SelectRecPair, base, seq)
BY DEF FoldLeft, MapThenFoldSet, Max,
       DropBwdFold!LeftFold, DropBwdFold!MapThenFoldSet, DropBwdFold!Largest,
       DropFwdFold!LeftFold, DropFwdFold!MapThenFoldSet, DropFwdFold!Largest,
       SelectFold!LeftFold, SelectFold!MapThenFoldSet, SelectFold!Largest

(* The mux of a pin's pair.                                                *)
MuxOf(p) ==
  IF p \in OldPins THEN <<"fwd", Reads(p), rp.fanin[p]>> ELSE <<"bwd", rp.fanin[p], Reads(p)>>

(* The x-th verdict of the walk drops the pair of its mux.                 *)
Off(x) == IF Walk[x][1] = "fwd" THEN ~res[x] ELSE res[x]

(* One of the first m verdicts is on the mux c and drops it, or keeps it.  *)
Drops(m, c) == \E x \in 1 .. m : Walk[x] = c /\ Off(x)
Keeps(m, c) == \E x \in 1 .. m : Walk[x] = c /\ ~Off(x)

(* What a pin has after m muxes.                                           *)
After(m, p) == IF Drops(m, MuxOf(p)) THEN None ELSE rp.fanin[p]

(* The pins after m muxes; of the golden pins those that are alone.        *)
PinsAfter(m, r) ==
  /\ \A p \in Pins : r.fanin[p] \in {None, rp.fanin[p]}
  /\ \A p \in OldPins : rp.fanin[p] # None => r.fanin[p] = After(m, p)
  /\ \A p \in GolPins : rp.fanin[p] # None /\ Alone(p) => r.fanin[p] = After(m, p)

(* The old gates a golden gate has backward patches on after m muxes.      *)
PatchesAfter(m, r) ==
  \A gol \in Gol :
    /\ IsInjective(r.fanout[gol])
    /\ Range(r.fanout[gol]) =
         {g \in Range(rp.fanout[gol]) : ~Drops(m, <<"bwd", g, gol>>)}

(* The pairs kept of g after m muxes.                                      *)
KeptAfter(m, kept, g) ==
  /\ IsInjective(kept)
  /\ Range(kept) = {rec \in Range(rp.fanout[g]) : Keeps(m, <<"fwd", g, rec>>)}

(* What selectRecPair carries from mux to mux.                             *)
SelSet == [r : Rp, index : Int, kept : Seq(Gate), list : Seq(Old)]

(* s is right after m muxes of the walk.                                   *)
SelectedTo(m, s) ==
  /\ s \in SelSet /\ s.index = m + 1
  /\ PinsAfter(m, s.r) /\ PatchesAfter(m, s.r) /\ Counted(s.r)
  /\ s.r.bwdList = rp.bwdList

(* The list and the pairs of the old gates stay as they are.               *)
SameOld(s, t) == t.list = s.list /\ \A g \in Old : t.r.fanout[g] = s.r.fanout[g]

(* Removing an element of a list without repetition.                       *)
LEMMA RemovingAt ==
  ASSUME NEW S, NEW s \in Seq(S), IsInjective(s), NEW k \in DOMAIN s
  PROVE  /\ RemoveAt(s, k) \in Seq(S) /\ IsInjective(RemoveAt(s, k))
         /\ Range(RemoveAt(s, k)) = Range(s) \ {s[k]}
<1> DEFINE a == SubSeq(s, 1, k - 1)
           b == SubSeq(s, k + 1, Len(s))
           n == Len(s)
<1>1. n \in Nat /\ DOMAIN s = 1 .. n /\ k \in 1 .. n /\ \A i \in 1 .. n : s[i] \in S
  OBVIOUS
<1>2. /\ a \in Seq(S) /\ Len(a) = k - 1 /\ \A i \in 1 .. k - 1 : a[i] = s[i]
  <2>1. \A i \in 1 .. k - 1 : s[i] \in S
    BY <1>1
  <2>2. QED
    BY <1>1, <2>1
<1>3. /\ b \in Seq(S) /\ Len(b) = n - k /\ \A i \in 1 .. n - k : b[i] = s[k + i]
  <2>1. \A i \in k + 1 .. n : s[i] \in S
    BY <1>1
  <2>2. QED
    BY <1>1, <2>1
<1>4. RemoveAt(s, k) = a \o b
  BY DEF RemoveAt
<1> HIDE DEF a, b, n
<1>5. DOMAIN a = 1 .. k - 1 /\ DOMAIN b = 1 .. n - k
  BY <1>1, <1>2, <1>3
<1>6. Range(a) = {s[i] : i \in 1 .. k - 1}
  BY <1>2, <1>5 DEF Range
<1>7. Range(b) = {s[i] : i \in k + 1 .. n}
  <2>1. \A i \in k + 1 .. n : i - k \in 1 .. n - k /\ k + (i - k) = i
    BY <1>1
  <2>2. \A i \in 1 .. n - k : k + i \in k + 1 .. n
    BY <1>1
  <2>3. \A i \in k + 1 .. n : i - k \in 1 .. n - k /\ b[i - k] = s[i]
    BY <1>3, <2>1
  <2>4. Range(b) = {b[i] : i \in 1 .. n - k}
    BY <1>5 DEF Range
  <2>5. \A i \in 1 .. n - k : b[i] \in {s[j] : j \in k + 1 .. n}
    BY <1>3, <2>2
  <2>6. \A i \in k + 1 .. n : s[i] \in {b[j] : j \in 1 .. n - k}
    BY <2>3
  <2>7. QED
    BY <2>4, <2>5, <2>6
<1>8. \A i, j \in 1 .. n : s[i] = s[j] => i = j
  BY <1>1 DEF IsInjective
<1>9. IsInjective(a)
  <2>1. \A i \in 1 .. k - 1 : i \in 1 .. n
    BY <1>1
  <2>2. QED
    BY <1>2, <1>5, <1>8, <2>1 DEF IsInjective
<1>10. IsInjective(b)
  <2>1. \A i \in 1 .. n - k : k + i \in 1 .. n
    BY <1>1
  <2>2. \A i, j \in 1 .. n - k : k + i = k + j => i = j
    BY <1>1
  <2>3. QED
    BY <1>3, <1>5, <1>8, <2>1, <2>2 DEF IsInjective
<1>11. Range(a) \intersect Range(b) = {}
  <2>1. \A i \in 1 .. k - 1, j \in k + 1 .. n : i \in 1 .. n /\ j \in 1 .. n /\ i # j
    BY <1>1
  <2>2. QED
    BY <1>6, <1>7, <1>8, <2>1
<1>12. Range(a) \union Range(b) = Range(s) \ {s[k]}
  <2>1. \A i \in 1 .. n : i # k <=> i \in 1 .. k - 1 \/ i \in k + 1 .. n
    BY <1>1
  <2>2. \A i \in 1 .. k - 1 : i \in 1 .. n
    BY <1>1
  <2>3. \A i \in k + 1 .. n : i \in 1 .. n
    BY <1>1
  <2>4. Range(s) = {s[i] : i \in 1 .. n}
    BY <1>1 DEF Range
  <2>5. QED
    BY <1>1, <1>6, <1>7, <1>8, <2>1, <2>2, <2>3, <2>4
<1>13. a \o b \in Seq(S) /\ Range(a \o b) = Range(a) \union Range(b)
  BY <1>2, <1>3, Concatenating
<1>14. IsInjective(a \o b)
  BY <1>2, <1>3, <1>9, <1>10, <1>11, Concatenating
<1>15. QED
  BY <1>4, <1>12, <1>13, <1>14

(* Taking an element out of such a list, when it is there.                 *)
LEMMA WithoutRight ==
  ASSUME NEW S, NEW s \in Seq(S), IsInjective(s), NEW g
  PROVE  /\ Without(s, g) \in Seq(S) /\ IsInjective(Without(s, g))
         /\ Range(Without(s, g)) = Range(s) \ {g}
<1>1. CASE g \in Range(s)
  <2>1. Pos(s, g) \in DOMAIN s /\ s[Pos(s, g)] = g
    BY <1>1, PosIn
  <2>2. Without(s, g) = RemoveAt(s, Pos(s, g))
    BY <1>1 DEF Without
  <2>3. QED
    BY <2>1, <2>2, RemovingAt
<1>2. CASE g \notin Range(s)
  BY <1>2 DEF Without
<1>3. QED
  BY <1>1, <1>2

(* The muxes of the walk are those of the pairs; those of the old gates'   *)
(* pairs are there once.                                                   *)
WalkFacts ==
  /\ Walk \in Seq(MuxSet) /\ Len(Walk) \in Nat /\ DOMAIN Walk = 1 .. Len(Walk)
  /\ res \in [1 .. Len(Walk) -> BOOLEAN]
  /\ \A x, y \in 1 .. Len(Walk) : Walk[x][1] = "fwd" /\ Walk[y] = Walk[x] => x = y
  /\ \A c \in Range(Walk) : /\ Pos(Walk, c) \in 1 .. Len(Walk) /\ Walk[Pos(Walk, c)] = c
                            /\ c[2] \in Old /\ c = <<c[1], c[2], c[3]>>
                            /\ \/ c[1] = "fwd" /\ c[3] \in Range(rp.fanout[c[2]])
                               \/ /\ c[1] = "bwd" /\ c[3] \in Gol
                                  /\ c[2] \in Range(rp.fanout[c[3]])
  /\ \A p \in Pins : rp.fanin[p] # None => MuxOf(p) \in Range(Walk)
  /\ \A g \in Old : \A rec \in Range(rp.fanout[g]) : <<"fwd", g, rec>> \in Range(Walk)
  /\ \A gol \in Gol : \A g \in Range(rp.fanout[gol]) : <<"bwd", g, gol>> \in Range(Walk)

(* The walk is so.                                                         *)
LEMMA WalkOfPairs ==
  ASSUME NEW at, Selectable(at)
  PROVE  WalkFacts
<1>1. SelectorInput /\ Starts(at) /\ res \in [1 .. at[Len(rp.list)] -> BOOLEAN]
  BY ListingSelects DEF Selectable
<1>2. /\ Walk \in Seq(MuxSet) /\ Len(Walk) = at[Len(rp.list)]
      /\ \A c : c \in Range(Walk) <=>
              \E i \in 1 .. Len(rp.list) : c \in Range(MuxesOf(rp.list[i]))
  BY <1>1, WalkRight
<1>3. Len(Walk) \in Nat /\ DOMAIN Walk = 1 .. Len(Walk)
  BY <1>2
<1>4. Range(rp.list) = {rp.list[i] : i \in 1 .. Len(rp.list)}
  <2>1. DOMAIN rp.list = 1 .. Len(rp.list)
    BY <1>1 DEF SelectorInput
  <2>2. QED
    BY <2>1 DEF Range
<1>5. \A x, y \in 1 .. Len(Walk) : Walk[x][1] = "fwd" /\ Walk[y] = Walk[x] => x = y
  <2> SUFFICES ASSUME NEW x \in DOMAIN Walk, NEW y \in DOMAIN Walk, Walk[x][1] = "fwd",
                      Walk[x] = Walk[y]
               PROVE  x = y
    BY <1>3
  <2>1. ~SamePatch(at, x, y)
    BY DEF SamePatch
  <2>2. QED
    BY <1>1, <2>1, WalkSame
<1>6. ASSUME NEW c \in Range(Walk)
      PROVE  /\ Pos(Walk, c) \in 1 .. Len(Walk) /\ Walk[Pos(Walk, c)] = c
             /\ c[2] \in Old /\ c = <<c[1], c[2], c[3]>>
             /\ \/ c[1] = "fwd" /\ c[3] \in Range(rp.fanout[c[2]])
                \/ /\ c[1] = "bwd" /\ c[3] \in Gol
                   /\ c[2] \in Range(rp.fanout[c[3]])
  <2>1. Pos(Walk, c) \in 1 .. Len(Walk) /\ Walk[Pos(Walk, c)] = c
    BY <1>2, <1>3, PosIn
  <2>3. PICK i \in 1 .. Len(rp.list) : c \in Range(MuxesOf(rp.list[i]))
    BY <1>2
  <2> DEFINE g == rp.list[i]
  <2>4. g \in Old
    BY <1>1 DEF SelectorInput
  <2>5. \/ \E o \in Range(bwdMap[g]) : c = <<"bwd", g, o>>
        \/ \E o \in Range(rp.fanout[g]) : c = <<"fwd", g, o>>
    BY <1>1, <2>3, <2>4, MuxesOfList
  <2>6. \A o \in Range(bwdMap[g]) : o \in Gol /\ g \in Range(rp.fanout[o])
    BY <2>4 DEF Selectable, BwdMapOK
  <2> HIDE DEF g
  <2>7. QED
    BY <2>1, <2>4, <2>5, <2>6
<1>7. \A g \in Old : \A rec \in Range(rp.fanout[g]) : <<"fwd", g, rec>> \in Range(Walk)
  <2> SUFFICES ASSUME NEW g \in Old, NEW rec \in Range(rp.fanout[g])
               PROVE  <<"fwd", g, rec>> \in Range(Walk)
    OBVIOUS
  <2>1. g \in Range(rp.list)
    BY DEF Selectable, Listing, Range
  <2>2. PICK i \in 1 .. Len(rp.list) : g = rp.list[i]
    BY <1>4, <2>1
  <2>3. <<"fwd", g, rec>> \in Range(MuxesOf(g))
    BY <1>1, MuxesOfList
  <2>4. QED
    BY <1>2, <2>2, <2>3
<1>8. \A gol \in Gol : \A g \in Range(rp.fanout[gol]) : <<"bwd", g, gol>> \in Range(Walk)
  <2> SUFFICES ASSUME NEW gol \in Gol, NEW g \in Range(rp.fanout[gol])
               PROVE  <<"bwd", g, gol>> \in Range(Walk)
    OBVIOUS
  <2>1. g \in Old
    <3>1. PICK p \in FanoutPins(gol) : rp.fanin[p] = g /\ g # None
      BY PairPins DEF Selectable, Gate
    <3>2. p \in Pins /\ p[1] \in Gol
      BY RecPairsAssumption, PinsFinite DEF FanoutPins, Gate
    <3>3. QED
      BY <3>1, <3>2 DEF Selectable, Paired, Crosses
  <2>2. gol \in Range(bwdMap[g])
    BY <2>1 DEF Selectable, BwdMapOK
  <2>3. g \in Range(rp.list)
    BY <2>1, <2>2 DEF Selectable, Listing, Range
  <2>4. PICK i \in 1 .. Len(rp.list) : g = rp.list[i]
    BY <1>4, <2>3
  <2>5. <<"bwd", g, gol>> \in Range(MuxesOf(g))
    BY <1>1, <2>1, <2>2, MuxesOfList
  <2>6. QED
    BY <1>2, <2>4, <2>5
<1>9. \A p \in Pins : rp.fanin[p] # None => MuxOf(p) \in Range(Walk)
  <2> SUFFICES ASSUME NEW p \in Pins, rp.fanin[p] # None PROVE MuxOf(p) \in Range(Walk)
    OBVIOUS
  <2>1. /\ Reads(p) \in Gate /\ p \in FanoutPins(Reads(p))
        /\ p \in OldPins <=> Reads(p) \in Old
    BY PinsFinite, RecPairsAssumption DEF FanoutPins, OldPins
  <2>2. rp.fanin[p] \in Range(rp.fanout[Reads(p)])
    BY <2>1, PairPins DEF Selectable
  <2>3. CASE p \in OldPins
    BY <1>7, <2>1, <2>2, <2>3 DEF MuxOf
  <2>4. CASE p \notin OldPins
    BY <1>8, <2>1, <2>2, <2>4 DEF MuxOf, Gate
  <2>5. QED
    BY <2>3, <2>4
<1>10. QED
  BY <1>1, <1>2, <1>3, <1>5, <1>6, <1>7, <1>8, <1>9 DEF WalkFacts

(* A pin that is alone is one of those a backward patch loses just when it *)
(* is the patch's.                                                         *)
LEMMA BwdPinsAlone ==
  ASSUME Paired(rp), NEW r \in Rp, \A p \in Pins : r.fanin[p] \in {None, rp.fanin[p]},
         NEW g \in Old, NEW gol \in Gol, g \in Range(rp.fanout[gol]),
         NEW p \in Pins, r.fanin[p] = g, Alone(p)
  PROVE  p \in BwdPins(r.fanin, g, gol) <=> Reads(p) = gol
<1> DEFINE Below == {q \in Pins : q[1] = p[1] /\ q[2] < p[2] /\ r.fanin[q] = g}
           Same == {q \in FanoutPins(gol) : q[1] = p[1]}
<1>1. /\ g # None /\ rp.fanin[p] = g
      /\ \A q \in Pins : r.fanin[q] = g => rp.fanin[q] = g
      /\ Same \subseteq Pins /\ Below \subseteq Pins
  BY RecPairsAssumption DEF Gate, FanoutPins
<1>2. /\ IsFiniteSet(Same) /\ Cardinality(Same) \in Nat
      /\ IsFiniteSet(Below) /\ Cardinality(Below) \in Nat
  BY <1>1, PinsFinite, FS_Subset, FS_CardinalityType
<1>3. p \in BwdPins(r.fanin, g, gol) <=> Cardinality(Below) < Cardinality(Same)
  BY DEF BwdPins
<1>4. CASE Reads(p) = gol
  <2>1. p \in Same
    BY <1>4 DEF FanoutPins
  <2>2. p \notin Below
    <3>1. p[2] \in Nat
      <4>1. p[1] \in Gate /\ p[2] \in DOMAIN Fanin[p[1]]
        BY PinsFinite
      <4>2. Fanin[p[1]] \in Seq(Gate)
        BY <4>1, RecPairsAssumption
      <4>3. QED
        BY <4>1, <4>2
    <3>2. QED
      BY <3>1
  <2>3. Below \subseteq Same
    <3>1. SUFFICES ASSUME NEW q \in Below, Reads(q) # gol PROVE FALSE
      BY DEF FanoutPins
    <3>2. q \in Pins /\ q[1] = p[1] /\ rp.fanin[q] = g
      BY <1>1
    <3>3. Reads(q) \in Gate /\ q \in FanoutPins(Reads(q))
      BY <3>2, PinsFinite DEF FanoutPins
    <3>4. g \in Range(rp.fanout[Reads(q)])
      BY <1>1, <3>2, <3>3, PairPins
    <3>5. QED
      BY <1>1, <1>4, <3>1, <3>2, <3>4 DEF Alone
  <2> HIDE DEF Same, Below
  <2>4. /\ Cardinality(Below) <= Cardinality(Same)
        /\ Cardinality(Same) = Cardinality(Below) => Same = Below
    BY <1>2, <2>3, FS_Subset
  <2>5. Cardinality(Below) < Cardinality(Same)
    BY <1>2, <2>1, <2>2, <2>4
  <2>6. QED
    BY <1>3, <1>4, <2>5
<1>5. CASE Reads(p) # gol
  <2>1. Same = {}
    <3>1. SUFFICES ASSUME NEW q \in Same PROVE FALSE
      OBVIOUS
    <3>2. q \in Pins /\ q[1] = p[1] /\ Reads(q) = gol
      BY DEF FanoutPins
    <3>3. QED
      BY <1>1, <1>5, <3>2 DEF Alone
  <2>2. Cardinality(Same) = 0
    BY <2>1, FS_EmptySet
  <2> HIDE DEF Same, Below
  <2>3. ~(Cardinality(Below) < Cardinality(Same))
    BY <1>2, <2>2
  <2>4. QED
    BY <1>3, <1>5, <2>3
<1>6. QED
  BY <1>4, <1>5

(* The next verdict is on the mux next of the walk; a pair has one verdict.*)
NextVerdict(m, next) ==
  /\ \A c : /\ Drops(m + 1, c) <=> Drops(m, c) \/ (c = next /\ Off(m + 1))
            /\ Keeps(m + 1, c) <=> Keeps(m, c) \/ (c = next /\ ~Off(m + 1))
  /\ next[1] = "fwd" => ~Drops(m, next) /\ ~Keeps(m, next)

LEMMA DropsNext ==
  ASSUME WalkFacts, NEW m \in 0 .. Len(Walk) - 1
  PROVE  /\ m + 1 \in 1 .. Len(Walk) /\ Walk[m + 1] \in Range(Walk) /\ m \in Int
         /\ NextVerdict(m, Walk[m + 1])
<1>1. Len(Walk) \in Nat /\ DOMAIN Walk = 1 .. Len(Walk)
  BY DEF WalkFacts
<1>2. /\ m + 1 \in 1 .. Len(Walk) /\ m \in Int
      /\ \A x : x \in 1 .. m + 1 <=> x \in 1 .. m \/ x = m + 1
      /\ \A x \in 1 .. m : x \in 1 .. Len(Walk) /\ x # m + 1
  BY <1>1
<1>3. Walk[m + 1] \in Range(Walk)
  BY <1>1, <1>2 DEF Range
<1> DEFINE next == Walk[m + 1]
<1>4. \A c : /\ Drops(m + 1, c) <=> Drops(m, c) \/ (c = next /\ Off(m + 1))
             /\ Keeps(m + 1, c) <=> Keeps(m, c) \/ (c = next /\ ~Off(m + 1))
  BY <1>2 DEF Drops, Keeps
<1>5. ASSUME next[1] = "fwd" PROVE ~Drops(m, next) /\ ~Keeps(m, next)
  <2>1. \A x \in 1 .. m : Walk[x] # next
    BY <1>2, <1>5 DEF WalkFacts
  <2> HIDE DEF next
  <2>2. QED
    BY <2>1 DEF Drops, Keeps
<1>6. NextVerdict(m, next)
  <2> HIDE DEF next
  <2>1. QED
    BY <1>4, <1>5 DEF NextVerdict
<1>7. QED
  BY <1>2, <1>3, <1>6

(* What is left of the pairs still leads from one netlist to the other.    *)
LEMMA FewerPaired ==
  ASSUME Paired(rp), NEW r \in Rp, \A p \in Pins : r.fanin[p] \in {None, rp.fanin[p]}
  PROVE  Crosses(r)
BY DEF Paired, Crosses

(* One verdict on a backward mux.                                          *)
LEMMA DropBwdStep ==
  ASSUME WalkFacts, Paired(rp), NEW m \in 0 .. Len(Walk) - 1, Walk[m + 1][1] = "bwd",
         NEW s, SelectedTo(m, s)
  PROVE  /\ SelectedTo(m + 1, DropBwd(s, Walk[m + 1])) /\ SameOld(s, DropBwd(s, Walk[m + 1]))
         /\ DropBwd(s, Walk[m + 1]).kept = s.kept
<1> DEFINE mux == Walk[m + 1]
           g == mux[2]
           gol == mux[3]
           new == DropBwd(s, mux)
<1>1. /\ s \in SelSet /\ s.r \in Rp /\ s.index = m + 1 /\ s.r.bwdList = rp.bwdList
      /\ PinsAfter(m, s.r) /\ PatchesAfter(m, s.r) /\ Counted(s.r)
  BY DEF SelectedTo, SelSet
<1>2. \A c : Drops(m + 1, c) <=> Drops(m, c) \/ (c = mux /\ Off(m + 1))
  BY DropsNext DEF NextVerdict
<1>3. mux \in Range(Walk) /\ m \in Int /\ m + 1 \in 1 .. Len(Walk)
  BY DropsNext
<1>4. /\ g \in Old /\ mux = <<"bwd", g, gol>> /\ gol \in Gol /\ g \in Range(rp.fanout[gol])
  BY <1>3 DEF WalkFacts
<1>5. /\ g \in Gate /\ gol \in Gate /\ g # None /\ g \notin Gol /\ Old \intersect Gol = {}
      /\ gol \notin Old
  BY <1>4, RecPairsAssumption DEF Gate
<1>6. Off(m + 1) <=> res[m + 1]
  BY DEF Off
<1>7. Crosses(s.r)
  BY <1>1, FewerPaired DEF PinsAfter
<1>8. \A p \in Pins : s.r.fanin[p] = g => p \in GolPins /\ p \notin OldPins /\ rp.fanin[p] = g
  BY <1>1, <1>4, <1>5, <1>7 DEF Crosses, GolPins, OldPins, PinsAfter
<1>9. \A p \in OldPins : rp.fanin[p] # None => MuxOf(p) # mux
  BY <1>4 DEF MuxOf
<1> DEFINE pins == BwdPins(s.r.fanin, g, gol)
           fanin == Put(s.r.fanin, pins, None)
           left == Without(s.r.fanout[gol], g)
           fanout == [s.r.fanout EXCEPT ![gol] = left]
<1>10. \A p \in pins : p \in Pins /\ s.r.fanin[p] = g
  BY DEF BwdPins
<1>11. /\ left \in Seq(Gate) /\ IsInjective(left)
       /\ Range(left) = Range(s.r.fanout[gol]) \ {g}
  <2>1. s.r.fanout[gol] \in Seq(Gate) /\ IsInjective(s.r.fanout[gol])
    BY <1>1, <1>4, <1>5 DEF Rp, PatchesAfter
  <2>2. QED
    BY <2>1, WithoutRight
<1>12. fanin \in [Pins -> Gate \union {None}] /\ fanout \in [Gate -> Seq(Gate)]
  <2>1. \A p \in Pins : s.r.fanin[p] \in Gate \union {None}
    BY <1>1 DEF Rp
  <2>2. fanin \in [Pins -> Gate \union {None}]
    BY <2>1 DEF Put
  <2> HIDE DEF left
  <2>3. fanout \in [Gate -> Seq(Gate)]
    BY <1>1, <1>5, <1>11 DEF Rp
  <2>4. QED
    BY <2>2, <2>3
<1>13. CASE ~res[m + 1]
  <2>1. new = [s EXCEPT !.index = @ + 1]
    BY <1>1, <1>13 DEF DropBwd
  <2>2. /\ new.r = s.r /\ new.index = m + 2 /\ new.kept = s.kept /\ new.list = s.list
        /\ new \in SelSet
    BY <1>1, <1>3, <2>1 DEF SelSet
  <2>3. PinsAfter(m + 1, s.r)
    <3>1. \A p \in Pins : After(m + 1, p) = After(m, p)
      BY <1>2, <1>6, <1>13 DEF After
    <3>2. QED
      BY <1>1, <3>1 DEF PinsAfter, OldPins, GolPins
  <2>4. PatchesAfter(m + 1, s.r)
    BY <1>1, <1>2, <1>6, <1>13 DEF PatchesAfter
  <2>5. (m + 1) + 1 = m + 2
    BY <1>3
  <2> HIDE DEF new
  <2>6. QED
    BY <1>1, <2>2, <2>3, <2>4, <2>5 DEF SelectedTo, SameOld, new
<1>14. CASE res[m + 1]
  <2>1. new = [s EXCEPT !.index = @ + 1, !.r.fanin = fanin, !.r.fanout[gol] = left]
    BY <1>1, <1>14 DEF DropBwd
  <2> DEFINE nr == [s.r EXCEPT !.fanin = fanin, !.fanout = fanout]
  <2>2. /\ new.r = nr /\ new.index = m + 2 /\ new.kept = s.kept /\ new.list = s.list
        /\ new \in [r : {nr}, index : Int, kept : Seq(Gate), list : Seq(Old)]
    <3> HIDE DEF fanin, left
    <3>1. new = [s EXCEPT !.index = s.index + 1, !.r = nr]
      BY <1>1, <2>1 DEF SelSet, Rp
    <3>2. s.index + 1 = m + 2 /\ m + 2 \in Int
      BY <1>1, <1>3
    <3> HIDE DEF nr, new
    <3>3. QED
      BY <1>1, <3>1, <3>2 DEF SelSet
  <2> HIDE DEF fanin, fanout, new
  <2>3. /\ nr.fanin = fanin /\ nr.fanout = fanout /\ nr.bwdList = s.r.bwdList
        /\ nr.cnt = s.r.cnt /\ nr \in Rp
    BY <1>1, <1>12 DEF Rp
  <2> HIDE DEF nr
  <2>4. fanin = [p \in Pins |-> IF p \in pins THEN None ELSE s.r.fanin[p]]
    BY DEF fanin, Put
  <2>5. fanout[gol] = left /\ \A h \in Gate : h # gol => fanout[h] = s.r.fanout[h]
    BY <1>1, <1>5 DEF fanout, Rp
  <2> HIDE DEF pins, left
  <2>6. PinsAfter(m + 1, nr)
    <3>1. \A p \in Pins : nr.fanin[p] \in {None, rp.fanin[p]}
      BY <1>1, <2>3, <2>4 DEF PinsAfter
    <3>2. ASSUME NEW p \in OldPins, rp.fanin[p] # None PROVE nr.fanin[p] = After(m + 1, p)
      <4>1. p \in Pins /\ p \notin pins
        BY <1>8, <1>10, <3>2 DEF OldPins
      <4>2. After(m + 1, p) = After(m, p)
        BY <1>2, <1>9, <3>2 DEF After
      <4>3. QED
        BY <1>1, <2>3, <2>4, <3>2, <4>1, <4>2 DEF PinsAfter
    <3>3. ASSUME NEW p \in GolPins, rp.fanin[p] # None, Alone(p)
          PROVE  nr.fanin[p] = After(m + 1, p)
      <4>1. p \in Pins /\ p \notin OldPins
        BY <1>5 DEF GolPins, OldPins
      <4>2. s.r.fanin[p] = After(m, p) /\ s.r.fanin[p] \in {None, rp.fanin[p]}
        BY <1>1, <3>3, <4>1 DEF PinsAfter
      <4>3. s.r.fanin[p] = g => (p \in pins <=> Reads(p) = gol)
        <5>1. \A q \in Pins : s.r.fanin[q] \in {None, rp.fanin[q]}
          BY <1>1 DEF PinsAfter
        <5>2. QED
          BY <1>1, <1>4, <3>3, <4>1, <5>1, BwdPinsAlone DEF pins
      <4>4. MuxOf(p) = mux <=> Reads(p) = gol /\ rp.fanin[p] = g
        BY <1>4, <4>1 DEF MuxOf
      <4>5. After(m + 1, p) = IF MuxOf(p) = mux THEN None ELSE After(m, p)
        BY <1>2, <1>6, <1>14 DEF After
      <4>6. CASE MuxOf(p) = mux
        <5>1. s.r.fanin[p] = None \/ p \in pins
          BY <4>2, <4>3, <4>4, <4>6
        <5>2. QED
          BY <2>3, <2>4, <4>1, <4>5, <4>6, <5>1
      <4>7. CASE MuxOf(p) # mux
        <5>1. p \notin pins
          BY <1>8, <1>10, <4>1, <4>3, <4>4, <4>7
        <5>2. QED
          BY <2>3, <2>4, <4>1, <4>2, <4>5, <4>7, <5>1
      <4>8. QED
        BY <4>6, <4>7
    <3>4. QED
      BY <3>1, <3>2, <3>3 DEF PinsAfter
  <2>7. PatchesAfter(m + 1, nr)
    <3> SUFFICES ASSUME NEW o \in Gol
                 PROVE  /\ IsInjective(nr.fanout[o])
                        /\ \A h : h \in Range(nr.fanout[o]) <=>
                             h \in Range(rp.fanout[o]) /\ ~Drops(m + 1, <<"bwd", h, o>>)
      BY DEF PatchesAfter
    <3>1. /\ IsInjective(s.r.fanout[o]) /\ o \in Gate
          /\ \A h : h \in Range(s.r.fanout[o]) <=>
               h \in Range(rp.fanout[o]) /\ ~Drops(m, <<"bwd", h, o>>)
      BY <1>1 DEF PatchesAfter, Gate
    <3>2. ASSUME NEW h
          PROVE  Drops(m + 1, <<"bwd", h, o>>)
                   <=> Drops(m, <<"bwd", h, o>>) \/ (h = g /\ o = gol)
      <4>1. <<"bwd", h, o>> = mux <=> h = g /\ o = gol
        BY <1>4
      <4>2. QED
        BY <1>2, <1>6, <1>14, <4>1
    <3>3. CASE o = gol
      BY <1>11, <2>3, <2>5, <3>1, <3>2, <3>3
    <3>4. CASE o # gol
      BY <2>3, <2>5, <3>1, <3>2, <3>4
    <3>5. QED
      BY <3>3, <3>4
  <2>8. Counted(nr)
    <3> SUFFICES ASSUME NEW h \in Old
                 PROVE  nr.cnt[h] = Cardinality({p \in FanoutPins(h) : nr.fanin[p] # None})
      BY DEF Counted
    <3>1. \A p \in FanoutPins(h) : p \in Pins /\ p \notin pins
      <4> SUFFICES ASSUME NEW p \in FanoutPins(h) PROVE p \in Pins /\ p \notin pins
        OBVIOUS
      <4>1. p \in Pins /\ Reads(p) = h
        BY DEF FanoutPins
      <4>2. p \in OldPins
        BY <4>1, RecPairsAssumption DEF OldPins
      <4>3. QED
        BY <1>8, <1>10, <4>1, <4>2
    <3>2. {p \in FanoutPins(h) : nr.fanin[p] # None} = {p \in FanoutPins(h) : s.r.fanin[p] # None}
      BY <2>3, <2>4, <3>1
    <3>3. QED
      BY <1>1, <2>3, <3>2 DEF Counted
  <2>9. SameOld(s, new)
    BY <1>5, <2>2, <2>3, <2>5 DEF SameOld, Gate
  <2>10. new \in SelSet /\ (m + 1) + 1 = m + 2
    BY <1>3, <2>2, <2>3 DEF SelSet
  <2>11. QED
    BY <1>1, <2>2, <2>3, <2>6, <2>7, <2>8, <2>9, <2>10 DEF SelectedTo, new
<1>15. QED
  BY <1>3, <1>13, <1>14 DEF WalkFacts

(* One verdict on a forward mux.                                           *)
LEMMA DropFwdStep ==
  ASSUME WalkFacts, Paired(rp), NEW m \in 0 .. Len(Walk) - 1, Walk[m + 1][1] = "fwd",
         NEW s, SelectedTo(m, s), KeptAfter(m, s.kept, Walk[m + 1][2])
  PROVE  /\ SelectedTo(m + 1, DropFwd(s, Walk[m + 1])) /\ SameOld(s, DropFwd(s, Walk[m + 1]))
         /\ KeptAfter(m + 1, DropFwd(s, Walk[m + 1]).kept, Walk[m + 1][2])
<1> DEFINE mux == Walk[m + 1]
           g == mux[2]
           rec == mux[3]
           new == DropFwd(s, mux)
           pins == {p \in FanoutPins(g) : s.r.fanin[p] = rec}
<1>1. /\ s \in SelSet /\ s.r \in Rp /\ s.index = m + 1 /\ s.r.bwdList = rp.bwdList
      /\ PinsAfter(m, s.r) /\ PatchesAfter(m, s.r) /\ Counted(s.r)
      /\ s.kept \in Seq(Gate)
  BY DEF SelectedTo, SelSet
<1>2. /\ \A c : /\ Drops(m + 1, c) <=> Drops(m, c) \/ (c = mux /\ Off(m + 1))
                /\ Keeps(m + 1, c) <=> Keeps(m, c) \/ (c = mux /\ ~Off(m + 1))
      /\ ~Drops(m, mux) /\ ~Keeps(m, mux)
  BY DropsNext DEF NextVerdict
<1>3. mux \in Range(Walk) /\ m \in Int /\ m + 1 \in 1 .. Len(Walk)
  BY DropsNext
<1>4. /\ g \in Old /\ mux = <<"fwd", g, rec>> /\ rec \in Range(rp.fanout[g])
  BY <1>3 DEF WalkFacts
<1>5. /\ g \in Gate /\ rec # None /\ rec \in Gate /\ Old \intersect Gol = {}
  <2>1. g \in Gate
    BY <1>4 DEF Gate
  <2>2. rp.fanout[g] \in Seq(Gate)
    BY <2>1 DEF Paired, Rp
  <2>3. rec \in Gate
    BY <1>4, <2>2 DEF Range
  <2>4. QED
    BY <2>1, <2>3, RecPairsAssumption
<1>6. Off(m + 1) <=> ~res[m + 1]
  BY DEF Off
<1>7. \A p \in FanoutPins(g) : p \in Pins /\ p \in OldPins /\ Reads(p) = g
  BY <1>4, RecPairsAssumption DEF FanoutPins, OldPins
<1>8. \A p \in OldPins : p \in Pins /\ (MuxOf(p) = mux <=> Reads(p) = g /\ rp.fanin[p] = rec)
  BY <1>4 DEF MuxOf, OldPins
<1>9. \A p \in GolPins : p \in Pins /\ p \notin OldPins /\ MuxOf(p) # mux
  BY <1>4, <1>5 DEF MuxOf, GolPins, OldPins
<1>10. \A h, o : Drops(m + 1, <<"bwd", h, o>>) <=> Drops(m, <<"bwd", h, o>>)
  BY <1>2, <1>4
<1>11. \A h : /\ <<"fwd", g, h>> = mux <=> h = rec
              /\ Keeps(m + 1, <<"fwd", g, h>>)
                   <=> Keeps(m, <<"fwd", g, h>>) \/ (h = rec /\ ~Off(m + 1))
  BY <1>2, <1>4
<1>12. CASE res[m + 1]
  <2>1. new = [s EXCEPT !.index = @ + 1, !.kept = Append(@, rec)]
    BY <1>1, <1>12 DEF DropFwd
  <2>2. /\ new.r = s.r /\ new.index = m + 2 /\ new.kept = Append(s.kept, rec)
        /\ new.list = s.list /\ new \in SelSet
    <3>1. Append(s.kept, rec) \in Seq(Gate)
      BY <1>1, <1>5
    <3> DEFINE k == Append(s.kept, rec)
    <3>2. new = [s EXCEPT !.index = s.index + 1, !.kept = k]
      BY <1>1, <2>1 DEF SelSet
    <3> HIDE DEF k, new
    <3>3. s.index + 1 = m + 2 /\ m + 2 \in Int
      BY <1>1, <1>3
    <3>4. QED
      BY <1>1, <3>1, <3>2, <3>3 DEF SelSet, k
  <2>3. PinsAfter(m + 1, s.r)
    <3>1. \A p \in Pins : After(m + 1, p) = After(m, p)
      BY <1>2, <1>6, <1>12 DEF After
    <3>2. QED
      BY <1>1, <3>1 DEF PinsAfter, OldPins, GolPins
  <2>4. PatchesAfter(m + 1, s.r)
    BY <1>1, <1>10 DEF PatchesAfter
  <2>5. KeptAfter(m + 1, new.kept, g)
    <3>1. /\ IsInjective(s.kept)
          /\ \A h : h \in Range(s.kept) <=>
               h \in Range(rp.fanout[g]) /\ Keeps(m, <<"fwd", g, h>>)
      BY DEF KeptAfter
    <3>2. rec \notin Range(s.kept)
      BY <1>2, <1>4, <3>1
    <3>3. Range(new.kept) = Range(s.kept) \union {rec} /\ IsInjective(new.kept)
      BY <1>1, <1>5, <2>2, <3>1, <3>2, Appending
    <3>4. \A h : h \in Range(new.kept) <=>
               h \in Range(rp.fanout[g]) /\ Keeps(m + 1, <<"fwd", g, h>>)
      BY <1>4, <1>6, <1>11, <1>12, <3>1, <3>3
    <3>5. QED
      BY <3>3, <3>4 DEF KeptAfter
  <2>6. (m + 1) + 1 = m + 2
    BY <1>3
  <2> HIDE DEF new
  <2>7. QED
    BY <1>1, <2>2, <2>3, <2>4, <2>5, <2>6 DEF SelectedTo, SameOld, new
<1>13. CASE ~res[m + 1]
  <2> DEFINE fanin == Put(s.r.fanin, pins, None)
             cnt == [s.r.cnt EXCEPT ![g] = @ - Cardinality(pins)]
             nr == [s.r EXCEPT !.fanin = fanin, !.cnt = cnt]
  <2>1. new = [s EXCEPT !.index = @ + 1, !.r.fanin = fanin, !.r.cnt[g] = @ - Cardinality(pins)]
    BY <1>1, <1>13 DEF DropFwd
  <2>2. IsFiniteSet(pins) /\ Cardinality(pins) \in Nat
    <3>1. pins \subseteq Pins
      BY <1>7
    <3>2. QED
      BY <3>1, PinsFinite, FS_Subset, FS_CardinalityType
  <2>3. /\ new.r = nr /\ new.index = m + 2 /\ new.kept = s.kept /\ new.list = s.list
        /\ new \in [r : {nr}, index : Int, kept : Seq(Gate), list : Seq(Old)]
    <3> HIDE DEF fanin, pins
    <3>1. new = [s EXCEPT !.index = s.index + 1, !.r = nr]
      BY <1>1, <2>1 DEF SelSet, Rp
    <3>2. s.index + 1 = m + 2 /\ m + 2 \in Int
      BY <1>1, <1>3
    <3> HIDE DEF nr, new
    <3>3. QED
      BY <1>1, <3>1, <3>2 DEF SelSet
  <2>4. fanin = [p \in Pins |-> IF p \in pins THEN None ELSE s.r.fanin[p]]
    BY DEF Put
  <2>5. fanin \in [Pins -> Gate \union {None}]
    <3>1. \A p \in Pins : s.r.fanin[p] \in Gate \union {None}
      BY <1>1 DEF Rp
    <3>2. QED
      BY <2>4, <3>1
  <2> HIDE DEF fanin, new
  <2>6. \A p \in Pins : p \in pins <=> Reads(p) = g /\ s.r.fanin[p] = rec
    BY DEF FanoutPins
  <2> HIDE DEF pins
  <2>7. cnt \in [Gate -> Int]
    <3>1. s.r.cnt \in [Gate -> Int]
      BY <1>1 DEF Rp
    <3>2. s.r.cnt[g] \in Int
      BY <1>5, <3>1
    <3>3. s.r.cnt[g] - Cardinality(pins) \in Int
      BY <2>2, <3>2
    <3>4. QED
      BY <3>1, <3>3
  <2> HIDE DEF cnt
  <2>8. /\ nr.fanin = fanin /\ nr.fanout = s.r.fanout /\ nr.bwdList = s.r.bwdList
        /\ nr.cnt = cnt /\ nr \in Rp
    BY <1>1, <2>5, <2>7 DEF Rp
  <2> HIDE DEF nr
  <2>9. PinsAfter(m + 1, nr)
    <3>1. \A p \in Pins : nr.fanin[p] \in {None, rp.fanin[p]}
      BY <1>1, <2>4, <2>8 DEF PinsAfter
    <3>2. ASSUME NEW p \in OldPins, rp.fanin[p] # None PROVE nr.fanin[p] = After(m + 1, p)
      <4>1. p \in Pins /\ (MuxOf(p) = mux <=> Reads(p) = g /\ rp.fanin[p] = rec)
        BY <1>8
      <4>2. s.r.fanin[p] = After(m, p)
        BY <1>1, <3>2 DEF PinsAfter
      <4>3. MuxOf(p) = mux => After(m, p) = rp.fanin[p]
        BY <1>2 DEF After
      <4>4. After(m, p) \in {None, rp.fanin[p]}
        BY DEF After
      <4>5. p \in pins <=> MuxOf(p) = mux
        BY <1>5, <2>6, <4>1, <4>2, <4>3, <4>4
      <4>6. After(m + 1, p) = IF MuxOf(p) = mux THEN None ELSE After(m, p)
        BY <1>2, <1>6, <1>13 DEF After
      <4>7. QED
        BY <2>4, <2>8, <4>1, <4>2, <4>5, <4>6
    <3>3. ASSUME NEW p \in GolPins, rp.fanin[p] # None, Alone(p)
          PROVE  nr.fanin[p] = After(m + 1, p)
      <4>1. p \in Pins /\ p \notin OldPins /\ MuxOf(p) # mux
        BY <1>9
      <4>2. p \notin pins
        BY <1>7, <4>1 DEF pins
      <4>3. After(m + 1, p) = After(m, p)
        BY <1>2, <4>1 DEF After
      <4>4. QED
        BY <1>1, <2>4, <2>8, <3>3, <4>1, <4>2, <4>3 DEF PinsAfter
    <3>4. QED
      BY <3>1, <3>2, <3>3 DEF PinsAfter
  <2>10. PatchesAfter(m + 1, nr)
    BY <1>1, <1>10, <2>8 DEF PatchesAfter
  <2>11. Counted(nr)
    <3> SUFFICES ASSUME NEW h \in Old
                 PROVE  nr.cnt[h] = Cardinality({p \in FanoutPins(h) : nr.fanin[p] # None})
      BY DEF Counted
    <3> DEFINE F == {p \in FanoutPins(h) : s.r.fanin[p] # None}
               N == {p \in FanoutPins(h) : nr.fanin[p] # None}
    <3>1. s.r.cnt[h] = Cardinality(F) /\ h \in Gate /\ FanoutPins(h) \subseteq Pins
      BY <1>1 DEF Counted, Gate, FanoutPins
    <3>2. \A p \in FanoutPins(h) : p \in Pins /\ Reads(p) = h
      BY DEF FanoutPins
    <3>3. CASE h # g
      <4>1. \A p \in FanoutPins(h) : p \in Pins /\ p \notin pins
        BY <2>6, <3>2, <3>3
      <4>2. N = F
        BY <2>4, <2>8, <4>1
      <4>3. nr.cnt[h] = s.r.cnt[h]
        BY <1>1, <1>5, <2>8, <3>1, <3>3 DEF Rp, cnt
      <4>4. QED
        BY <3>1, <4>2, <4>3
    <3>4. CASE h = g
      <4>1. pins \subseteq F
        <5>1. \A p \in pins : p \in FanoutPins(g) /\ s.r.fanin[p] = rec
          BY DEF pins
        <5>2. QED
          BY <1>5, <3>4, <5>1
      <4>2. N = F \ pins
        BY <2>4, <2>8, <3>2
      <4>3. IsFiniteSet(F) /\ Cardinality(F) \in Nat
        BY <3>1, PinsFinite, FS_Subset, FS_CardinalityType
      <4>4. F \intersect pins = pins
        BY <4>1
      <4> HIDE DEF F, N
      <4>5. Cardinality(N) = Cardinality(F) - Cardinality(pins)
        <5>1. Cardinality(F \ pins) = Cardinality(F) - Cardinality(F \intersect pins)
          BY <4>3, FS_Difference
        <5>2. QED
          BY <4>2, <4>4, <5>1
      <4>6. nr.cnt[h] = s.r.cnt[h] - Cardinality(pins)
        BY <1>1, <1>5, <2>8, <3>1, <3>4 DEF Rp, cnt
      <4>7. QED
        BY <3>1, <4>5, <4>6 DEF N
    <3>5. QED
      BY <3>3, <3>4
  <2>12. KeptAfter(m + 1, new.kept, g)
    <3>1. Off(m + 1)
      BY <1>6, <1>13
    <3>2. \A h : Keeps(m + 1, <<"fwd", g, h>>) <=> Keeps(m, <<"fwd", g, h>>)
      BY <1>11, <3>1
    <3>3. QED
      BY <2>3, <3>2 DEF KeptAfter
  <2>13. new \in SelSet /\ (m + 1) + 1 = m + 2
    BY <1>3, <2>3, <2>8 DEF SelSet
  <2>14. QED
    BY <1>1, <2>3, <2>8, <2>9, <2>10, <2>11, <2>12, <2>13 DEF SelectedTo, SameOld, new
<1>14. QED
  BY <1>3, <1>12, <1>13 DEF WalkFacts

(* The muxes of the i-th gate of the list, g, are next to each other.      *)
RunOf(at, i, g) ==
  /\ g \in Old /\ at[i - 1] \in Nat /\ NumBwd(g) \in Nat /\ Len(rp.fanout[g]) \in Nat
  /\ at[i] = (at[i - 1] + NumBwd(g)) + Len(rp.fanout[g])
  /\ Muxes("bwd", g, bwdMap[g]) \in Seq(MuxSet) /\ Len(Muxes("bwd", g, bwdMap[g])) = NumBwd(g)
  /\ \A k \in 1 .. NumBwd(g) :
       /\ at[i - 1] + k \in 1 .. Len(Walk)
       /\ Walk[at[i - 1] + k] = Muxes("bwd", g, bwdMap[g])[k]
       /\ Walk[at[i - 1] + k][1] = "bwd"
  /\ Muxes("fwd", g, rp.fanout[g]) \in Seq(MuxSet)
  /\ Len(Muxes("fwd", g, rp.fanout[g])) = Len(rp.fanout[g])
  /\ \A k \in 1 .. Len(rp.fanout[g]) :
       /\ at[i - 1] + (NumBwd(g) + k) \in 1 .. Len(Walk)
       /\ Walk[at[i - 1] + (NumBwd(g) + k)] = Muxes("fwd", g, rp.fanout[g])[k]
       /\ Walk[at[i - 1] + (NumBwd(g) + k)][1] = "fwd"
       /\ Walk[at[i - 1] + (NumBwd(g) + k)][2] = g

(* The muxes of the i-th gate are consecutive in the walk.                 *)
LEMMA Runs ==
  ASSUME NEW at, Selectable(at), NEW i \in 1 .. Len(rp.list)
  PROVE  RunOf(at, i, rp.list[i])
<1> DEFINE g == rp.list[i]
           nb == NumBwd(g)
           nf == Len(rp.fanout[g])
<1>1. SelectorInput /\ Starts(at)
  BY ListingSelects DEF Selectable
<1>2. g \in Old /\ Len(rp.list) \in Nat
  BY <1>1 DEF SelectorInput
<1>3. /\ nb \in Nat /\ nf \in Nat /\ NumMuxOf(g) = nf + nb
      /\ rp.fanout[g] \in Seq(Gate) /\ bwdMap[g] \in Seq(Gol) /\ Len(bwdMap[g]) = nb
  BY <1>1, <1>2, NumMuxOfType DEF NumBwd
<1>4. bwdMap[g] \in Seq(Gate)
  BY <1>3 DEF Gate
<1>5. at[i - 1] \in Nat /\ at[i] = at[i - 1] + NumMuxOf(g)
  <2>1. i - 1 \in 0 .. Len(rp.list)
    BY <1>2
  <2>2. QED
    BY <1>1, <2>1 DEF Starts
<1>6. /\ Muxes("bwd", g, bwdMap[g]) \in Seq(MuxSet) /\ Len(Muxes("bwd", g, bwdMap[g])) = nb
      /\ \A k \in DOMAIN bwdMap[g] : Muxes("bwd", g, bwdMap[g])[k] = <<"bwd", g, bwdMap[g][k]>>
  BY <1>2, <1>3, <1>4, MuxesList
<1>7. /\ Muxes("fwd", g, rp.fanout[g]) \in Seq(MuxSet) /\ Len(Muxes("fwd", g, rp.fanout[g])) = nf
      /\ \A k \in DOMAIN rp.fanout[g] :
           Muxes("fwd", g, rp.fanout[g])[k] = <<"fwd", g, rp.fanout[g][k]>>
  BY <1>2, <1>3, MuxesList
<1>8. /\ \A k \in DOMAIN bwdMap[g] : MuxesOf(g)[k] = <<"bwd", g, bwdMap[g][k]>>
      /\ \A k \in DOMAIN rp.fanout[g] : MuxesOf(g)[nb + k] = <<"fwd", g, rp.fanout[g][k]>>
  BY <1>1, <1>2, MuxesOfList
<1>9. DOMAIN bwdMap[g] = 1 .. nb /\ DOMAIN rp.fanout[g] = 1 .. nf
  BY <1>3
<1>10. \A j \in 1 .. NumMuxOf(g) : at[i - 1] + j \in 1 .. Len(Walk)
                                   /\ Walk[at[i - 1] + j] = MuxesOf(g)[j]
  <2>1. DOMAIN Walk = 1 .. Len(Walk)
    BY WalkOfPairs DEF WalkFacts
  <2>2. \A j \in 1 .. NumMuxOf(g) : at[i - 1] + j \in DOMAIN Walk
                                   /\ Walk[at[i - 1] + j] = MuxesOf(g)[j]
    BY <1>1, WalkRight
  <2>3. QED
    BY <2>1, <2>2
<1> HIDE DEF nb, nf, g
<1>11. /\ \A k \in 1 .. nb : k \in 1 .. NumMuxOf(g)
       /\ \A k \in 1 .. nf : nb + k \in 1 .. NumMuxOf(g)
       /\ at[i] = (at[i - 1] + nb) + nf
  BY <1>3, <1>5
<1>12. \A k \in 1 .. nb :
       /\ at[i - 1] + k \in 1 .. Len(Walk)
       /\ Walk[at[i - 1] + k] = Muxes("bwd", g, bwdMap[g])[k]
       /\ Walk[at[i - 1] + k][1] = "bwd"
  <2> SUFFICES ASSUME NEW k \in 1 .. nb
               PROVE  /\ at[i - 1] + k \in 1 .. Len(Walk)
                      /\ Walk[at[i - 1] + k] = Muxes("bwd", g, bwdMap[g])[k]
                      /\ Walk[at[i - 1] + k][1] = "bwd"
    OBVIOUS
  <2>1. at[i - 1] + k \in 1 .. Len(Walk) /\ Walk[at[i - 1] + k] = MuxesOf(g)[k]
    BY <1>10, <1>11
  <2>2. k \in DOMAIN bwdMap[g]
    BY <1>9
  <2>3. Muxes("bwd", g, bwdMap[g])[k] = <<"bwd", g, bwdMap[g][k]>>
    BY <1>6, <2>2
  <2>4. MuxesOf(g)[k] = <<"bwd", g, bwdMap[g][k]>>
    BY <1>8, <2>2
  <2>5. QED
    BY <2>1, <2>3, <2>4
<1>13. \A k \in 1 .. nf :
       /\ at[i - 1] + (nb + k) \in 1 .. Len(Walk)
       /\ Walk[at[i - 1] + (nb + k)] = Muxes("fwd", g, rp.fanout[g])[k]
       /\ Walk[at[i - 1] + (nb + k)][1] = "fwd"
       /\ Walk[at[i - 1] + (nb + k)][2] = g
  <2> SUFFICES ASSUME NEW k \in 1 .. nf
               PROVE  /\ at[i - 1] + (nb + k) \in 1 .. Len(Walk)
                      /\ Walk[at[i - 1] + (nb + k)] = Muxes("fwd", g, rp.fanout[g])[k]
                      /\ Walk[at[i - 1] + (nb + k)][1] = "fwd"
                      /\ Walk[at[i - 1] + (nb + k)][2] = g
    OBVIOUS
  <2>1. at[i - 1] + (nb + k) \in 1 .. Len(Walk) /\ Walk[at[i - 1] + (nb + k)] = MuxesOf(g)[nb + k]
    BY <1>10, <1>11
  <2>2. k \in DOMAIN rp.fanout[g]
    BY <1>9
  <2>3. Muxes("fwd", g, rp.fanout[g])[k] = <<"fwd", g, rp.fanout[g][k]>>
    BY <1>7, <2>2
  <2>4. MuxesOf(g)[nb + k] = <<"fwd", g, rp.fanout[g][k]>>
    BY <1>8, <2>2
  <2>5. QED
    BY <2>1, <2>3, <2>4
<1>14. RunOf(at, i, g)
  BY <1>2, <1>3, <1>5, <1>6, <1>7, <1>11, <1>12, <1>13 DEF RunOf, nb, nf
<1>15. QED
  BY <1>14 DEF g

(* The backward muxes of a gate.                                           *)
LEMMA BwdRun ==
  ASSUME NEW at, Selectable(at), NEW i, NEW g, RunOf(at, i, g),
         NEW s, SelectedTo(at[i - 1], s)
  PROVE  /\ SelectedTo(at[i - 1] + NumBwd(g), FoldLeft(DropBwd, s, Muxes("bwd", g, bwdMap[g])))
         /\ SameOld(s, FoldLeft(DropBwd, s, Muxes("bwd", g, bwdMap[g])))
<1> DEFINE l == Muxes("bwd", g, bwdMap[g])
           n == NumBwd(g)
           b == at[i - 1]
<1>1. /\ l \in Seq(MuxSet) /\ Len(l) = n /\ n \in Nat /\ b \in Nat
      /\ \A k \in 1 .. n : /\ b + k \in 1 .. Len(Walk) /\ Walk[b + k] = l[k]
                           /\ Walk[b + k][1] = "bwd"
  BY DEF RunOf
<1>2. WalkFacts /\ Paired(rp)
  BY WalkOfPairs DEF Selectable
<1>3. PICK acc : DropBwdFold!Traces(acc, s, l) /\ FoldLeft(DropBwd, s, l) = acc[Len(l)]
  BY <1>1, SameSelectFolds, DropBwdFold!FoldLeftTrace
<1>4. acc[0] = s /\ \A k \in 1 .. n : acc[k] = DropBwd(acc[k - 1], l[k])
  BY <1>1, <1>3 DEF DropBwdFold!Traces
<1> DEFINE G == {k \in 0 .. n : SelectedTo(b + k, acc[k]) /\ SameOld(s, acc[k])}
<1> HIDE DEF l, n, b
<1>5. 0 \in G
  <2>1. 0 \in 0 .. n /\ b + 0 = b
    BY <1>1
  <2>2. SelectedTo(b + 0, acc[0])
    BY <1>4, <2>1 DEF b
  <2>3. SameOld(s, acc[0])
    BY <1>4 DEF SameOld
  <2>4. QED
    BY <2>1, <2>2, <2>3
<1>6. ASSUME NEW k \in 1 .. n, k - 1 \in G PROVE k \in G
  <2> DEFINE m == b + (k - 1)
  <2>1. SelectedTo(m, acc[k - 1]) /\ SameOld(s, acc[k - 1])
    BY <1>6
  <2>2. b + k \in 1 .. Len(Walk) /\ Walk[b + k] = l[k] /\ Walk[b + k][1] = "bwd"
    BY <1>1
  <2>3. m + 1 = b + k /\ m \in 0 .. Len(Walk) - 1 /\ k \in 0 .. n
    <3>1. Len(Walk) \in Nat
      BY <1>2 DEF WalkFacts
    <3>2. QED
      BY <1>1, <2>2, <3>1
  <2>4. acc[k] = DropBwd(acc[k - 1], Walk[m + 1])
    BY <1>4, <2>2, <2>3
  <2> HIDE DEF m
  <2>5. /\ SelectedTo(m + 1, DropBwd(acc[k - 1], Walk[m + 1]))
        /\ SameOld(acc[k - 1], DropBwd(acc[k - 1], Walk[m + 1]))
    BY <1>2, <2>1, <2>2, <2>3, DropBwdStep
  <2>6. SameOld(s, acc[k])
    BY <2>1, <2>4, <2>5 DEF SameOld
  <2>7. QED
    BY <2>3, <2>4, <2>5, <2>6
<1>7. \A k \in 0 .. n : k \in G
  <2> HIDE DEF G
  <2>1. QED
    BY <1>1, <1>5, <1>6, DropBwdFold!IntervalInduction
<1>8. n \in G
  BY <1>1, <1>7
<1>9. QED
  BY <1>1, <1>3, <1>8 DEF l, n, b

(* The forward muxes of one gate, from none of its pairs kept to all.      *)
LEMMA FwdRun ==
  ASSUME NEW at, Selectable(at), NEW i, NEW g, RunOf(at, i, g), Placed(at, i, g),
         NEW s, SelectedTo(at[i - 1] + NumBwd(g), s), s.kept = <<>>
  PROVE  /\ SelectedTo(at[i], FoldLeft(DropFwd, s, Muxes("fwd", g, rp.fanout[g])))
         /\ SameOld(s, FoldLeft(DropFwd, s, Muxes("fwd", g, rp.fanout[g])))
         /\ KeptAfter(at[i], FoldLeft(DropFwd, s, Muxes("fwd", g, rp.fanout[g])).kept, g)
<1> DEFINE l == Muxes("fwd", g, rp.fanout[g])
           n == Len(rp.fanout[g])
           nb == NumBwd(g)
           a == at[i - 1]
           b == a + nb
<1>1. /\ l \in Seq(MuxSet) /\ Len(l) = n /\ n \in Nat /\ a \in Nat /\ nb \in Nat
      /\ \A k \in 1 .. n : /\ a + (nb + k) \in 1 .. Len(Walk) /\ Walk[a + (nb + k)] = l[k]
                           /\ Walk[a + (nb + k)][1] = "fwd" /\ Walk[a + (nb + k)][2] = g
      /\ at[i] = (a + nb) + n /\ g \in Old
  BY DEF RunOf
<1>2. WalkFacts /\ Paired(rp)
  BY WalkOfPairs DEF Selectable
<1>3. PICK acc : DropFwdFold!Traces(acc, s, l) /\ FoldLeft(DropFwd, s, l) = acc[Len(l)]
  <2>1. l \in Seq(MuxSet)
    BY <1>1
  <2> HIDE DEF l
  <2>2. QED
    BY <2>1, SameSelectFolds, DropFwdFold!FoldLeftTrace
<1>4. acc[0] = s /\ \A k \in 1 .. n : acc[k] = DropFwd(acc[k - 1], l[k])
  BY <1>1, <1>3 DEF DropFwdFold!Traces
<1>5. KeptAfter(b, <<>>, g)
  <2>1. ASSUME NEW rec \in Range(rp.fanout[g]) PROVE ~Keeps(b, <<"fwd", g, rec>>)
    <3>1. PICK k \in DOMAIN rp.fanout[g] : rec = rp.fanout[g][k]
      BY DEF Range
    <3> DEFINE x == a + (nb + k)
    <3>2. /\ x \in 1 .. Len(Walk) /\ Walk[x] = <<"fwd", g, rec>> /\ Walk[x][1] = "fwd"
          /\ \A y \in 1 .. Len(Walk) : Walk[y] = Walk[x] => y = x
      <4>1. Pos(Walk, <<"fwd", g, rec>>) = x /\ <<"fwd", g, rec>> \in Range(Walk)
        BY <3>1 DEF Placed
      <4> HIDE DEF x
      <4>2. x \in 1 .. Len(Walk) /\ Walk[x] = <<"fwd", g, rec>>
        BY <1>2, <4>1 DEF WalkFacts
      <4>3. QED
        BY <1>2, <4>2 DEF WalkFacts
    <3>3. k \in 1 .. n
      <4>1. rp.fanout[g] \in Seq(Gate)
        BY <1>1, <1>2 DEF Paired, Rp, Gate
      <4>2. QED
        BY <4>1
    <3>4. \A y \in 1 .. b : y \in 1 .. Len(Walk) /\ y # x
      <4>1. Len(Walk) \in Nat
        BY <1>2 DEF WalkFacts
      <4> HIDE DEF a, nb, n
      <4>2. QED
        BY <1>1, <3>2, <3>3, <4>1
    <3> HIDE DEF x, b
    <3>5. QED
      BY <3>2, <3>4 DEF Keeps
  <2>2. IsInjective(<<>>) /\ Range(<<>>) = {}
    BY DEF IsInjective, Range
  <2> HIDE DEF b
  <2>3. QED
    BY <2>1, <2>2 DEF KeptAfter
<1> DEFINE G == {k \in 0 .. n : /\ SelectedTo(b + k, acc[k]) /\ SameOld(s, acc[k])
                               /\ KeptAfter(b + k, acc[k].kept, g)}
<1>6. b + 0 = b /\ \A k \in 1 .. n : a + (nb + k) = b + k
  <2> HIDE DEF a, nb, n
  <2>1. QED
    BY <1>1
<1>7. b \in Nat /\ SelectedTo(b, s) /\ at[i] = b + n
  BY <1>1
<1>8. \A k \in 1 .. n : /\ b + k \in 1 .. Len(Walk) /\ Walk[b + k] = l[k]
                        /\ Walk[b + k][1] = "fwd" /\ Walk[b + k][2] = g
  BY <1>1, <1>6
<1> HIDE DEF l, n, nb, a, b
<1>9. 0 \in G
  <2>1. 0 \in 0 .. n
    BY <1>1
  <2>2. SameOld(s, acc[0])
    BY <1>4 DEF SameOld
  <2>3. QED
    BY <1>4, <1>5, <1>6, <1>7, <2>1, <2>2
<1>10. ASSUME NEW k \in 1 .. n, k - 1 \in G PROVE k \in G
  <2> DEFINE m == b + (k - 1)
  <2>1. SelectedTo(m, acc[k - 1]) /\ SameOld(s, acc[k - 1]) /\ KeptAfter(m, acc[k - 1].kept, g)
    BY <1>10
  <2>2. /\ b + k \in 1 .. Len(Walk) /\ Walk[b + k] = l[k] /\ Walk[b + k][1] = "fwd"
        /\ Walk[b + k][2] = g
    BY <1>8
  <2>3. m + 1 = b + k /\ m \in 0 .. Len(Walk) - 1 /\ k \in 0 .. n
    <3>1. Len(Walk) \in Nat
      BY <1>2 DEF WalkFacts
    <3>2. QED
      BY <1>1, <1>7, <2>2, <3>1
  <2>4. acc[k] = DropFwd(acc[k - 1], Walk[m + 1])
    BY <1>4, <2>2, <2>3
  <2> HIDE DEF m
  <2>5. /\ SelectedTo(m + 1, DropFwd(acc[k - 1], Walk[m + 1]))
        /\ SameOld(acc[k - 1], DropFwd(acc[k - 1], Walk[m + 1]))
        /\ KeptAfter(m + 1, DropFwd(acc[k - 1], Walk[m + 1]).kept, g)
    BY <1>2, <2>1, <2>2, <2>3, DropFwdStep
  <2>6. SameOld(s, acc[k])
    BY <2>1, <2>4, <2>5 DEF SameOld
  <2>7. QED
    BY <2>3, <2>4, <2>5, <2>6
<1>11. \A k \in 0 .. n : k \in G
  <2> HIDE DEF G
  <2>1. QED
    BY <1>1, <1>9, <1>10, DropFwdFold!IntervalInduction
<1>12. n \in G
  BY <1>1, <1>11
<1>13. QED
  BY <1>1, <1>3, <1>7, <1>12 DEF l

(* The pairs kept of g.                                                    *)
KeptOf(kept, g) ==
  /\ IsInjective(kept)
  /\ Range(kept) = {rec \in Range(rp.fanout[g]) : ~Drops(Len(Walk), <<"fwd", g, rec>>)}

(* One gate of the list.                                                   *)
LEMMA SelectStep ==
  ASSUME NEW at, Selectable(at), NEW i, NEW g, RunOf(at, i, g), Placed(at, i, g),
         NEW s, SelectedTo(at[i - 1], s), s.r.fanout[g] = rp.fanout[g]
  PROVE  /\ SelectedTo(at[i], SelectRecPair(s, g))
         /\ KeptOf(SelectRecPair(s, g).r.fanout[g], g)
         /\ \A h \in Old : h # g => SelectRecPair(s, g).r.fanout[h] = s.r.fanout[h]
         /\ SelectRecPair(s, g).list =
              IF SelectRecPair(s, g).r.fanout[g] = <<>> THEN s.list ELSE Append(s.list, g)
<1> DEFINE bwd == FoldLeft(DropBwd, s, Muxes("bwd", g, bwdMap[g]))
           start == [bwd EXCEPT !.kept = <<>>]
           fwd == FoldLeft(DropFwd, start, Muxes("fwd", g, rp.fanout[g]))
           fanout == [fwd.r.fanout EXCEPT ![g] = fwd.kept]
           nr == [fwd.r EXCEPT !.fanout = fanout]
           list == IF fwd.kept = <<>> THEN fwd.list ELSE Append(fwd.list, g)
           new == SelectRecPair(s, g)
<1>1. g \in Old /\ g \in Gate /\ g \notin Gol
  BY RecPairsAssumption DEF RunOf, Gate
<1>2. SelectedTo(at[i - 1] + NumBwd(g), bwd) /\ SameOld(s, bwd)
  BY BwdRun
<1>3. bwd.r.fanout[g] = rp.fanout[g] /\ bwd.list = s.list
  BY <1>1, <1>2 DEF SameOld
<1>4. new = [[fwd EXCEPT !.r.fanout[g] = fwd.kept] EXCEPT !.list = IF fwd.kept = <<>> THEN @ ELSE Append(@, g)]
  BY <1>3 DEF SelectRecPair
<1> HIDE DEF bwd
<1>5. /\ start.kept = <<>> /\ start.r = bwd.r /\ start.list = bwd.list
      /\ SelectedTo(at[i - 1] + NumBwd(g), start)
  <2>1. bwd \in SelSet
    BY <1>2 DEF SelectedTo
  <2>2. <<>> \in Seq(Gate)
    OBVIOUS
  <2>3. /\ start \in SelSet /\ start.kept = <<>> /\ start.r = bwd.r /\ start.list = bwd.list
        /\ start.index = bwd.index
    BY <2>1, <2>2 DEF SelSet
  <2> HIDE DEF start
  <2>4. QED
    BY <1>2, <2>3 DEF SelectedTo
<1> HIDE DEF start
<1>6. SelectedTo(at[i], fwd) /\ SameOld(start, fwd) /\ KeptAfter(at[i], fwd.kept, g)
  BY <1>5, FwdRun
<1> HIDE DEF fwd, new
<1>7. fwd \in SelSet /\ fwd.r \in Rp /\ fwd.kept \in Seq(Gate) /\ fwd.list \in Seq(Old)
  BY <1>6 DEF SelectedTo, SelSet
<1>8. fanout \in [Gate -> Seq(Gate)] /\ list \in Seq(Old)
  <2>1. fanout \in [Gate -> Seq(Gate)]
    BY <1>1, <1>7 DEF Rp
  <2>2. list \in Seq(Old)
    BY <1>1, <1>7
  <2>3. QED
    BY <2>1, <2>2
<1>9. /\ fanout[g] = fwd.kept /\ \A h \in Gate : h # g => fanout[h] = fwd.r.fanout[h]
  BY <1>1, <1>7 DEF Rp
<1> HIDE DEF fanout, list
<1>10. /\ nr.fanin = fwd.r.fanin /\ nr.fanout = fanout /\ nr.bwdList = fwd.r.bwdList
       /\ nr.cnt = fwd.r.cnt /\ nr \in Rp
  BY <1>7, <1>8 DEF Rp
<1>11. new = [fwd EXCEPT !.r = nr, !.list = list]
  BY <1>4, <1>7 DEF SelSet, fanout, list, Rp
<1> HIDE DEF nr
<1>12. /\ new.r = nr /\ new.list = list /\ new.index = fwd.index /\ new \in SelSet
  BY <1>7, <1>8, <1>10, <1>11 DEF SelSet
<1>13. SelectedTo(at[i], new)
  <2>1. PinsAfter(at[i], nr)
    BY <1>6, <1>10 DEF SelectedTo, PinsAfter
  <2>2. PatchesAfter(at[i], nr)
    <3>1. \A gol \in Gol : gol \in Gate /\ gol # g
      BY <1>1 DEF Gate
    <3>2. QED
      BY <1>6, <1>9, <1>10, <3>1 DEF SelectedTo, PatchesAfter
  <2>3. Counted(nr)
    BY <1>6, <1>10 DEF SelectedTo, Counted
  <2>4. QED
    BY <1>6, <1>10, <1>12, <2>1, <2>2, <2>3 DEF SelectedTo
<1>14. new.r.fanout[g] = fwd.kept
  BY <1>9, <1>10, <1>12
<1>15. KeptOf(fwd.kept, g)
  <2>1. ASSUME NEW rec \in Range(rp.fanout[g])
        PROVE  Keeps(at[i], <<"fwd", g, rec>>) <=> ~Drops(Len(Walk), <<"fwd", g, rec>>)
    <3>1. PICK k \in DOMAIN rp.fanout[g] : rec = rp.fanout[g][k]
      BY DEF Range
    <3> DEFINE a == at[i - 1]
               b == NumBwd(g)
               n == Len(rp.fanout[g])
               x == a + (b + k)
               c == <<"fwd", g, rec>>
    <3>2. Pos(Walk, c) = x /\ c \in Range(Walk)
      BY <3>1 DEF Placed
    <3>3. WalkFacts
      BY WalkOfPairs
    <3>4. rp.fanout[g] \in Seq(Gate)
      BY <1>1 DEF Selectable, Paired, Rp
    <3>5. k \in 1 .. n /\ n \in Nat
      BY <3>4
    <3>6. a \in Nat /\ b \in Nat /\ at[i] = (a + b) + n
      BY DEF RunOf
    <3>7. x \in 1 .. at[i]
      <4> HIDE DEF a, b, n
      <4>1. QED
        BY <3>5, <3>6
    <3>8. c[1] = "fwd"
      OBVIOUS
    <3> HIDE DEF x, c
    <3>9. x \in 1 .. Len(Walk) /\ Walk[x] = c /\ \A y \in 1 .. Len(Walk) : Walk[y] = c => y = x
      <4>1. x \in 1 .. Len(Walk) /\ Walk[x] = c
        BY <3>2, <3>3 DEF WalkFacts
      <4>2. QED
        BY <3>3, <3>8, <4>1 DEF WalkFacts
    <3>10. \A y \in 1 .. at[i] : y \in 1 .. Len(Walk)
      <4>1. n \in 1 .. n /\ a + (b + n) = at[i]
        <5> HIDE DEF a, b, n
        <5>1. QED
          BY <3>5, <3>6
      <4>2. a + (b + n) \in 1 .. Len(Walk)
        BY <4>1 DEF RunOf
      <4>3. Len(Walk) \in Nat
        BY <3>3 DEF WalkFacts
      <4> HIDE DEF a, b, n
      <4>4. QED
        BY <4>1, <4>2, <4>3
    <3>11. Keeps(at[i], c) <=> ~Off(x)
      BY <3>7, <3>9, <3>10 DEF Keeps
    <3>12. Drops(Len(Walk), c) <=> Off(x)
      BY <3>9 DEF Drops
    <3>13. QED
      BY <3>11, <3>12 DEF c
  <2>2. QED
    BY <1>6, <2>1 DEF KeptAfter, KeptOf
<1>16. \A h \in Old : h # g => new.r.fanout[h] = s.r.fanout[h]
  <2>1. \A h \in Old : h \in Gate /\ fwd.r.fanout[h] = s.r.fanout[h]
    BY <1>2, <1>5, <1>6 DEF SameOld, Gate
  <2>2. QED
    BY <1>9, <1>10, <1>12, <2>1
<1>17. new.list = IF fwd.kept = <<>> THEN s.list ELSE Append(s.list, g)
  <2>1. fwd.list = s.list
    BY <1>3, <1>5, <1>6 DEF SameOld
  <2>2. QED
    BY <1>12, <2>1 DEF list
<1>18. QED
  BY <1>13, <1>14, <1>15, <1>16, <1>17 DEF new

(* The whole list.                                                         *)
LEMMA SelectedRight ==
  ASSUME NEW at, Selectable(at)
  PROVE  /\ SelectedTo(Len(Walk), Selected)
         /\ \A g \in Old : /\ KeptOf(Selected.r.fanout[g], g)
                           /\ g \in Range(Selected.list) <=> Selected.r.fanout[g] # <<>>
<1> DEFINE l == rp.list
           s0 == [r |-> rp, index |-> 1, kept |-> <<>>, list |-> <<>>]
<1>1. SelectorInput /\ Starts(at)
  BY ListingSelects DEF Selectable
<1>2. /\ l \in Seq(Old) /\ IsInjective(l) /\ Len(l) \in Nat /\ DOMAIN l = 1 .. Len(l)
      /\ \A i \in 1 .. Len(l) : l[i] \in Old
  BY <1>1 DEF SelectorInput
<1>3. \A i \in 1 .. Len(l) : RunOf(at, i, l[i]) /\ Placed(at, i, l[i])
  BY <1>1, Runs, MuxPlaces
<1>4. WalkFacts /\ Paired(rp)
  BY WalkOfPairs DEF Selectable
<1>5. PICK acc : SelectFold!Traces(acc, s0, l) /\ FoldLeft(SelectRecPair, s0, l) = acc[Len(l)]
  BY <1>2, SameSelectFolds, SelectFold!FoldLeftTrace
<1>6. acc[0] = s0 /\ \A i \in 1 .. Len(l) : acc[i] = SelectRecPair(acc[i - 1], l[i])
  BY <1>5 DEF SelectFold!Traces
<1>7. Selected = acc[Len(l)]
  BY <1>5 DEF Selected
<1> DEFINE Seen(i, h) == \E k \in 1 .. i : l[k] = h
           G == {i \in 0 .. Len(l) :
                   /\ SelectedTo(at[i], acc[i])
                   /\ \A h \in Old :
                        /\ Seen(i, h) => KeptOf(acc[i].r.fanout[h], h)
                        /\ ~Seen(i, h) => acc[i].r.fanout[h] = rp.fanout[h]
                        /\ h \in Range(acc[i].list) <=> Seen(i, h) /\ acc[i].r.fanout[h] # <<>>}
<1> HIDE DEF l
<1>8. 0 \in G
  <2>1. at[0] = 0 /\ 0 \in 0 .. Len(l)
    BY <1>1, <1>2 DEF Starts
  <2>2. s0 \in SelSet /\ s0.index = 1 /\ s0.r = rp /\ s0.list = <<>>
    BY <1>4 DEF Paired, SelSet
  <2> HIDE DEF s0
  <2>3. \A c : ~Drops(0, c)
    BY DEF Drops
  <2>4. PinsAfter(0, rp)
    <3>1. \A p \in Pins : After(0, p) = rp.fanin[p]
      BY <2>3 DEF After
    <3>2. QED
      BY <3>1 DEF PinsAfter, OldPins, GolPins
  <2>5. PatchesAfter(0, rp)
    <3>1. \A gol \in Gol : IsInjective(rp.fanout[gol])
      BY <1>4 DEF Paired, Together, Gate
    <3>2. QED
      BY <2>3, <3>1 DEF PatchesAfter
  <2>6. SelectedTo(at[0], s0)
    BY <1>4, <2>1, <2>2, <2>4, <2>5 DEF SelectedTo, Paired
  <2>7. Range(<<>>) = {} /\ \A h : ~Seen(0, h)
    BY DEF Range
  <2> HIDE DEF Seen
  <2>8. QED
    BY <1>6, <2>1, <2>2, <2>6, <2>7
<1>9. ASSUME NEW i \in 1 .. Len(l), i - 1 \in G PROVE i \in G
  <2> DEFINE s == acc[i - 1]
             new == acc[i]
             g == l[i]
  <2>1. /\ SelectedTo(at[i - 1], s)
        /\ \A h \in Old :
             /\ Seen(i - 1, h) => KeptOf(s.r.fanout[h], h)
             /\ ~Seen(i - 1, h) => s.r.fanout[h] = rp.fanout[h]
             /\ h \in Range(s.list) <=> Seen(i - 1, h) /\ s.r.fanout[h] # <<>>
    BY <1>9
  <2>2. i \in 0 .. Len(l) /\ g \in Old /\ new = SelectRecPair(s, g)
    BY <1>2, <1>6
  <2>3. ~Seen(i - 1, g) /\ Seen(i, g) /\ \A h : h # g => (Seen(i, h) <=> Seen(i - 1, h))
    <3>1. \A k : k \in 1 .. i <=> k \in 1 .. i - 1 \/ k = i
      BY <1>2
    <3>2. \A k \in 1 .. i - 1 : k \in DOMAIN l /\ i \in DOMAIN l /\ k # i
      BY <1>2
    <3>3. QED
      BY <1>2, <3>1, <3>2 DEF IsInjective
  <2>4. RunOf(at, i, g) /\ Placed(at, i, g) /\ s.r.fanout[g] = rp.fanout[g]
    BY <1>3, <2>1, <2>2, <2>3
  <2> HIDE DEF s, g
  <2>5. /\ SelectedTo(at[i], SelectRecPair(s, g))
        /\ KeptOf(SelectRecPair(s, g).r.fanout[g], g)
        /\ \A h \in Old : h # g => SelectRecPair(s, g).r.fanout[h] = s.r.fanout[h]
        /\ SelectRecPair(s, g).list =
             IF SelectRecPair(s, g).r.fanout[g] = <<>> THEN s.list ELSE Append(s.list, g)
    BY <2>1, <2>4, SelectStep
  <2> HIDE DEF Seen
  <2>6. s.list \in Seq(Old)
    BY <2>1 DEF SelectedTo, SelSet
  <2>7. Range(Append(s.list, g)) = Range(s.list) \union {g}
    BY <2>2, <2>6, Appending
  <2>8. \A h \in Old : h \in Range(new.list) <=> Seen(i, h) /\ new.r.fanout[h] # <<>>
    <3> SUFFICES ASSUME NEW h \in Old
                 PROVE  h \in Range(new.list) <=> Seen(i, h) /\ new.r.fanout[h] # <<>>
      OBVIOUS
    <3> HIDE DEF new
    <3>1. CASE h = g
      BY <2>1, <2>2, <2>3, <2>5, <2>7, <3>1
    <3>2. CASE h # g
      BY <2>1, <2>2, <2>3, <2>5, <2>7, <3>2
    <3>3. QED
      BY <3>1, <3>2
  <2>9. \A h \in Old : /\ Seen(i, h) => KeptOf(new.r.fanout[h], h)
                       /\ ~Seen(i, h) => new.r.fanout[h] = rp.fanout[h]
    <3> SUFFICES ASSUME NEW h \in Old
                 PROVE  /\ Seen(i, h) => KeptOf(new.r.fanout[h], h)
                        /\ ~Seen(i, h) => new.r.fanout[h] = rp.fanout[h]
      OBVIOUS
    <3> HIDE DEF new
    <3>1. CASE h = g
      BY <2>2, <2>3, <2>5, <3>1
    <3>2. CASE h # g
      BY <2>1, <2>2, <2>3, <2>5, <3>2
    <3>3. QED
      BY <3>1, <3>2
  <2>10. QED
    BY <2>2, <2>5, <2>8, <2>9
<1>10. \A i \in 0 .. Len(l) : i \in G
  <2> HIDE DEF G
  <2>1. QED
    BY <1>2, <1>8, <1>9, SelectFold!IntervalInduction
<1>11. Len(l) \in G
  BY <1>2, <1>10
<1>12. at[Len(l)] = Len(Walk)
  BY <1>1, WalkRight DEF l
<1>13. SelectedTo(Len(Walk), Selected)
  BY <1>7, <1>11, <1>12
<1>14. ASSUME NEW g \in Old
       PROVE  /\ KeptOf(Selected.r.fanout[g], g)
              /\ g \in Range(Selected.list) <=> Selected.r.fanout[g] # <<>>
  <2>1. /\ Seen(Len(l), g) => KeptOf(Selected.r.fanout[g], g)
        /\ ~Seen(Len(l), g) => Selected.r.fanout[g] = rp.fanout[g]
        /\ g \in Range(Selected.list) <=> Seen(Len(l), g) /\ Selected.r.fanout[g] # <<>>
    BY <1>7, <1>11
  <2>2. Seen(Len(l), g) <=> g \in Range(l)
    BY <1>2 DEF Range
  <2> HIDE DEF Seen
  <2>3. ~Seen(Len(l), g) => rp.fanout[g] = <<>>
    BY <2>2 DEF Selectable, Listing, l
  <2>4. rp.fanout[g] = <<>> => Range(rp.fanout[g]) = {} /\ IsInjective(rp.fanout[g])
    BY DEF Range, IsInjective
  <2>5. QED
    BY <2>1, <2>3, <2>4 DEF KeptOf
<1>15. QED
  BY <1>13, <1>14

(* A backward patch is dropped by one of its muxes.                        *)
LEMMA BwdDrops ==
  ASSUME WalkFacts, NEW g, NEW gol
  PROVE  Drops(Len(Walk), <<"bwd", g, gol>>) <=> BwdDropped(g, gol)
<1>1. DOMAIN Walk = 1 .. Len(Walk)
  BY DEF WalkFacts
<1>2. \A x \in 1 .. Len(Walk) : Walk[x] = <<"bwd", g, gol>> => (Off(x) <=> res[x])
  BY DEF Off
<1>3. QED
  BY <1>1, <1>2 DEF Drops, BwdDropped

(* What selectPatch leaves.                                                *)
LEMMA SelectionLeft ==
  ASSUME NEW at, Selectable(at), NEW new, new = [Selected.r EXCEPT !.list = Selected.list]
  PROVE  /\ new \in Rp /\ Counted(new) /\ new.bwdList = rp.bwdList
         /\ \A p \in Pins : new.fanin[p] \in {None, rp.fanin[p]}
         /\ \A p \in OldPins : rp.fanin[p] # None =>
              new.fanin[p] = IF Verdict("fwd", Reads(p), rp.fanin[p]) THEN rp.fanin[p] ELSE None
         /\ \A p \in GolPins : rp.fanin[p] # None /\ Alone(p) => new.fanin[p] = BwdPinLeft(p)
         /\ \A g \in Old : g \in Range(new.list) <=> new.fanout[g] # <<>>
         /\ \A g \in Old : KeptOf(new.fanout[g], g)
         /\ PatchesAfter(Len(Walk), new)
<1> DEFINE s == Selected
<1>1. WalkFacts /\ Paired(rp)
  BY WalkOfPairs DEF Selectable
<1>2. /\ SelectedTo(Len(Walk), s)
      /\ \A g \in Old : KeptOf(s.r.fanout[g], g) /\ (g \in Range(s.list) <=> s.r.fanout[g] # <<>>)
  BY SelectedRight
<1> HIDE DEF s
<1>3. s \in SelSet /\ s.r \in Rp /\ s.list \in Seq(Old)
  BY <1>2 DEF SelectedTo, SelSet
<1>4. new = [s.r EXCEPT !.list = s.list]
  BY DEF s
<1>5. /\ new \in Rp /\ new.fanin = s.r.fanin /\ new.fanout = s.r.fanout /\ new.cnt = s.r.cnt
      /\ new.bwdList = s.r.bwdList /\ new.list = s.list
  BY <1>3, <1>4 DEF Rp
<1>6. Counted(new) /\ PatchesAfter(Len(Walk), new)
  BY <1>2, <1>5 DEF SelectedTo, Counted, PatchesAfter
<1>7. PinsAfter(Len(Walk), new) /\ new.bwdList = rp.bwdList
  BY <1>2, <1>5 DEF SelectedTo, PinsAfter
<1>8. ASSUME NEW p \in OldPins, rp.fanin[p] # None
      PROVE  new.fanin[p] = IF Verdict("fwd", Reads(p), rp.fanin[p]) THEN rp.fanin[p] ELSE None
  <2>1. p \in Pins /\ MuxOf(p) = <<"fwd", Reads(p), rp.fanin[p]>>
    BY DEF OldPins, MuxOf
  <2> DEFINE c == MuxOf(p)
             x == Pos(Walk, c)
  <2>2. c \in Range(Walk) /\ c[1] = "fwd"
    BY <1>1, <1>8, <2>1 DEF WalkFacts
  <2> HIDE DEF c
  <2>3. /\ x \in 1 .. Len(Walk) /\ Walk[x] = c
        /\ \A y \in 1 .. Len(Walk) : Walk[y] = c => y = x
    BY <1>1, <2>2 DEF WalkFacts
  <2>4. Drops(Len(Walk), c) <=> ~res[x]
    BY <2>2, <2>3 DEF Drops, Off
  <2>5. res[x] = Verdict("fwd", Reads(p), rp.fanin[p])
    BY <2>1 DEF Verdict, c
  <2>6. QED
    BY <1>7, <1>8, <2>4, <2>5 DEF PinsAfter, After, c
<1>9. ASSUME NEW p \in GolPins, rp.fanin[p] # None, Alone(p)
      PROVE  new.fanin[p] = BwdPinLeft(p)
  <2>1. p \in Pins /\ p \notin OldPins /\ MuxOf(p) = <<"bwd", rp.fanin[p], Reads(p)>>
    BY RecPairsAssumption DEF OldPins, GolPins, MuxOf
  <2>2. Drops(Len(Walk), MuxOf(p)) <=> BwdDropped(rp.fanin[p], Reads(p))
    BY <1>1, <2>1, BwdDrops
  <2>3. QED
    BY <1>7, <1>9, <2>2 DEF PinsAfter, After, BwdPinLeft
<1>10. QED
  BY <1>2, <1>5, <1>6, <1>7, <1>8, <1>9 DEF PinsAfter

(* The selection leaves a list that names the pairs of the pins.           *)
ListsPins(r) ==
  \A g \in Gate :
    (g \in Gol => \A p \in FanoutPins(g) : rp.fanin[p] # None => Alone(p)) =>
      Range(r.fanout[g]) = {r.fanin[p] : p \in FanoutPins(g)} \ {None}

LEMMA ListsLeft ==
  ASSUME NEW at, Selectable(at), NEW new, new = [Selected.r EXCEPT !.list = Selected.list]
  PROVE  ListsPins(new)
<1> SUFFICES ASSUME NEW g \in Gate,
                    g \in Gol => \A p \in FanoutPins(g) : rp.fanin[p] # None => Alone(p)
             PROVE  Range(new.fanout[g]) = {new.fanin[p] : p \in FanoutPins(g)} \ {None}
  BY DEF ListsPins
<1>1. WalkFacts /\ Paired(rp)
  BY WalkOfPairs DEF Selectable
<1>2. /\ \A p \in Pins : new.fanin[p] \in {None, rp.fanin[p]}
      /\ \A p \in OldPins : rp.fanin[p] # None =>
           new.fanin[p] = IF Verdict("fwd", Reads(p), rp.fanin[p]) THEN rp.fanin[p] ELSE None
      /\ \A p \in GolPins : rp.fanin[p] # None /\ Alone(p) => new.fanin[p] = BwdPinLeft(p)
      /\ \A h \in Old : KeptOf(new.fanout[h], h)
      /\ PatchesAfter(Len(Walk), new)
  BY SelectionLeft
<1>3. \A h : h \in Range(rp.fanout[g]) <=> h # None /\ \E p \in FanoutPins(g) : rp.fanin[p] = h
  BY <1>1, PairPins
<1>4. \A p \in FanoutPins(g) : p \in Pins /\ Reads(p) = g
  BY DEF FanoutPins
<1>5. CASE g \in Old
  <2>1. \A p \in FanoutPins(g) : p \in OldPins
    BY <1>4, <1>5, RecPairsAssumption DEF OldPins
  <2>2. \A h : h \in Range(new.fanout[g]) <=> h \in Range(rp.fanout[g]) /\ Verdict("fwd", g, h)
    <3> SUFFICES ASSUME NEW h
                 PROVE  h \in Range(new.fanout[g])
                          <=> h \in Range(rp.fanout[g]) /\ Verdict("fwd", g, h)
      OBVIOUS
    <3> DEFINE c == <<"fwd", g, h>>
               x == Pos(Walk, c)
    <3>1. h \in Range(new.fanout[g]) <=> h \in Range(rp.fanout[g]) /\ ~Drops(Len(Walk), c)
      BY <1>2, <1>5 DEF KeptOf
    <3>2. ASSUME h \in Range(rp.fanout[g]) PROVE Drops(Len(Walk), c) <=> ~res[x]
      <4>1. c \in Range(Walk) /\ c[1] = "fwd"
        BY <1>1, <1>5, <3>2 DEF WalkFacts
      <4> HIDE DEF c
      <4>2. /\ x \in 1 .. Len(Walk) /\ Walk[x] = c
            /\ \A y \in 1 .. Len(Walk) : Walk[y] = c => y = x
        BY <1>1, <4>1 DEF WalkFacts
      <4>3. QED
        BY <4>1, <4>2 DEF Drops, Off
    <3>3. res[x] = Verdict("fwd", g, h)
      BY DEF Verdict
    <3>4. QED
      BY <3>1, <3>2, <3>3
  <2>3. \A p \in FanoutPins(g) :
          new.fanin[p] = IF rp.fanin[p] # None /\ Verdict("fwd", g, rp.fanin[p])
                         THEN rp.fanin[p] ELSE None
    BY <1>2, <1>4, <2>1
  <2>4. \A h : h \in Range(new.fanout[g]) => h # None /\ \E p \in FanoutPins(g) : new.fanin[p] = h
    BY <1>3, <2>2, <2>3
  <2>5. \A p \in FanoutPins(g) : new.fanin[p] # None => new.fanin[p] \in Range(new.fanout[g])
    BY <1>3, <2>2, <2>3
  <2>6. QED
    BY <2>4, <2>5
<1>6. CASE g \in Gol
  <2>1. \A p \in FanoutPins(g) : p \in GolPins
    <3> SUFFICES ASSUME NEW p \in FanoutPins(g) PROVE p \in GolPins
      OBVIOUS
    <3>1. p \in Pins /\ Reads(p) = g /\ g \notin Old
      BY <1>4, <1>6, RecPairsAssumption
    <3>2. p[1] \notin Old /\ p[1] \in Gate
      BY <3>1, PinsFinite, RecPairsAssumption
    <3>3. QED
      BY <3>1, <3>2 DEF GolPins, Gate
  <2>2. \A h : h \in Range(new.fanout[g]) <=> h \in Range(rp.fanout[g]) /\ ~BwdDropped(h, g)
    BY <1>1, <1>2, <1>6, BwdDrops DEF PatchesAfter
  <2>3. \A p \in FanoutPins(g) :
          new.fanin[p] = IF rp.fanin[p] # None /\ ~BwdDropped(rp.fanin[p], g)
                         THEN rp.fanin[p] ELSE None
    BY <1>2, <1>4, <1>6, <2>1 DEF BwdPinLeft
  <2>4. \A h : h \in Range(new.fanout[g]) => h # None /\ \E p \in FanoutPins(g) : new.fanin[p] = h
    BY <1>3, <2>2, <2>3
  <2>5. \A p \in FanoutPins(g) : new.fanin[p] # None => new.fanin[p] \in Range(new.fanout[g])
    BY <1>3, <2>2, <2>3
  <2>6. QED
    BY <2>4, <2>5
<1>7. QED
  BY <1>5, <1>6 DEF Gate

(* The list after the search.                                              *)
LEMMA ListMade ==
  ASSUME Consistent(rp), NEW t \in Sorted(rp.list \o SetToSeq(Joining(BwdMap)))
  PROVE  /\ t \in Seq(Old) /\ IsInjective(t)
         /\ \A g \in Old : g \in Range(t) <=> rp.fanout[g] # <<>> \/ BwdMap[g] # <<>>
<1> DEFINE J == Joining(BwdMap)
           j == SetToSeq(J)
<1>1. /\ rp.list \in Seq(Old) /\ IsInjective(rp.list)
      /\ \A g \in Old : g \in Range(rp.list) <=> rp.fanout[g] # <<>>
  BY DEF Consistent, Paired, Rp, InList
<1>2. J \subseteq Old /\ IsFiniteSet(J)
  <2>1. J \subseteq Old /\ Old \subseteq Gate
    BY DEF Joining, Gate
  <2>2. QED
    BY <2>1, FS_Subset, RecPairsAssumption
<1>3. \A g \in Old : g \in J <=> BwdMap[g] # <<>> /\ rp.fanout[g] = <<>>
  BY DEF Joining
<1> HIDE DEF J
<1>4. j \in Seq(J) /\ IsInjective(j) /\ Range(j) = J
  BY <1>2, SetToSeqLists
<1> HIDE DEF j
<1>5. j \in Seq(Old)
  <2>1. Len(j) \in Nat /\ j = [k \in 1 .. Len(j) |-> j[k]] /\ \A k \in 1 .. Len(j) : j[k] \in J
    BY <1>4
  <2>2. QED
    BY <1>2, <2>1
<1>6. Range(rp.list) \intersect Range(j) = {}
  BY <1>1, <1>2, <1>3, <1>4
<1>7. rp.list \o j \in Seq(Old) /\ Range(rp.list \o j) = Range(rp.list) \union Range(j)
  BY <1>1, <1>5, Concatenating
<1>8. IsInjective(rp.list \o j)
  BY <1>1, <1>4, <1>5, <1>6, Concatenating
<1>9. t \in Sorted(rp.list \o j)
  BY DEF j, J
<1>10. t \in Seq(Old) /\ IsInjective(t) /\ Range(t) = Range(rp.list \o j)
  BY <1>7, <1>8, <1>9, SortedPermutes
<1>11. QED
  BY <1>1, <1>3, <1>4, <1>7, <1>10

-----------------------------------------------------------------------------
(* The inductive invariant.                                                *)

(* With the list made, and with the muxes numbered.                        *)
Made == Paired(rp) /\ OutputsLead(rp) /\ BwdMapOK(bwdMap) /\ Listing

(* After the selection.                                                    *)
Left == rp \in Rp /\ Counted(rp)

(* By pc: no pairs; pairs being identified; the list made; the muxes       *)
(* numbered; the selection applied.                                        *)
IInv ==
  /\ pc \in {"outputs", "cuts", "build", "select", "output"}
  /\ optionR \in BOOLEAN
  /\ muxId \in [Old -> Int]
  /\ pc = "outputs" => \E b \in Seq(Gol) : rp = NoPairs(b)
  /\ pc = "cuts" => Identified(rp)
  /\ pc = "build" => Made
  /\ pc = "select" => \E at : Selectable(at)
  /\ pc = "output" => Left

(* What init and resetRecPair leave has all of it.                         *)
LEMMA NoPairsFacts ==
  ASSUME NEW b \in Seq(Gol)
  PROVE
  LET r == NoPairs(b)
  IN /\ Consistent(r) /\ OnlyOutputs(r) /\ Acyclic(r) /\ Identified(r)
     /\ r = [r EXCEPT !.list = <<>>]
<1> DEFINE r == NoPairs(b)
<1>1. /\ r.fanin = [p \in Pins |-> None] /\ r.fanout = [g \in Gate |-> <<>>]
      /\ r.cnt = [g \in Gate |-> 0] /\ r.list = <<>> /\ r.bwdList = b
      /\ r = [r EXCEPT !.list = <<>>]
  BY DEF NoPairs
<1>2. r \in Rp
  BY DEF NoPairs, Rp
<1> HIDE DEF r
<1>3. Range(<<>>) = {} /\ IsInjective(<<>>)
  BY DEF Range, IsInjective
<1>4. \A p \in Pins : r.fanin[p] = None
  BY <1>1
<1>5. \A g \in Gate : \A p \in FanoutPins(g) : p \in Pins
  BY DEF FanoutPins
<1>6. Crosses(r) /\ NoDummies(r)
  <2>1. None \notin Dummies
    BY RecPairsAssumption, OutputFacts DEF Dummies, Gate
  <2>2. QED
    BY <1>4, <2>1 DEF Crosses, NoDummies
<1>7. Counted(r)
  <2> SUFFICES ASSUME NEW g \in Old
               PROVE  r.cnt[g] = Cardinality({p \in FanoutPins(g) : r.fanin[p] # None})
    BY DEF Counted
  <2>1. g \in Gate
    BY DEF Gate
  <2>2. {p \in FanoutPins(g) : r.fanin[p] # None} = {}
    BY <1>4, <1>5, <2>1
  <2>3. QED
    BY <1>1, <2>1, <2>2, FS_EmptySet
<1>8. Together(r)
  <2> SUFFICES ASSUME NEW g \in Gate
               PROVE  /\ IsInjective(r.fanout[g])
                      /\ Range(r.fanout[g]) = {r.fanin[p] : p \in FanoutPins(g)} \ {None}
    BY DEF Together
  <2>1. {r.fanin[p] : p \in FanoutPins(g)} \ {None} = {}
    BY <1>4, <1>5
  <2>2. r.fanout[g] = <<>>
    BY <1>1
  <2>3. QED
    BY <1>3, <2>1, <2>2
<1>9. InList(r) /\ InBwdList(r)
  BY <1>1, <1>3 DEF InList, InBwdList, Gate
<1>10. Consistent(r)
  BY <1>2, <1>6, <1>7, <1>8, <1>9 DEF Consistent, Paired
<1>11. OnlyOutputs(r) /\ Acyclic(r)
  BY <1>4 DEF OnlyOutputs, Acyclic
<1>12. Identified(r)
  BY <1>1, <1>10, <1>11, OutputsOnlyLead DEF Identified
<1>13. QED
  BY <1>1, <1>10, <1>11, <1>12 DEF r

(* It holds at first, and each action keeps it.                            *)
LEMMA InvInit == Init => IInv
<1> SUFFICES ASSUME Init PROVE IInv
  OBVIOUS
<1>1. rp = NoPairs(<<>>) /\ pc = "outputs" /\ muxId = [g \in Old |-> 0] /\ optionR \in BOOLEAN
  BY RecPairsAssumption DEF Init
<1>2. muxId \in [Old -> Int]
  BY <1>1
<1>3. \E b \in Seq(Gol) : rp = NoPairs(b)
  <2>1. <<>> \in Seq(Gol)
    OBVIOUS
  <2>2. QED
    BY <1>1, <2>1
<1>4. QED
  BY <1>1, <1>2, <1>3 DEF IInv

LEMMA InvPairOutputs == IInv /\ PairOutputs => IInv' /\ Acyclic(rp')
<1> SUFFICES ASSUME IInv, PairOutputs PROVE IInv' /\ Acyclic(rp')
  OBVIOUS
<1>1. /\ pc = "outputs" /\ rp' = AddPairs([rp EXCEPT !.list = <<>>], OutputAdds)
      /\ pc' = "cuts" /\ optionR' = optionR /\ muxId' = muxId
  BY DEF IInv, PairOutputs
<1>2. PICK b \in Seq(Gol) : rp = NoPairs(b)
  BY <1>1 DEF IInv
<1> DEFINE r == NoPairs(b)
           new == AddPairs(r, OutputAdds)
<1>3. rp' = new
  BY <1>1, <1>2, NoPairsFacts
<1>4. Consistent(r) /\ OnlyOutputs(r)
  BY NoPairsFacts
<1> HIDE DEF r
<1>5. Consistent(new) /\ OnlyOutputs(new)
  BY <1>4, OutputsAdded
<1>6. OutputsLead(new) /\ Acyclic(new)
  BY <1>5, OutputsOnlyLead
<1> HIDE DEF new
<1>7. Identified(rp')
  BY <1>3, <1>5, <1>6 DEF Identified
<1>8. Identified(rp)' /\ Acyclic(rp')
  BY <1>3, <1>6, <1>7 DEF Identified
<1>9. QED
  BY <1>1, <1>8 DEF IInv

LEMMA InvMatchCut == IInv /\ MatchCut => IInv'
<1> SUFFICES ASSUME IInv, MatchCut PROVE IInv'
  OBVIOUS
<1>1. /\ pc = "cuts" /\ Identified(rp)
      /\ pc' = "cuts" /\ optionR' = optionR /\ muxId' = muxId
  BY DEF IInv, MatchCut
<1>2. PICK cut \in Cuts : rp' = AddLoopFree(rp, Adds(cut))
  BY DEF MatchCut
<1>3. Identified(rp')
  BY <1>1, <1>2, CutsAdded
<1>4. Identified(rp)'
  BY <1>3 DEF Identified
<1>5. QED
  BY <1>1, <1>4 DEF IInv

LEMMA InvMatchCutWithFraig == IInv /\ MatchCutWithFraig => IInv'
<1> SUFFICES ASSUME IInv, MatchCutWithFraig PROVE IInv'
  OBVIOUS
<1>1. /\ pc = "cuts" /\ Identified(rp)
      /\ pc' = "cuts" /\ optionR' = optionR /\ muxId' = muxId
  BY DEF IInv, MatchCutWithFraig
<1>2. PICK bwd \in BwdCuts, cut \in Cuts :
        rp' = AddLoopFree(AddPairs(rp, Adds(bwd)), Adds(cut))
  BY DEF MatchCutWithFraig
<1> DEFINE r == AddPairs(rp, Adds(bwd))
<1>3. Identified(r)
  BY <1>1, BwdAdded
<1>4. rp' = AddLoopFree(r, Adds(cut))
  BY <1>2
<1> HIDE DEF r
<1>5. Identified(rp')
  BY <1>3, <1>4, CutsAdded
<1>6. Identified(rp)'
  BY <1>5 DEF Identified
<1>7. QED
  BY <1>1, <1>6 DEF IInv

LEMMA InvEndIdentify == IInv /\ EndIdentify => IInv'
<1> SUFFICES ASSUME IInv, EndIdentify PROVE IInv'
  OBVIOUS
<1>1. /\ pc = "cuts" /\ Identified(rp)
      /\ pc' = "build" /\ optionR' = optionR /\ muxId' = muxId /\ bwdMap' = BwdMap
  BY DEF IInv, EndIdentify
<1>2. PICK t \in Sorted(rp.list \o SetToSeq(Joining(BwdMap))) : rp' = [rp EXCEPT !.list = t]
  BY DEF EndIdentify
<1>3. Consistent(rp) /\ Paired(rp) /\ rp \in Rp /\ OutputsLead(rp)
  BY <1>1 DEF Identified, Consistent, Paired
<1>4. /\ t \in Seq(Old) /\ IsInjective(t)
      /\ \A g \in Old : g \in Range(t) <=> rp.fanout[g] # <<>> \/ BwdMap[g] # <<>>
  BY <1>3, ListMade
<1>5. /\ rp'.fanin = rp.fanin /\ rp'.fanout = rp.fanout /\ rp'.cnt = rp.cnt
      /\ rp'.bwdList = rp.bwdList /\ rp'.list = t /\ rp' \in Rp
  BY <1>2, <1>3, <1>4 DEF Rp
<1>6. Paired(rp') /\ OutputsLead(rp')
  <2>1. Crosses(rp') /\ NoDummies(rp')
    BY <1>3, <1>5 DEF Paired, Crosses, NoDummies
  <2>2. Counted(rp')
    BY <1>3, <1>5 DEF Paired, Counted
  <2>3. Together(rp') /\ InBwdList(rp')
    <3>1. Together(rp')
      BY <1>3, <1>5 DEF Paired, Together
    <3>2. InBwdList(rp')
      BY <1>3, <1>5 DEF Paired, InBwdList
    <3>3. QED
      BY <3>1, <3>2
  <2>4. OutputsLead(rp')
    BY <1>3, <1>5 DEF OutputsLead
  <2>5. QED
    BY <1>5, <2>1, <2>2, <2>3, <2>4 DEF Paired
<1>7. BwdMapOK(bwdMap)' /\ Listing'
  BY <1>1, <1>3, <1>4, <1>5, BwdMapRight DEF BwdMapOK, ListedTwice, Listing
<1>8. Made'
  BY <1>6, <1>7 DEF Made
<1>9. QED
  BY <1>1, <1>8 DEF IInv

LEMMA InvBuildSelector == IInv /\ BuildSelector => IInv'
<1> SUFFICES ASSUME IInv, BuildSelector PROVE IInv'
  OBVIOUS
<1>1. /\ pc = "build" /\ Made /\ muxId \in [Old -> Int] /\ optionR \in BOOLEAN
      /\ pc' = "select" /\ optionR' = optionR /\ rp' = rp /\ bwdMap' = bwdMap
      /\ muxId' = Numbering.id /\ res' \in [1 .. NumMux -> BOOLEAN]
  BY DEF IInv, BuildSelector
<1>2. SelectorInput
  BY <1>1, ListingSelects DEF Made
<1>3. PICK at : /\ Starts(at) /\ Numbered(at, Numbering.id)
                /\ NumMux = at[Len(rp.list)] /\ Numbering.id \in [Old -> Int]
  BY <1>1, <1>2, NumberingRight
<1>4. BwdMapOK(bwdMap)' /\ Listing' /\ Starts(at)' /\ Numbered(at, muxId)'
  <2>1. BwdMapOK(bwdMap)' /\ Listing'
    BY <1>1 DEF Made, BwdMapOK, ListedTwice, Listing
  <2>2. Starts(at)' /\ Numbered(at, muxId)'
    BY <1>1, <1>3 DEF Starts, Numbered, NumMuxOf, NumBwd
  <2>3. QED
    BY <2>1, <2>2
<1>5. Paired(rp') /\ OutputsLead(rp')
  BY <1>1 DEF Made
<1>6. (muxId \in [Old -> Int])' /\ (res \in [1 .. at[Len(rp.list)] -> BOOLEAN])'
  BY <1>1, <1>3
<1>7. Selectable(at)'
  BY <1>4, <1>5, <1>6 DEF Selectable
<1>8. QED
  BY <1>1, <1>6, <1>7 DEF IInv

LEMMA InvSelectPatch == IInv /\ SelectPatch => IInv'
<1> SUFFICES ASSUME IInv, SelectPatch PROVE IInv'
  OBVIOUS
<1>1. /\ pc = "select" /\ muxId \in [Old -> Int] /\ optionR \in BOOLEAN
      /\ pc' = "output" /\ optionR' = optionR /\ muxId' = muxId
      /\ rp' = [Selected.r EXCEPT !.list = Selected.list]
  BY DEF IInv, SelectPatch
<1>2. PICK at : Selectable(at)
  BY <1>1 DEF IInv
<1>3. rp' \in Rp /\ Counted(rp')
  BY <1>1, <1>2, SelectionLeft
<1>4. Left'
  BY <1>3 DEF Left
<1>5. QED
  BY <1>1, <1>4 DEF IInv

LEMMA InvResetRecPair == IInv /\ ResetRecPair => IInv'
<1> SUFFICES ASSUME IInv, ResetRecPair PROVE IInv'
  OBVIOUS
<1>1. /\ pc = "output" /\ Left /\ muxId \in [Old -> Int]
      /\ rp' = NoPairs(rp.bwdList) /\ pc' = "outputs" /\ optionR' = optionR /\ muxId' = muxId
      /\ optionR \in BOOLEAN
  BY DEF IInv, ResetRecPair
<1>2. rp.bwdList \in Seq(Gol)
  BY <1>1 DEF Left, Rp
<1>3. (\E b \in Seq(Gol) : rp = NoPairs(b))'
  BY <1>1, <1>2 DEF NoPairs
<1>4. QED
  BY <1>1, <1>3 DEF IInv

LEMMA InvStutter == IInv /\ UNCHANGED vars => IInv'
<1> SUFFICES ASSUME IInv, UNCHANGED vars PROVE IInv'
  OBVIOUS
<1>1. /\ pc' = pc /\ optionR' = optionR /\ muxId' = muxId /\ rp' = rp /\ bwdMap' = bwdMap
      /\ res' = res
  BY DEF vars
<1>2. (Identified(rp) => Identified(rp)') /\ (Made => Made') /\ (Left => Left')
  BY <1>1 DEF Identified, Made, Left, BwdMapOK, ListedTwice, Listing
<1>3. ASSUME NEW at, Selectable(at) PROVE Selectable(at)'
  <2>1. BwdMapOK(bwdMap)' /\ Listing'
    BY <1>1, <1>3 DEF Selectable, BwdMapOK, ListedTwice, Listing
  <2>2. Starts(at)' /\ Numbered(at, muxId)'
    BY <1>1, <1>3 DEF Selectable, Starts, Numbered, NumMuxOf, NumBwd
  <2>3. QED
    BY <1>1, <1>3, <2>1, <2>2 DEF Selectable
<1>4. QED
  BY <1>1, <1>2, <1>3 DEF IInv, NoPairs

LEMMA Invariant == Spec => []IInv
<1>1. IInv /\ [Next]_vars => IInv'
  BY InvPairOutputs, InvMatchCut, InvMatchCutWithFraig, InvEndIdentify, InvBuildSelector,
     InvSelectPatch, InvResetRecPair, InvStutter DEF Next
<1>2. QED
  BY <1>1, InvInit, PTL DEF Spec

-----------------------------------------------------------------------------
(* The theorems.                                                           *)

(* _recCnt is the number of the old gate's pins that have a pair, all the  *)
(* time, so a gate whose count reaches its fanout has no other pin         *)
(* (addRecPair, selectRecPair, IsAllPatched).                              *)
THEOREM CountsRight == Spec => []CountMatches
<1>1. IInv => CountMatches
  <2> SUFFICES ASSUME IInv PROVE CountMatches
    OBVIOUS
  <2>1. Counted(rp)
    <3>1. ASSUME pc = "outputs" PROVE Counted(rp)
      <4>1. PICK b \in Seq(Gol) : rp = NoPairs(b)
        BY <3>1 DEF IInv
      <4>2. Consistent(NoPairs(b))
        BY NoPairsFacts
      <4>3. QED
        BY <4>1, <4>2 DEF Consistent, Paired
    <3>2. pc = "select" => Counted(rp)
      BY DEF IInv, Selectable, Paired
    <3>3. QED
      BY <3>1, <3>2 DEF IInv, Identified, Consistent, Made, Paired, Left
  <2>2. ASSUME NEW g \in Old, rp.cnt[g] >= Cardinality(FanoutPins(g)), NEW p \in FanoutPins(g)
        PROVE  rp.fanin[p] # None
    <3> DEFINE F == {q \in FanoutPins(g) : rp.fanin[q] # None}
    <3>1. rp.cnt[g] = Cardinality(F)
      BY <2>1 DEF Counted
    <3>2. IsFiniteSet(FanoutPins(g))
      BY PinsFinite, FS_Subset DEF FanoutPins
    <3>3. F \in SUBSET FanoutPins(g)
      OBVIOUS
    <3> HIDE DEF F
    <3>4. /\ Cardinality(F) <= Cardinality(FanoutPins(g))
          /\ Cardinality(FanoutPins(g)) = Cardinality(F) => FanoutPins(g) = F
          /\ IsFiniteSet(F)
      BY <3>2, <3>3, FS_Subset
    <3>5. Cardinality(F) \in Nat /\ Cardinality(FanoutPins(g)) \in Nat
      BY <3>2, <3>4, FS_CardinalityType
    <3>6. Cardinality(FanoutPins(g)) = Cardinality(F)
      BY <2>2, <3>1, <3>4, <3>5
    <3>7. p \in F
      BY <3>4, <3>6
    <3>8. QED
      BY <3>7 DEF F
  <2>3. QED
    BY <2>1, <2>2 DEF Counted, CountMatches
<1>2. QED
  BY <1>1, Invariant, PTL

(* Every pin the selector writes reads the mux whose verdict selectRecPair *)
(* applies to its pair, with forward and backward muxes in any number      *)
(* (buildSelector, selGetNet, getBwdPatchMux, selectRecPair).              *)
THEOREM SelectorNets == Spec => []NetsMatchVerdicts
<1>1. IInv => NetsMatchVerdicts
  <2> SUFFICES ASSUME IInv, pc = "select" PROVE NetsMatchVerdicts
    BY DEF NetsMatchVerdicts
  <2>1. PICK at : Selectable(at)
    BY DEF IInv
  <2>2. QED
    BY <2>1, NetsRight
<1>2. QED
  BY <1>1, Invariant, PTL

(* Each mux of the selector is read by a pin, and none is built twice      *)
(* unless a golden gate is in _bwdPatchList twice, in every search up to a *)
(* reset, with option r and without (addRecPair, checkBwdPatches,          *)
(* buildSelector, resetRecPair).                                           *)
THEOREM SelectorMuxes == Spec => []EveryMuxRead
<1>1. IInv => EveryMuxRead
  <2> SUFFICES ASSUME IInv, pc = "select" PROVE EveryMuxRead
    BY DEF EveryMuxRead
  <2>1. PICK at : Selectable(at)
    BY DEF IInv
  <2>2. QED
    BY <2>1, MuxesRead
<1>2. QED
  BY <1>1, Invariant, PTL

(* The miter compares an output on its own pair's mux, because the pair of *)
(* an output is the first one of its gate (identifyRecPairs, the outputs   *)
(* of the miter).                                                          *)
THEOREM SelectorOutputs == Spec => []OutputsReadMuxes
<1>1. IInv => OutputsReadMuxes
  <2> SUFFICES ASSUME IInv, pc = "select" PROVE OutputsReadMuxes
    BY DEF OutputsReadMuxes
  <2>1. PICK at : Selectable(at)
    BY DEF IInv
  <2>2. QED
    BY <2>1, OutputsRead
<1>2. QED
  BY <1>1, Invariant, PTL

(* What selectRecPair leaves on the pins is what the verdicts say, on each *)
(* pin of an old gate, and on each pin of a golden gate whose other fanins *)
(* have no patch to the same old gate (NtkMgr::selectPatch).               *)
THEOREM SelectionRight == Spec => SelectionApplied
<1> DEFINE Applied ==
      /\ \A p \in OldPins :
           rp.fanin[p] # None =>
             rp'.fanin[p] = IF Verdict("fwd", Reads(p), rp.fanin[p]) THEN rp.fanin[p] ELSE None
      /\ \A p \in GolPins :
           rp.fanin[p] # None /\ Alone(p) => rp'.fanin[p] = BwdPinLeft(p)
<1>1. IInv /\ [Next]_vars => [pc = "select" => Applied]_vars
  <2> SUFFICES ASSUME IInv, Next, pc = "select" PROVE Applied
    OBVIOUS
  <2>1. SelectPatch
    BY DEF Next, PairOutputs, MatchCut, MatchCutWithFraig, EndIdentify, BuildSelector, ResetRecPair
  <2>2. PICK at : Selectable(at)
    BY DEF IInv
  <2>3. rp' = [Selected.r EXCEPT !.list = Selected.list]
    BY <2>1 DEF SelectPatch
  <2>4. QED
    BY <2>2, <2>3, SelectionLeft
<1>2. QED
  BY <1>1, Invariant, PTL DEF Spec, SelectionApplied

(* The selection leaves the list, the lists of the gates and the pins with *)
(* the same pairs, a golden gate's list when no reader of the gate has     *)
(* another patch to the same old gate (selectRecPair, selectPatch).        *)
THEOREM ListsRight == Spec => ListsAgree
<1> DEFINE Agreed ==
      /\ \A g \in Old : g \in Range(rp'.list) <=> rp'.fanout[g] # <<>>
      /\ \A g \in Gate :
           (g \in Gol => \A p \in FanoutPins(g) : rp.fanin[p] # None => Alone(p)) =>
             Range(rp'.fanout[g]) = {rp'.fanin[p] : p \in FanoutPins(g)} \ {None}
<1>1. IInv /\ [Next]_vars => [pc = "select" => Agreed]_vars
  <2> SUFFICES ASSUME IInv, Next, pc = "select" PROVE Agreed
    OBVIOUS
  <2>1. SelectPatch
    BY DEF Next, PairOutputs, MatchCut, MatchCutWithFraig, EndIdentify, BuildSelector, ResetRecPair
  <2>2. PICK at : Selectable(at)
    BY DEF IInv
  <2>3. rp' = [Selected.r EXCEPT !.list = Selected.list]
    BY <2>1 DEF SelectPatch
  <2>4. \A g \in Old : g \in Range(rp'.list) <=> rp'.fanout[g] # <<>>
    BY <2>2, <2>3, SelectionLeft
  <2>5. ListsPins(rp')
    BY <2>2, <2>3, ListsLeft
  <2>6. \A g \in Gate :
          (g \in Gol => \A p \in FanoutPins(g) : rp.fanin[p] # None => Alone(p)) =>
            Range(rp'.fanout[g]) = {rp'.fanin[p] : p \in FanoutPins(g)} \ {None}
    BY <2>5 DEF ListsPins
  <2>7. QED
    BY <2>4, <2>6
<1>2. QED
  BY <1>1, Invariant, PTL DEF Spec, ListsAgree

(* Only a backward cut with two patches can close the first loop: outputs, *)
(* cuts and single patches cannot, and neither can the selection nor a     *)
(* reset (checkLoopIfPatched, identifyRecPairs, cutMatchingWithFraig).     *)
THEOREM Loops == Spec => LoopsClosedTogether
<1> DEFINE Together2 ==
      \E p, q \in GolPins :
        /\ NewlyPatched(p) /\ NewlyPatched(q)
        /\ <<Reads(p), rp'.fanin[p]>> # <<Reads(q), rp'.fanin[q]>>
<1>1. ASSUME IInv, Next, rp' # rp, optionR, Acyclic(rp), ~Acyclic(rp') PROVE Together2
  <2>1. CASE PairOutputs
    BY <1>1, <2>1, InvPairOutputs
  <2>2. CASE MatchCut
    <3>1. Identified(rp)
      BY <1>1, <2>2 DEF IInv, MatchCut
    <3>2. PICK cut \in Cuts : rp' = AddLoopFree(rp, Adds(cut))
      BY <2>2 DEF MatchCut
    <3>3. Acyclic(rp')
      BY <1>1, <3>1, <3>2, CutsAdded DEF KeptAcyclic
    <3>4. QED
      BY <1>1, <3>3
  <2>3. CASE MatchCutWithFraig
    <3>1. Identified(rp)
      BY <1>1, <2>3 DEF IInv, MatchCutWithFraig
    <3>2. PICK bwd \in BwdCuts, cut \in Cuts :
            /\ \A k \in DOMAIN bwd.pairs : LoopFree(rp, Adds(bwd)[k])
            /\ rp' = AddLoopFree(AddPairs(rp, Adds(bwd)), Adds(cut))
      BY <2>3 DEF MatchCutWithFraig
    <3> DEFINE r == AddPairs(rp, Adds(bwd))
    <3>3. Identified(r) /\ (Acyclic(r) \/ TwoPatches(rp, r))
      BY <1>1, <3>1, <3>2, BwdAdded
    <3>4. rp' = AddLoopFree(r, Adds(cut))
      BY <3>2
    <3> HIDE DEF r
    <3>5. KeptAcyclic(r, rp') /\ PairsKept(r, rp')
      BY <3>3, <3>4, CutsAdded
    <3>6. TwoPatches(rp, r)
      BY <1>1, <3>3, <3>5 DEF KeptAcyclic
    <3>7. PICK p, q \in GolPins : /\ PatchedIn(rp, r, p) /\ PatchedIn(rp, r, q)
                                 /\ <<Reads(p), r.fanin[p]>> # <<Reads(q), r.fanin[q]>>
      BY <3>6 DEF TwoPatches
    <3>8. p \in Pins /\ q \in Pins
      BY DEF GolPins
    <3>9. rp'.fanin[p] = r.fanin[p] /\ rp'.fanin[q] = r.fanin[q]
      BY <3>5, <3>7, <3>8 DEF PairsKept, PatchedIn
    <3>10. NewlyPatched(p) /\ NewlyPatched(q)
      BY <3>7, <3>9 DEF NewlyPatched, PatchedIn
    <3>11. QED
      BY <3>7, <3>9, <3>10
  <2>4. CASE EndIdentify
    <3>1. Identified(rp)
      BY <1>1, <2>4 DEF IInv, EndIdentify
    <3>2. rp \in Rp
      BY <3>1 DEF Identified, Consistent, Paired
    <3>3. PICK t \in Sorted(rp.list \o SetToSeq(Joining(BwdMap))) : rp' = [rp EXCEPT !.list = t]
      BY <2>4 DEF EndIdentify
    <3>4. t \in Seq(Old)
      BY <3>1, ListMade DEF Identified
    <3>5. rp' \in Rp /\ rp'.fanin = rp.fanin
      BY <3>2, <3>3, <3>4 DEF Rp
    <3>6. Acyclic(rp')
      BY <1>1, <3>2, <3>5, FewerAcyclic
    <3>7. QED
      BY <1>1, <3>6
  <2>5. CASE BuildSelector
    BY <1>1, <2>5 DEF BuildSelector
  <2>6. CASE SelectPatch
    <3>1. PICK at : Selectable(at)
      BY <1>1, <2>6 DEF IInv, SelectPatch
    <3>2. rp' = [Selected.r EXCEPT !.list = Selected.list]
      BY <2>6 DEF SelectPatch
    <3>3. rp' \in Rp /\ \A p \in Pins : rp'.fanin[p] \in {None, rp.fanin[p]}
      BY <3>1, <3>2, SelectionLeft
    <3>4. rp \in Rp
      BY <3>1 DEF Selectable, Paired
    <3>5. Acyclic(rp')
      BY <1>1, <3>3, <3>4, FewerAcyclic
    <3>6. QED
      BY <1>1, <3>5
  <2>7. CASE ResetRecPair
    <3>1. Left /\ rp' = NoPairs(rp.bwdList)
      BY <1>1, <2>7 DEF IInv, ResetRecPair
    <3>2. rp.bwdList \in Seq(Gol)
      BY <3>1 DEF Left, Rp
    <3>3. Acyclic(NoPairs(rp.bwdList))
      BY <3>2, NoPairsFacts
    <3>4. QED
      BY <1>1, <3>1, <3>3
  <2>8. QED
    BY <1>1, <2>1, <2>2, <2>3, <2>4, <2>5, <2>6, <2>7 DEF Next
<1>2. optionR' = optionR => (NoLoop' <=> (optionR => Acyclic(rp')))
  BY DEF NoLoop, Acyclic
<1>3. NoLoop <=> (optionR => Acyclic(rp))
  BY DEF NoLoop, Acyclic
<1>4. Next => optionR' = optionR
  BY DEF Next, PairOutputs, MatchCut, MatchCutWithFraig, EndIdentify, BuildSelector, SelectPatch,
         ResetRecPair
<1>5. IInv /\ [Next]_vars => [rp' # rp /\ ~NoLoop' /\ NoLoop => Together2]_vars
  BY <1>1, <1>2, <1>3, <1>4 DEF IInv
<1>6. QED
  BY <1>5, Invariant, PTL DEF Spec, LoopsClosedTogether
=============================================================================
