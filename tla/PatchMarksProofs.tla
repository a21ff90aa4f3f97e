-------------------------- MODULE PatchMarksProofs ---------------------------
(***************************************************************************)
(* What outputPatchFile does, for every netlist and every selection of     *)
(* pairs.  The invariant IInv follows the phases: the pairs never change   *)
(* (PairsOK), markFloatingGates stamps what is read after the patch        *)
(* (LiveOK), the list of nets shrinks in the order of their levels         *)
(* (ListOK), so that when a net is decided its fanouts are not yet, and    *)
(* what is settled for a net stays settled (DoneOK).                       *)
(***************************************************************************)
EXTENDS PatchMarks, FiniteSetTheorems, TLAPS

(* An operator of the project's own for the built-in one, to fold with.    *)
Appended(t, g) == Append(t, g)

AppendFold == INSTANCE FoldLemmas WITH Op <- Appended
PairedFold == INSTANCE FoldLemmas WITH Op <- PairedNet
ReachFold == INSTANCE FoldLemmas WITH Op <- Reach

(* The folds of the instances are those of the model.                      *)
LEMMA SameFolds ==
  ASSUME NEW base, NEW seq
  PROVE  /\ ReachFold!LeftFold(base, seq) = FoldLeft(Reach, base, seq)
         /\ PairedFold!LeftFold(base, seq) = FoldLeft(PairedNet, base, seq)
         /\ AppendFold!SetFold(<< >>, seq) = Listed(seq)
         /\ AppendFold!IsFiniteSet(seq) <=> IsFiniteSet(seq)
         /\ PairedFold!IsFiniteSet(seq) <=> IsFiniteSet(seq)
BY DEF FoldLeft, FoldSet, MapThenFoldSet, Max, Listed, Appended, AppendFold!SetFold,
       ReachFold!LeftFold, ReachFold!MapThenFoldSet, ReachFold!Largest,
       PairedFold!LeftFold, PairedFold!MapThenFoldSet, PairedFold!Largest,
       AppendFold!MapThenFoldSet,
       IsFiniteSet, AppendFold!IsFiniteSet, PairedFold!IsFiniteSet

-----------------------------------------------------------------------------
(* The pins of the netlists.                                               *)

(* A pin is a pair of a gate, which is no constant, and a position in its  *)
(* fanin list; an old gate reads old gates of lower levels, a golden one   *)
(* reads golden gates.                                                     *)
LEMMA PinFacts ==
  ASSUME NEW p \in Pins
  PROVE  /\ p = <<p[1], p[2]>> /\ p[1] \in Gate /\ p[2] \in 1 .. Len(Fanin[p[1]])
         /\ p[1] \in Old => Reads(p) \in Old /\ Level[Reads(p)] < Level[p[1]]
         /\ p[1] \in Gol => Reads(p) \in Gol /\ p[1] \notin Old
         /\ Reads(p) \in Gate
         /\ p[1] \notin Const
<1>1. PICK g \in Gate : p \in {g} \X (1 .. Len(Fanin[g]))
  BY DEF Pins
<1>2. p = <<p[1], p[2]>> /\ p[1] = g /\ p[2] \in 1 .. Len(Fanin[g])
  BY <1>1
<1>3. g \in Old => Reads(p) \in Old /\ Level[Reads(p)] < Level[g]
  BY <1>2, PatchMarksAssumption DEF Reads
<1>4. g \in Gol => Reads(p) \in Gol /\ g \notin Old
  BY <1>2, PatchMarksAssumption DEF Reads
<1>5. g \notin Const
  <2>1. ASSUME g \in Const PROVE FALSE
    <3>1. Fanin[g] = << >>
      BY <2>1, PatchMarksAssumption
    <3>2. QED
      BY <1>2, <3>1
  <2>2. QED
    BY <2>1
<1>6. QED
  BY <1>2, <1>3, <1>4, <1>5 DEF Gate

(* Each position in a fanin list is a pin.                                 *)
LEMMA PinOf ==
  ASSUME NEW g \in Gate, NEW i \in 1 .. Len(Fanin[g])
  PROVE  <<g, i>> \in Pins
<1>1. <<g, i>> \in {g} \X (1 .. Len(Fanin[g]))
  OBVIOUS
<1>2. QED
  BY <1>1 DEF Pins

(* There are finitely many gates, so markFloatingGates ends.               *)
LEMMA GateFinite == IsFiniteSet(Gate) /\ Cardinality(Gate) \in Nat
<1>1. IsFiniteSet(Gate)
  BY PatchMarksAssumption, FS_Union DEF Gate
<1>2. QED
  BY <1>1, FS_CardinalityType

(* The fanouts of an old gate are old, later and no constants; a gate is a *)
(* fanout of what its pins read.                                           *)
LEMMA FanoutFacts ==
  ASSUME NEW g \in Old, NEW f \in Fanouts(g)
  PROVE  f \in Old /\ Level[g] < Level[f] /\ f \notin Const
<1>1. PICK p \in Pins : Reads(p) = g /\ f = p[1]
  BY DEF Fanouts, FanoutPins
<1>2. p[1] \notin Gol
  BY <1>1, PinFacts, PatchMarksAssumption
<1>3. QED
  BY <1>1, <1>2, PinFacts DEF Gate

(* The dummies of the outputs are old gates.                               *)
LEMMA DummyFacts == Dummies \subseteq Old
<1>1. POs \in Seq(Old)
  BY PatchMarksAssumption
<1>2. QED
  BY <1>1 DEF Dummies, Range

-----------------------------------------------------------------------------
(* markFloatingGates: what is reached, and the list of nets.               *)

(* What a pin reads after the patch is a gate.                             *)
LEMMA SourceType ==
  ASSUME rec \in [Pins -> Gol \union {None}], NEW p \in Pins
  PROVE  Source(p) \in Gate
<1>1. CASE rec[p] # None
  <2>1. rec[p] \in Gol
    BY <1>1
  <2>2. QED
    BY <1>1, <2>1, PatchMarksAssumption DEF Source
<1>2. CASE rec[p] = None
  <2>1. CASE p[1] \in Old
    BY <1>2, <2>1, PinFacts DEF Source
  <2>2. CASE p[1] \notin Old
    BY <1>2, <2>2, PinFacts, PatchMarksAssumption DEF Source, Gate
  <2>3. QED
    BY <2>1, <2>2
<1>3. QED
  BY <1>1, <1>2

(* After as many rounds as there are gates nothing more is reached: a      *)
(* round that adds nothing is the last, and each round before it adds one. *)
LEMMA NotFloatingClosed ==
  ASSUME rec \in [Pins -> Gol \union {None}]
  PROVE  /\ NotFloating \subseteq Gate
         /\ Dummies \subseteq NotFloating
         /\ \A p \in Pins : p[1] \in NotFloating => Source(p) \in NotFloating
<1> DEFINE n == Cardinality(Gate)
<1> DEFINE rounds == [i \in 1 .. Cardinality(Gate) |-> i]
<1> DEFINE Round(S) == S \union {Source(p) : p \in {q \in Pins : q[1] \in S}}
<1> DEFINE Stable(S) == \A p \in Pins : p[1] \in S => Source(p) \in S
<1>1. n \in Nat /\ IsFiniteSet(Gate)
  BY GateFinite
<1>2. rounds \in Seq(Nat) /\ Len(rounds) = n
  BY <1>1
<1> HIDE DEF rounds
<1>3. PICK acc : /\ ReachFold!Traces(acc, Dummies, rounds)
                 /\ FoldLeft(Reach, Dummies, rounds) = acc[Len(rounds)]
  BY <1>2, SameFolds, ReachFold!FoldLeftTrace
<1>4. acc[0] = Dummies /\ \A i \in 1 .. n : acc[i] = Round(acc[i - 1])
  BY <1>2, <1>3 DEF ReachFold!Traces, Reach
<1>5. NotFloating = acc[n]
  BY <1>2, <1>3 DEF NotFloating, rounds
<1> DEFINE G == {i \in 0 .. n : /\ acc[i] \subseteq Gate /\ Dummies \subseteq acc[i]
                                /\ Stable(acc[i]) \/ Cardinality(acc[i]) >= i}
<1> HIDE DEF n
<1>6. 0 \in G
  <2>1. Dummies \subseteq Gate
    BY DummyFacts DEF Gate
  <2>2. IsFiniteSet(Dummies) /\ Cardinality(Dummies) \in Nat
    BY <1>1, <2>1, FS_Subset, FS_CardinalityType
  <2>3. QED
    BY <1>1, <1>4, <2>1, <2>2
<1>7. ASSUME NEW i \in 1 .. n, i - 1 \in G PROVE i \in G
  <2> DEFINE S == acc[i - 1]
  <2> DEFINE T == acc[i]
  <2>1. T = Round(S)
    BY <1>4
  <2>2. /\ S \subseteq Gate /\ Dummies \subseteq S
        /\ Stable(S) \/ Cardinality(S) >= i - 1
    BY <1>7
  <2> HIDE DEF S, T
  <2>3. S \subseteq T /\ T \subseteq Gate
    BY <2>1, <2>2, SourceType
  <2>4. CASE Stable(S)
    <3>1. T = S
      BY <2>1, <2>3, <2>4
    <3>2. QED
      BY <2>2, <2>4, <3>1 DEF T
  <2>5. CASE ~ Stable(S)
    <3>1. S # T
      BY <2>1, <2>5
    <3>2. IsFiniteSet(T) /\ IsFiniteSet(S) /\ Cardinality(S) \in Nat /\ Cardinality(T) \in Nat
      BY <1>1, <2>2, <2>3, FS_Subset, FS_CardinalityType
    <3>3. Cardinality(S) < Cardinality(T)
      BY <2>3, <3>1, <3>2, FS_Subset
    <3>4. Cardinality(T) >= i
      BY <1>1, <2>2, <2>5, <3>2, <3>3
    <3>5. QED
      BY <2>2, <2>3, <3>4 DEF T
  <2>6. QED
    BY <2>4, <2>5
<1>8. n \in G
  <2> HIDE DEF G
  <2>1. \A i \in 0 .. n : i \in G
    BY <1>1, <1>6, <1>7, ReachFold!IntervalInduction
  <2>2. QED
    BY <1>1, <2>1
<1>9. Stable(acc[n])
  <2>1. SUFFICES ASSUME ~ Stable(acc[n]) PROVE FALSE
    OBVIOUS
  <2>2. acc[n] \subseteq Gate /\ Cardinality(acc[n]) >= n
    BY <1>8, <2>1
  <2>3. acc[n] = Gate
    <3> DEFINE S == acc[n]
    <3>1. S \subseteq Gate /\ Cardinality(S) >= Cardinality(Gate)
      BY <2>2 DEF n
    <3> HIDE DEF S
    <3>2. /\ IsFiniteSet(S) /\ Cardinality(S) \in Nat /\ Cardinality(Gate) \in Nat
          /\ S # Gate => Cardinality(S) < Cardinality(Gate)
      BY <1>1, <3>1, FS_Subset, FS_CardinalityType
    <3>3. S = Gate
      BY <3>1, <3>2
    <3>4. QED
      BY <3>3 DEF S
  <2>4. QED
    BY <2>1, <2>3, SourceType
<1>10. QED
  BY <1>5, <1>8, <1>9

(* The gates of a set one after the other, each once.                      *)
LEMMA ListedEnumerates ==
  ASSUME NEW S, IsFiniteSet(S)
  PROVE  AppendFold!Enumerates(Listed(S), S)
<1>1. PICK seq : /\ AppendFold!Enumerates(seq, S)
                 /\ AppendFold!SetFold(<< >>, S) = AppendFold!LeftFold(<< >>, seq)
  BY SameFolds, AppendFold!FoldSetEnumerates
<1>2. seq \in Seq(S) /\ Len(seq) \in Nat
  BY <1>1 DEF AppendFold!Enumerates
<1>3. PICK acc : /\ AppendFold!Traces(acc, << >>, seq)
                 /\ AppendFold!LeftFold(<< >>, seq) = acc[Len(seq)]
  BY <1>2, AppendFold!FoldLeftTrace
<1> DEFINE G == {i \in 0 .. Len(seq) : acc[i] = [k \in 1 .. i |-> seq[k]]}
<1>4. 0 \in G
  <2>1. acc[0] = << >>
    BY <1>3 DEF AppendFold!Traces
  <2>2. [k \in 1 .. 0 |-> seq[k]] = << >>
    OBVIOUS
  <2>3. QED
    BY <1>2, <2>1, <2>2
<1>5. ASSUME NEW i \in 1 .. Len(seq), i - 1 \in G PROVE i \in G
  <2> DEFINE t == [k \in 1 .. i - 1 |-> seq[k]]
  <2> DEFINE u == [k \in 1 .. i |-> seq[k]]
  <2>1. acc[i] = Append(acc[i - 1], seq[i])
    BY <1>3 DEF AppendFold!Traces, Appended
  <2>2. acc[i - 1] = t
    BY <1>5
  <2>3. Append(t, seq[i]) = u
    <3>1. t \in Seq(S) /\ Len(t) = i - 1
      BY <1>2
    <3>2. \A k \in 1 .. i : Append(t, seq[i])[k] = seq[k]
      BY <1>2, <3>1
    <3>3. Append(t, seq[i]) \in Seq(S) /\ Len(Append(t, seq[i])) = i
      BY <1>2, <3>1
    <3>4. QED
      BY <3>2, <3>3
  <2>4. i \in 0 .. Len(seq)
    BY <1>2
  <2>5. acc[i] = u
    <3> HIDE DEF t, u
    <3>1. QED
      BY <2>1, <2>2, <2>3
  <2>6. QED
    BY <2>4, <2>5
<1>6. Len(seq) \in G
  <2> HIDE DEF G
  <2>1. \A i \in 0 .. Len(seq) : i \in G
    BY <1>2, <1>4, <1>5, AppendFold!IntervalInduction
  <2>2. QED
    BY <1>2, <2>1
<1>7. [k \in 1 .. Len(seq) |-> seq[k]] = seq
  BY <1>2
<1>8. QED
  BY <1>1, <1>3, <1>6, <1>7, SameFolds

(* An order of a finite set has each of its elements once.                 *)
LEMMA OrdersEnumerate ==
  ASSUME NEW S, IsFiniteSet(S), NEW t \in SetToSeqs(S)
  PROVE  AppendFold!Enumerates(t, S) /\ Len(t) \in Nat
<1> DEFINE n == Cardinality(S)
<1>1. n \in Nat
  BY FS_CardinalityType
<1> HIDE DEF n
<1>2. t \in [1 .. n -> S] /\ \A i, j \in 1 .. n : i # j => t[i] # t[j]
  BY DEF SetToSeqs, n
<1>3. t \in Seq(S) /\ Len(t) = n /\ DOMAIN t = 1 .. n
  BY <1>1, <1>2
<1>4. t \in Injection(1 .. n, S)
  BY <1>2, <1>3 DEF Injection, IsInjective
<1>5. Cardinality(1 .. n) = n /\ IsFiniteSet(1 .. n)
  <2>1. Cardinality(1 .. n) = IF 1 > n THEN 0 ELSE n - 1 + 1
    BY <1>1, FS_Interval
  <2>2. IsFiniteSet(1 .. n)
    BY <1>1, FS_Interval
  <2>3. QED
    BY <1>1, <2>1, <2>2
<1>6. t \in Surjection(1 .. n, S)
  <2> DEFINE R == 1 .. n
  <2> HIDE DEF R
  <2>1. t \in Injection(R, S) /\ Cardinality(R) = Cardinality(S)
    BY <1>4, <1>5 DEF R, n
  <2>2. t \in Surjection(R, S)
    BY <2>1, FS_Injection
  <2>3. QED
    BY <2>2 DEF R
<1>7. QED
  BY <1>1, <1>2, <1>3, <1>6 DEF Surjection, AppendFold!Enumerates

(* The nets with pairs come first, fanins before their fanouts; every net  *)
(* is listed once.                                                         *)
LEMMA NetListFacts ==
  ASSUME first \in [Old -> Gol \union {None}], NEW live \in SUBSET Gate,
         NEW s \in NetLists(live)
  PROVE  /\ s \in Seq(Gate) /\ IsInjective(s) /\ Range(s) = live \union Paired
         /\ \A i, k \in 1 .. Len(s) :
              i < k /\ s[k] \in Paired => s[i] \in Paired /\ Level[s[i]] <= Level[s[k]]
<1>1. IsFiniteSet(Paired) /\ IsFiniteSet(live \ Paired) /\ Paired \subseteq Gate
  BY GateFinite, FS_Subset DEF Gate, Paired
<1>2. PICK t \in SetToSeqs(Paired) :
        /\ \A i, k \in 1 .. Len(t) : i < k => Level[t[i]] <= Level[t[k]]
        /\ s = t \o Listed(live \ Paired)
  BY DEF NetLists
<1>3. AppendFold!Enumerates(t, Paired) /\ Len(t) \in Nat
  BY <1>1, OrdersEnumerate
<1> DEFINE u == Listed(live \ Paired)
<1>4. AppendFold!Enumerates(u, live \ Paired)
  BY <1>1, ListedEnumerates
<1> HIDE DEF u
<1>5. /\ t \in Seq(Gate) /\ u \in Seq(Gate) /\ Len(t) \in Nat /\ Len(u) \in Nat
      /\ DOMAIN t = 1 .. Len(t) /\ DOMAIN u = 1 .. Len(u)
  BY <1>1, <1>3, <1>4 DEF AppendFold!Enumerates
<1>6. /\ s = t \o u /\ s \in Seq(Gate) /\ Len(s) = Len(t) + Len(u) /\ DOMAIN s = 1 .. Len(s)
      /\ \A i \in 1 .. Len(t) : s[i] = t[i] /\ i \in 1 .. Len(s)
      /\ \A i \in 1 .. Len(u) : s[Len(t) + i] = u[i] /\ Len(t) + i \in 1 .. Len(s)
  <2>1. s = t \o u
    BY <1>2 DEF u
  <2>2. s \in Seq(Gate) /\ Len(s) = Len(t) + Len(u) /\ DOMAIN s = 1 .. Len(s)
    BY <1>5, <2>1
  <2>3. \A i \in 1 .. Len(t) : s[i] = t[i] /\ i \in 1 .. Len(s)
    BY <1>5, <2>1, <2>2
  <2>4. \A i \in 1 .. Len(u) : s[Len(t) + i] = u[i] /\ Len(t) + i \in 1 .. Len(s)
    BY <1>5, <2>1, <2>2
  <2>5. QED
    BY <2>1, <2>2, <2>3, <2>4
<1>7. /\ \A i \in 1 .. Len(t) : t[i] \in Paired
      /\ \A i \in 1 .. Len(u) : u[i] \in live \ Paired
  BY <1>3, <1>4, <1>5 DEF AppendFold!Enumerates
<1>8. \A i \in 1 .. Len(s) : \/ i \in 1 .. Len(t)
                             \/ i - Len(t) \in 1 .. Len(u) /\ i = Len(t) + (i - Len(t))
  BY <1>5, <1>6
<1>9. \A i \in 1 .. Len(s) :
        \/ i \in 1 .. Len(t) /\ s[i] = t[i] /\ s[i] \in Paired
        \/ /\ i - Len(t) \in 1 .. Len(u) /\ s[i] = u[i - Len(t)] /\ i > Len(t)
           /\ s[i] \in live \ Paired
  BY <1>5, <1>6, <1>7, <1>8
<1>10. IsInjective(s)
  <2>1. SUFFICES ASSUME NEW i \in 1 .. Len(s), NEW k \in 1 .. Len(s), s[i] = s[k]
                 PROVE  i = k
    BY <1>6 DEF IsInjective
  <2>2. CASE s[i] \in Paired
    <3>1. i \in 1 .. Len(t) /\ k \in 1 .. Len(t) /\ t[i] = t[k]
      BY <1>9, <2>1, <2>2
    <3>2. QED
      BY <1>3, <1>5, <3>1 DEF AppendFold!Enumerates
  <2>3. CASE s[i] \notin Paired
    <3>1. /\ i - Len(t) \in 1 .. Len(u) /\ k - Len(t) \in 1 .. Len(u)
          /\ u[i - Len(t)] = u[k - Len(t)]
      BY <1>9, <2>1, <2>3
    <3>2. i - Len(t) = k - Len(t)
      BY <1>4, <1>5, <3>1 DEF AppendFold!Enumerates
    <3>3. QED
      BY <1>5, <1>6, <3>2
  <2>4. QED
    BY <2>2, <2>3
<1>11. Range(s) = live \union Paired
  <2>1. Range(s) \subseteq live \union Paired
    BY <1>6, <1>9 DEF Range
  <2>2. ASSUME NEW g \in live \union Paired PROVE g \in Range(s)
    <3>1. CASE g \in Paired
      <4>1. PICK i \in 1 .. Len(t) : t[i] = g
        BY <1>3, <1>5, <3>1 DEF AppendFold!Enumerates
      <4>2. QED
        BY <1>6, <4>1 DEF Range
    <3>2. CASE g \in live \ Paired
      <4>1. PICK i \in 1 .. Len(u) : u[i] = g
        BY <1>4, <1>5, <3>2 DEF AppendFold!Enumerates
      <4>2. QED
        BY <1>6, <4>1 DEF Range
    <3>3. QED
      BY <2>2, <3>1, <3>2
  <2>3. QED
    BY <2>1, <2>2
<1>12. ASSUME NEW i \in 1 .. Len(s), NEW k \in 1 .. Len(s), i < k, s[k] \in Paired
       PROVE  s[i] \in Paired /\ Level[s[i]] <= Level[s[k]]
  <2>1. k \in 1 .. Len(t) /\ s[k] = t[k]
    BY <1>9, <1>12
  <2>2. i \in 1 .. Len(t)
    BY <1>5, <1>6, <1>12, <2>1
  <2>3. QED
    BY <1>2, <1>7, <1>6, <1>12, <2>1, <2>2
<1>13. QED
  BY <1>6, <1>10, <1>11, <1>12

-----------------------------------------------------------------------------
(* The nets that a list of pins reads by pairs.                            *)

(* induceAllOutputs: the nets a list of pins reads by pairs, one for each  *)
(* pin with a pair.                                                        *)
LEMMA PairedNetsFacts ==
  ASSUME NEW pins \in Seq(Pins)
  PROVE  /\ PairedNets(pins) \in Seq(Gate)
         /\ \A g \in Range(PairedNets(pins)) :
              \E i \in 1 .. Len(pins) : rec[pins[i]] # None /\ Reads(pins[i]) = g
         /\ PairedNets(pins) = << >> => \A i \in 1 .. Len(pins) : rec[pins[i]] = None
<1> DEFINE Nets == {Reads(pins[i]) : i \in {k \in 1 .. Len(pins) : rec[pins[k]] # None}}
<1>1. PairedNets(pins) \in Seq(Nets)
  <2>1. \A nets \in Seq(Nets) : \A i \in 1 .. Len(pins) : PairedNet(nets, pins[i]) \in Seq(Nets)
    BY DEF PairedNet
  <2>2. << >> \in Seq(Nets)
    OBVIOUS
  <2> HIDE DEF Nets
  <2>3. FoldLeft(PairedNet, << >>, pins) \in Seq(Nets)
    <3> DEFINE SeqNets == Seq(Nets)
    <3> HIDE DEF SeqNets
    <3>1. << >> \in SeqNets /\ \A a \in SeqNets : \A i \in 1 .. Len(pins) : PairedNet(a, pins[i]) \in SeqNets
      BY <2>1, <2>2 DEF SeqNets
    <3>2. PairedFold!LeftFold(<< >>, pins) \in SeqNets
      BY <3>1, PairedFold!FoldLeftPreserves
    <3>3. QED
      BY <3>2, SameFolds DEF SeqNets
  <2>4. QED
    BY <2>3 DEF PairedNets
<1>2. Nets \subseteq Gate
  <2>1. \A i \in 1 .. Len(pins) : pins[i] \in Pins
    OBVIOUS
  <2>2. QED
    BY <2>1, PinFacts
<1>3. \A g \in Range(PairedNets(pins)) : g \in Nets
  <2> HIDE DEF Nets
  <2>1. QED
    BY <1>1 DEF Range
<1>4. ASSUME PairedNets(pins) = << >>, NEW k \in 1 .. Len(pins), rec[pins[k]] # None PROVE FALSE
  <2>1. PICK acc : /\ PairedFold!Traces(acc, << >>, pins)
                   /\ FoldLeft(PairedNet, << >>, pins) = acc[Len(pins)]
    BY SameFolds, PairedFold!FoldLeftTrace
  <2> DEFINE G == {i \in 0 .. Len(pins) : /\ acc[i] \in Seq(Gate)
                                          /\ k <= i => acc[i] # << >>}
  <2>2. Len(pins) \in Nat /\ k \in Nat /\ k > 0
    OBVIOUS
  <2>3. 0 \in G
    <3>1. acc[0] = << >> /\ << >> \in Seq(Gate)
      BY <2>1 DEF PairedFold!Traces
    <3>2. 0 \in 0 .. Len(pins) /\ ~(k <= 0)
      BY <2>2
    <3>3. QED
      BY <3>1, <3>2
  <2>4. ASSUME NEW i \in 1 .. Len(pins), i - 1 \in G PROVE i \in G
    <3>1. acc[i] = IF rec[pins[i]] # None THEN Append(acc[i - 1], Reads(pins[i])) ELSE acc[i - 1]
      BY <2>1 DEF PairedFold!Traces, PairedNet
    <3>2. acc[i - 1] \in Seq(Gate) /\ (k <= i - 1 => acc[i - 1] # << >>)
      BY <2>4
    <3>3. Reads(pins[i]) \in Gate
      <4>1. pins[i] \in Pins
        OBVIOUS
      <4>2. QED
        BY <4>1, PinFacts
    <3>4. CASE rec[pins[i]] # None
      <4>1. acc[i] \in Seq(Gate) /\ acc[i] # << >>
        BY <3>1, <3>2, <3>3, <3>4
      <4>2. QED
        BY <2>2, <4>1
    <3>5. CASE rec[pins[i]] = None
      <4>1. acc[i] = acc[i - 1] /\ k # i
        BY <1>4, <3>1, <3>5
      <4>2. k <= i => k <= i - 1
        BY <2>2, <4>1
      <4>3. QED
        BY <2>2, <3>2, <4>1, <4>2
    <3>6. QED
      BY <3>4, <3>5
  <2>5. Len(pins) \in G
    <3> HIDE DEF G
    <3>1. \A i \in 0 .. Len(pins) : i \in G
      BY <2>2, <2>3, <2>4, PairedFold!IntervalInduction
    <3>2. QED
      BY <2>2, <3>1
  <2>6. QED
    BY <1>4, <2>1, <2>2, <2>5 DEF PairedNets
<1>5. PairedNets(pins) \in Seq(Gate)
  <2> HIDE DEF Nets
  <2>1. QED
    BY <1>1, <1>2
<1>6. QED
  BY <1>3, <1>4, <1>5

-----------------------------------------------------------------------------
(* The inductive invariant.                                                *)

(* The gates that decidePatchType has been called for.                     *)
Done == (Now \union Paired) \ Range(netList)

(* The pairs and the first pair of each net are those of the selection.    *)
PairsOK ==
  /\ \A p \in Pins : rec[p] \in RecsOf[p] \union {None}
  /\ \A g \in Old : IF PairsOf(rec, g) = {} THEN first[g] = None ELSE first[g] \in PairsOf(rec, g)

(* The stamps are those of the gates not floating, whose inputs are used.  *)
LiveOK ==
  IF pc = "floating" THEN Now = {}
  ELSE /\ Now = NotFloating
       /\ {Mapped[c] : c \in MappedOn(Now)} \intersect Old \subseteq used

(* The nets still to be decided: fanins before fanouts among those with    *)
(* pairs, and nothing on the patch's lists that is not decided.            *)
ListOK ==
  /\ \A i, k \in 1 .. Len(netList) :
       i < k /\ netList[k] \in Paired => netList[i] \in Paired /\ Level[netList[i]] <= Level[netList[k]]
  /\ pc \in {"outputs", "induced"} => Range(netList) = Now \union Paired
  /\ pc # "floating" =>
       /\ Range(netList) \subseteq Now \union Paired
       /\ \A g \in Range(netList) \intersect Paired, f \in Done : f \in Paired /\ Level[f] <= Level[g]
       /\ Range(outputs) \union Range(wires) \subseteq Done
  /\ pc \notin {"outputs", "induced", "decide"} => netList = <<>>

(* No golden gate is marked, no constant is rebuilt, marks and targets     *)
(* appear in the phase that sets them, and only nets with pairs are ALLs.  *)
MarksOK ==
  /\ \A g \in Gol : mark[g] = "none"
  /\ \A g \in Const : mark[g] # "PAR"
  /\ pc # "induced" => queue = <<>>
  /\ pc \in {"floating", "outputs", "induced"} =>
       outputs = <<>> /\ wires = <<>> /\ \A g \in Gate : mark[g] # "PAR"
  /\ pc \in {"floating", "outputs"} => \A g \in Gate : mark[g] = "none"
  /\ \A g \in Old : allTo[g] # None => allTo[g] \in PairsOf(rec, g)
  /\ \A g \in Old : mark[g] = "ALL" \/ g \in Range(queue) => g \in Paired

(* A rebuilt gate is an output of the patch, and what it reads is          *)
(* declared.                                                               *)
Rebuilt(f) ==
  /\ f \in Range(outputs)
  /\ \A p \in PinsOf(f) :
       IF rec[p] = None THEN mark[Reads(p)] # "PAR" => Reads(p) \in inputs \union Const
                        ELSE Mapped[rec[p]] \in Old => Mapped[rec[p]] \in inputs \union Const

(* The live fanouts of g that are not rebuilt all read it by its target,   *)
(* or all read it as it was.                                               *)
Told(g) ==
  \A f \in Fanouts(g) \intersect Now :
    mark[f] # "PAR" => RecPairFanin(f, g) = IF Replaced(g) THEN allTo[g] ELSE None

(* What has been settled for the gates already decided.                    *)
DoneOK ==
  pc # "floating" =>
    /\ Done \intersect Gol \subseteq Range(wires)
    /\ \A f \in Done : mark[f] = "PAR" => Rebuilt(f)
    /\ \A g \in Done : Replaced(g) => g \in Range(outputs)
    /\ \A g \in Range(outputs) : mark[g] # "none"
    /\ \A g \in Done \intersect Paired : Told(g)

(* What holds when the patch is written, reset or crashes.                 *)
EndOK ==
  /\ pc \in {"gates", "written"} => used \subseteq inputs \union Const /\ inputs \intersect Const = {}
  /\ Written => \A g \in Range(outputs) \union Range(wires) : GateNamed(g)
  /\ pc = "crash" => \E g \in Old : mark[g] = "ALL" /\ allTo[g] = None
  /\ ResetWhenFloating

IInv == TypeOK /\ PairsOK /\ LiveOK /\ ListOK /\ MarksOK /\ DoneOK /\ EndOK

-----------------------------------------------------------------------------

(* A pair is on a pin between two old gates, and its net has a first pair. *)
LEMMA PairFacts ==
  ASSUME TypeOK, PairsOK, NEW p \in Pins, rec[p] # None
  PROVE  /\ p[1] \in Old /\ rec[p] \in Gol /\ Reads(p) \in Old
         /\ rec[p] \in PairsOf(rec, Reads(p)) /\ Reads(p) \in Paired
<1>1. rec[p] \in RecsOf[p]
  BY DEF PairsOK
<1>2. p[1] \in Old /\ rec[p] \in Gol
  BY <1>1, PinFacts, PatchMarksAssumption DEF Gate
<1>3. Reads(p) \in Old
  BY <1>2, PinFacts
<1>4. rec[p] \in PairsOf(rec, Reads(p))
  BY DEF PairsOf, FanoutPins
<1>5. first[Reads(p)] \in PairsOf(rec, Reads(p))
  BY <1>3, <1>4 DEF PairsOK
<1>6. first[Reads(p)] # None
  BY <1>5 DEF PairsOf
<1>7. QED
  BY <1>2, <1>3, <1>4, <1>6 DEF Paired

(* The pairs never change, nor does what is read off them alone.           *)
LEMMA SamePairs ==
  ASSUME rec' = rec, first' = first
  PROVE  /\ Paired' = Paired
         /\ PairsOK => PairsOK'
         /\ \A f, g : RecPairFanin(f, g)' = RecPairFanin(f, g)
         /\ \A g : PairsOf(rec, g)' = PairsOf(rec, g)
         /\ NotFloating' = NotFloating
         /\ \A S : MappedOn(S)' = MappedOn(S)
<1>1. Paired' = Paired
  BY DEF Paired
<1>2. PairsOK => PairsOK'
  BY DEF PairsOK, PairsOf
<1>3. ASSUME NEW f, NEW g PROVE RecPairFanin(f, g)' = RecPairFanin(f, g)
  BY DEF RecPairFanin
<1>4. NotFloating' = NotFloating
  BY DEF NotFloating, FoldLeft, MapThenFoldSet, Reach, Source
<1>5. ASSUME NEW S PROVE MappedOn(S)' = MappedOn(S)
  BY DEF MappedOn
<1>6. ASSUME NEW g PROVE PairsOf(rec, g)' = PairsOf(rec, g)
  BY DEF PairsOf
<1>7. QED
  BY <1>1, <1>2, <1>3, <1>4, <1>5, <1>6

(* After markFloatingGates the pairs and what is not floating stay.        *)
LEMMA SameLive ==
  ASSUME IInv, rec' = rec, first' = first, stamp' = stamp, used \subseteq used',
         pc # "floating", pc' # "floating"
  PROVE  /\ Paired' = Paired /\ Now' = Now /\ PairsOK' /\ LiveOK'
         /\ \A f, g : RecPairFanin(f, g)' = RecPairFanin(f, g)
         /\ \A g : PairsOf(rec, g)' = PairsOf(rec, g)
<1>1. TypeOK /\ PairsOK /\ LiveOK
  BY DEF IInv
<1>2. Paired' = Paired /\ PairsOK' /\ NotFloating' = NotFloating /\ Now' = Now
      /\ (\A f, g : RecPairFanin(f, g)' = RecPairFanin(f, g))
      /\ (\A g : PairsOf(rec, g)' = PairsOf(rec, g))
  BY <1>1, SamePairs DEF Now
<1>3. MappedOn(Now)' = MappedOn(Now)
  BY <1>2 DEF MappedOn
<1>4. LiveOK'
  BY <1>1, <1>2, <1>3 DEF LiveOK
<1>5. QED
  BY <1>2, <1>4

(* The initial states satisfy the invariant.                               *)
LEMMA InitIInv == Init => IInv
<1> SUFFICES ASSUME Init PROVE IInv
  OBVIOUS
<1>1. PairsOK /\ rec \in [Pins -> Gol \union {None}] /\ first \in [Old -> Gol \union {None}]
  <2>1. PICK r \in [{p \in Pins : RecsOf[p] # {}} -> Gol \union {None}] :
          /\ \A p \in DOMAIN r : r[p] \in RecsOf[p] \union {None}
          /\ rec = [p \in Pins |-> IF p \in DOMAIN r THEN r[p] ELSE None]
    BY DEF Init
  <2>2. PICK f \in [{g \in Old : PairsOf(rec, g) # {}} -> Gol] :
          /\ \A g \in DOMAIN f : f[g] \in PairsOf(rec, g)
          /\ first = [g \in Old |-> IF g \in DOMAIN f THEN f[g] ELSE None]
    BY DEF Init
  <2>3. /\ rec \in [Pins -> Gol \union {None}]
        /\ \A p \in Pins : rec[p] \in RecsOf[p] \union {None}
    BY <2>1
  <2>4. /\ first \in [Old -> Gol \union {None}]
        /\ \A g \in Old : IF PairsOf(rec, g) = {} THEN first[g] = None
                                                ELSE first[g] \in PairsOf(rec, g)
    BY <2>2
  <2>5. QED
    BY <2>3, <2>4 DEF PairsOK
<1>2. /\ mark = [g \in Gate |-> "none"] /\ allTo = [g \in Old |-> None] /\ queue = << >>
      /\ netList = << >> /\ used = {} /\ inputs = {} /\ outputs = << >> /\ wires = << >>
      /\ clash = {} /\ pc = "floating"
  BY DEF Init
<1>3. stamp \in [Gate -> {"never", "old"}]
  BY DEF Init
<1>4. Range(<< >>) = {} /\ IsInjective(<< >>) /\ Len(<< >>) = 0
  BY DEF Range, IsInjective
<1>5. TypeOK
  BY <1>1, <1>2, <1>3, <1>4 DEF TypeOK
<1>6. LiveOK
  BY <1>2, <1>3 DEF LiveOK, Now
<1>7. ListOK
  BY <1>2, <1>4 DEF ListOK
<1>8. MarksOK
  BY <1>2, <1>4, PatchMarksAssumption DEF MarksOK, Gate
<1>9. DoneOK /\ EndOK
  BY <1>2 DEF DoneOK, EndOK, Written, ResetWhenFloating
<1>10. QED
  BY <1>1, <1>5, <1>6, <1>7, <1>8, <1>9 DEF IInv

(* markFloatingGates preserves it: it fills the list of nets.              *)
LEMMA FloatingIInv == IInv /\ MarkFloatingGates => IInv'
<1> SUFFICES ASSUME IInv, MarkFloatingGates PROVE IInv'
  OBVIOUS
<1> USE DEF pairs, lists
<1>1. /\ pc = "floating" /\ pc' = "outputs" /\ rec' = rec /\ first' = first
      /\ mark' = mark /\ allTo' = allTo /\ queue' = queue /\ clash' = clash
      /\ inputs' = inputs /\ outputs' = outputs /\ wires' = wires
      /\ stamp' = [g \in Gate |-> IF g \in NotFloating THEN "now" ELSE stamp[g]]
      /\ netList' \in NetLists(NotFloating)
      /\ used' = {Mapped[c] : c \in MappedOn(NotFloating)} \intersect Old
  BY DEF MarkFloatingGates
<1>2. TypeOK /\ PairsOK /\ LiveOK /\ ListOK /\ MarksOK
  BY DEF IInv
<1>3. NotFloating \subseteq Gate
  BY <1>2, NotFloatingClosed DEF TypeOK
<1>4. Now = {} /\ Now' = NotFloating
  BY <1>1, <1>2, <1>3 DEF LiveOK, Now
<1>5. Paired' = Paired /\ PairsOK' /\ NotFloating' = NotFloating
      /\ \A S : MappedOn(S)' = MappedOn(S)
  BY <1>1, <1>2, SamePairs
<1>6. first \in [Old -> Gol \union {None}]
  BY <1>2 DEF TypeOK
<1>7. /\ netList' \in Seq(Gate) /\ IsInjective(netList') /\ Range(netList') = NotFloating \union Paired
      /\ \A i, k \in 1 .. Len(netList') :
           i < k /\ netList'[k] \in Paired
             => netList'[i] \in Paired /\ Level[netList'[i]] <= Level[netList'[k]]
  <2> DEFINE live == NotFloating
  <2>1. live \in SUBSET Gate /\ netList' \in NetLists(live)
    BY <1>1, <1>3
  <2> HIDE DEF live
  <2>2. /\ netList' \in Seq(Gate) /\ IsInjective(netList') /\ Range(netList') = live \union Paired
        /\ \A i, k \in 1 .. Len(netList') :
             i < k /\ netList'[k] \in Paired
               => netList'[i] \in Paired /\ Level[netList'[i]] <= Level[netList'[k]]
    BY <1>6, <2>1, NetListFacts
  <2>3. QED
    BY <2>2 DEF live
<1>8. Done' = {}
  BY <1>4, <1>5, <1>7 DEF Done
<1>9. TypeOK'
  <2>1. stamp' \in [Gate -> {"never", "old", "now"}]
    BY <1>1, <1>2 DEF TypeOK
  <2>2. used' \subseteq Old
    BY <1>1
  <2>3. QED
    BY <1>1, <1>2, <1>7, <2>1, <2>2 DEF TypeOK
<1>10. LiveOK'
  <2>1. MappedOn(NotFloating)' = MappedOn(NotFloating)
    BY <1>1, <1>5 DEF MappedOn
  <2>2. {Mapped[c] : c \in MappedOn(Now)'} \intersect Old \subseteq used'
    <3>1. MappedOn(Now)' = MappedOn(NotFloating)
      BY <1>1, <1>4 DEF MappedOn
    <3>2. QED
      BY <1>1, <3>1
  <2>3. QED
    BY <1>1, <1>4, <1>5, <2>2 DEF LiveOK
<1>11. /\ mark \in [Gate -> {"none"}] /\ outputs = << >> /\ wires = << >> /\ queue = << >>
  BY <1>1, <1>2 DEF MarksOK, TypeOK
<1>12. Range(<< >>) = {}
  BY DEF Range
<1>13. ListOK'
  BY <1>1, <1>4, <1>5, <1>7, <1>8, <1>11, <1>12 DEF ListOK
<1>14. MarksOK'
  <2>1. \A g : PairsOf(rec, g)' = PairsOf(rec, g)
    BY <1>1, SamePairs
  <2>2. QED
    BY <1>1, <1>2, <1>5, <1>11, <2>1 DEF MarksOK
<1>15. DoneOK' /\ EndOK'
  BY <1>1, <1>8, <1>11, <1>12 DEF DoneOK, EndOK, Written, ResetWhenFloating
<1>16. QED
  BY <1>5, <1>9, <1>10, <1>13, <1>14, <1>15 DEF IInv

(* The pins of the output dummies are pins.                                *)
LEMMA OutputPinsType == OutputPins \in Seq(Pins) /\ \A p \in Range(OutputPins) : p \in Pins
<1>1. POs \in Seq(Old) /\ \A k \in 1 .. Len(POs) : POs[k] \in Old /\ Len(Fanin[POs[k]]) = 1
  BY PatchMarksAssumption DEF Range
<1>2. \A k \in 1 .. Len(POs) : <<POs[k], 1>> \in Pins
  <2>1. SUFFICES ASSUME NEW k \in 1 .. Len(POs) PROVE <<POs[k], 1>> \in Pins
    OBVIOUS
  <2>2. POs[k] \in Gate /\ 1 \in 1 .. Len(Fanin[POs[k]])
    <3>1. 1 \in 1 .. 1
      OBVIOUS
    <3>2. QED
      BY <1>1, <3>1 DEF Gate
  <2>3. QED
    BY <2>2, PinOf
<1>3. OutputPins \in Seq(Pins)
  BY <1>1, <1>2 DEF OutputPins
<1>4. QED
  BY <1>3 DEF Range

(* The pins of a gate, in order.                                           *)
LEMMA GatePinsType ==
  ASSUME NEW g \in Gate
  PROVE  /\ GatePins(g) \in Seq(Pins) /\ Len(GatePins(g)) = Len(Fanin[g])
         /\ \A i \in 1 .. Len(Fanin[g]) : GatePins(g)[i] = <<g, i>> /\ <<g, i>> \in Pins
<1>1. Len(Fanin[g]) \in Nat
  BY PatchMarksAssumption DEF Gate
<1>2. \A i \in 1 .. Len(Fanin[g]) : <<g, i>> \in Pins
  BY PinOf
<1>3. QED
  BY <1>1, <1>2 DEF GatePins

(* The nets that are queued are read by pairs.                             *)
LEMMA QueuedType ==
  ASSUME TypeOK, PairsOK, NEW pins \in Seq(Pins)
  PROVE  /\ PairedNets(pins) \in Seq(Old)
         /\ \A g \in Range(PairedNets(pins)) :
              /\ g \in Paired
              /\ \E i \in 1 .. Len(pins) : rec[pins[i]] # None /\ Reads(pins[i]) = g
<1> DEFINE nets == PairedNets(pins)
<1>1. /\ nets \in Seq(Gate)
      /\ \A g \in Range(nets) : \E i \in 1 .. Len(pins) : rec[pins[i]] # None /\ Reads(pins[i]) = g
  BY PairedNetsFacts
<1>2. \A i \in 1 .. Len(pins) : pins[i] \in Pins
  OBVIOUS
<1> HIDE DEF nets
<1>3. \A g \in Range(nets) : g \in Paired /\ g \in Old
  BY <1>1, <1>2, PairFacts
<1>4. nets \in Seq(Old)
  BY <1>1, <1>3 DEF Range
<1>5. QED
  BY <1>1, <1>3, <1>4 DEF nets

(* Marking the nets of the outputs preserves the invariant.                *)
LEMMA OutputsIInv == IInv /\ MarkOutputs => IInv'
<1> SUFFICES ASSUME IInv, MarkOutputs PROVE IInv'
  OBVIOUS
<1> USE DEF pairs, lists
<1>1. /\ pc = "outputs" /\ pc' = "induced" /\ rec' = rec /\ first' = first
      /\ mark' = mark /\ clash' = clash /\ netList' = netList /\ stamp' = stamp /\ used' = used
      /\ inputs' = inputs /\ outputs' = outputs /\ wires' = wires
      /\ queue' = PairedNets(OutputPins)
      /\ allTo' = [g \in Old |-> IF OutputPairs(g) # {}
                                 THEN rec[CHOOSE p \in OutputPairs(g) : TRUE] ELSE allTo[g]]
  BY DEF MarkOutputs
<1>2. TypeOK /\ PairsOK /\ LiveOK /\ ListOK /\ MarksOK
  BY DEF IInv
<1>3. /\ Paired' = Paired /\ Now' = Now /\ Done' = Done /\ PairsOK' /\ LiveOK'
      /\ \A g : PairsOf(rec, g)' = PairsOf(rec, g)
  BY <1>1, SameLive DEF Done
<1>4. queue' \in Seq(Old) /\ \A g \in Range(queue') : g \in Paired
  BY <1>1, <1>2, QueuedType, OutputPinsType
<1>5. \A g \in Old : OutputPairs(g) # {} => allTo'[g] \in PairsOf(rec, g) /\ allTo'[g] \in Gol
  <2>1. SUFFICES ASSUME NEW g \in Old, OutputPairs(g) # {}
                 PROVE  allTo'[g] \in PairsOf(rec, g) /\ allTo'[g] \in Gol
    OBVIOUS
  <2>2. PICK p \in OutputPairs(g) : allTo'[g] = rec[p]
    BY <1>1, <2>1
  <2>3. p \in Pins /\ Reads(p) = g /\ rec[p] # None
    BY <2>2, OutputPinsType DEF OutputPairs
  <2>4. QED
    BY <1>2, <2>2, <2>3, PairFacts
<1>6. allTo' \in [Old -> Gol \union {None}]
  BY <1>1, <1>2, <1>5 DEF TypeOK
<1>7. TypeOK'
  BY <1>1, <1>2, <1>4, <1>6 DEF TypeOK
<1>8. ListOK'
  BY <1>1, <1>2, <1>3 DEF ListOK
<1>9. MarksOK'
  <2>1. \A g \in Old : allTo'[g] # None => allTo'[g] \in PairsOf(rec, g)
    BY <1>1, <1>2, <1>5 DEF MarksOK
  <2>2. \A g \in Gate : mark[g] = "none"
    BY <1>1, <1>2 DEF MarksOK
  <2>3. \A g \in Old : mark[g] # "ALL"
    BY <2>2 DEF Gate
  <2>4. QED
    BY <1>1, <1>2, <1>3, <1>4, <2>1, <2>2, <2>3 DEF MarksOK
<1>10. Done = {} /\ Range(outputs) = {}
  BY <1>1, <1>2 DEF ListOK, Done
<1>11. DoneOK' /\ EndOK'
  BY <1>1, <1>3, <1>10 DEF DoneOK, EndOK, Written, ResetWhenFloating
<1>12. QED
  BY <1>3, <1>7, <1>8, <1>9, <1>11 DEF IInv

(* So does the end of the marking.                                         *)
LEMMA EndInduceIInv == IInv /\ EndInduce => IInv'
<1> SUFFICES ASSUME IInv, EndInduce PROVE IInv'
  OBVIOUS
<1> USE DEF pairs, lists
<1>1. /\ pc = "induced" /\ pc' = "decide" /\ queue = << >> /\ rec' = rec /\ first' = first
      /\ mark' = mark /\ clash' = clash /\ netList' = netList /\ stamp' = stamp /\ used' = used
      /\ inputs' = inputs /\ outputs' = outputs /\ wires' = wires /\ queue' = queue
      /\ allTo' = allTo
  BY DEF EndInduce
<1>2. TypeOK /\ PairsOK /\ LiveOK /\ ListOK /\ MarksOK
  BY DEF IInv
<1>3. /\ Paired' = Paired /\ Now' = Now /\ Done' = Done /\ PairsOK' /\ LiveOK'
      /\ \A g : PairsOf(rec, g)' = PairsOf(rec, g)
  BY <1>1, SameLive DEF Done
<1>4. TypeOK'
  BY <1>1, <1>2 DEF TypeOK
<1>5. ListOK'
  BY <1>1, <1>2, <1>3 DEF ListOK
<1>6. MarksOK'
  BY <1>1, <1>2, <1>3 DEF MarksOK
<1>7. Done = {} /\ Range(outputs) = {}
  BY <1>1, <1>2 DEF ListOK, Done
<1>8. DoneOK' /\ EndOK'
  BY <1>1, <1>3, <1>7 DEF DoneOK, EndOK, Written, ResetWhenFloating
<1>9. QED
  BY <1>3, <1>4, <1>5, <1>6, <1>8 DEF IInv

(* The last pin of g that reads h.                                         *)
LEMMA LastPin ==
  ASSUME NEW g \in Gate, NEW h \in Range(Fanin[g])
  PROVE  \E p \in PinsOf(g) : Reads(p) = h /\ \A q \in PinsOf(g) : Reads(q) = h => q[2] <= p[2]
<1> DEFINE I == {i \in 1 .. Len(Fanin[g]) : Fanin[g][i] = h}
<1>1. Len(Fanin[g]) \in Nat /\ DOMAIN Fanin[g] = 1 .. Len(Fanin[g])
  BY PatchMarksAssumption DEF Gate
<1>2. IsFiniteSet(1 .. Len(Fanin[g]))
  BY <1>1, FS_Interval
<1>3. I \in SUBSET Int /\ IsFiniteSet(I) /\ I # {}
  BY <1>1, <1>2, FS_Subset DEF Range
<1> HIDE DEF I
<1>4. PICK n \in I : \A i \in I : n >= i
  BY <1>3, PairedFold!MaxExists, SameFolds
<1>5. n \in 1 .. Len(Fanin[g]) /\ Fanin[g][n] = h
  BY <1>4 DEF I
<1>6. <<g, n>> \in PinsOf(g) /\ Reads(<<g, n>>) = h
  BY <1>5, PinOf DEF PinsOf, Reads
<1>7. ASSUME NEW q \in PinsOf(g), Reads(q) = h PROVE q[2] <= n
  <2>1. q \in Pins /\ q[1] = g /\ q[2] \in 1 .. Len(Fanin[g])
    BY PinFacts DEF PinsOf
  <2>2. q[2] \in I
    BY <1>7, <2>1 DEF I, Reads
  <2>3. q[2] \in Int /\ n \in Int
    BY <1>1, <1>5, <2>1
  <2>4. QED
    BY <1>4, <2>2, <2>3
<1>8. QED
  BY <1>6, <1>7

(* The target that an ALL gate takes for a net is the pair on one of its   *)
(* pins that read the net.                                                 *)
LEMMA TargetsFacts ==
  ASSUME TypeOK, PairsOK, NEW g \in Old
  PROVE  /\ DOMAIN Targets(g) = Range(Fanin[g]) /\ Range(Fanin[g]) \subseteq Old
         /\ \A h \in Range(Fanin[g]) :
              /\ \E p \in PinsOf(g) : Reads(p) = h /\ Targets(g)[h] = rec[p]
              /\ Targets(g)[h] \in Gol \union {None}
              /\ Targets(g)[h] # None => Targets(g)[h] \in PairsOf(rec, h)
<1>1. g \in Gate /\ Range(Fanin[g]) \subseteq Old
  BY PatchMarksAssumption DEF Gate, Range
<1>2. ASSUME NEW h \in Range(Fanin[g])
      PROVE  \E p \in PinsOf(g) : Reads(p) = h /\ Targets(g)[h] = rec[p]
  BY <1>1, LastPin DEF Targets
<1>3. DOMAIN Targets(g) = Range(Fanin[g])
  BY DEF Targets
<1>4. ASSUME NEW h \in Range(Fanin[g])
      PROVE  /\ Targets(g)[h] \in Gol \union {None}
             /\ Targets(g)[h] # None => Targets(g)[h] \in PairsOf(rec, h)
  BY <1>2, <1>4, PairFacts DEF PinsOf, TypeOK
<1>5. QED
  BY <1>1, <1>2, <1>3, <1>4

(* What a step of the marking of ALLs does, spelled out.                   *)
LEMMA InduceFacts ==
  ASSUME IInv, InduceAll
  PROVE  LET g == Head(queue)
             paired == PairedNets(GatePins(g))
             target == Targets(g)
         IN /\ g \in Old /\ g \in Range(queue) /\ g \in Gate
            /\ mark' = [mark EXCEPT ![g] = "ALL"]
            /\ queue' \in Seq(Old) /\ Range(queue') \subseteq Range(queue) \union Range(paired)
            /\ \A h \in Range(paired) : h \in Paired
            /\ \/ /\ allTo' = [h \in Old |-> IF h \in DOMAIN target THEN target[h] ELSE allTo[h]]
                  /\ clash' = clash \union
                       {h \in DOMAIN target :
                          (mark[h] = "ALL" \/ h \in Range(queue)) /\ target[h] # allTo[h]}
               \/ paired = << >> /\ allTo' = allTo /\ clash' = clash
            /\ pc = "induced" /\ pc' = "induced" /\ rec' = rec /\ first' = first
            /\ stamp' = stamp /\ netList' = netList /\ used' = used
            /\ inputs' = inputs /\ outputs' = outputs /\ wires' = wires
<1> DEFINE g == Head(queue)
<1> DEFINE paired == PairedNets(GatePins(g))
<1> DEFINE target == Targets(g)
<1>1. TypeOK /\ PairsOK
  BY DEF IInv
<1>2. queue \in Seq(Old) /\ queue # << >>
  BY <1>1 DEF TypeOK, InduceAll
<1>3. g \in Old /\ g \in Range(queue) /\ g \in Gate
  BY <1>2 DEF Range, Gate
<1>4. paired \in Seq(Old) /\ \A h \in Range(paired) : h \in Paired
  BY <1>1, <1>3, GatePinsType, QueuedType
<1>5. /\ pc = "induced" /\ pc' = "induced" /\ rec' = rec /\ first' = first
      /\ stamp' = stamp /\ netList' = netList /\ used' = used
      /\ inputs' = inputs /\ outputs' = outputs /\ wires' = wires
      /\ mark' = [mark EXCEPT ![g] = "ALL"]
      /\ queue' = Tail(queue) \o paired
      /\ \/ /\ allTo' = [h \in Old |-> IF h \in DOMAIN target THEN target[h] ELSE allTo[h]]
            /\ clash' = clash \union
                 {h \in DOMAIN target :
                    (mark[h] = "ALL" \/ h \in Range(queue)) /\ target[h] # allTo[h]}
         \/ paired = << >> /\ allTo' = allTo /\ clash' = clash
  BY DEF InduceAll, pairs, lists
<1> HIDE DEF g, paired, target
<1>6. queue' \in Seq(Old) /\ Range(queue') \subseteq Range(queue) \union Range(paired)
  <2> DEFINE t == Tail(queue)
  <2>1. t \in Seq(Old) /\ Len(t) \in Nat /\ \A i \in 1 .. Len(t) : t[i] \in Range(queue)
    BY <1>2 DEF Range
  <2> HIDE DEF t
  <2>2. paired \in Seq(Old) /\ Len(paired) \in Nat
    BY <1>4
  <2>3. queue' = t \o paired
    BY <1>5 DEF t
  <2>4. queue' \in Seq(Old) /\ Len(queue') = Len(t) + Len(paired)
    BY <2>1, <2>2, <2>3
  <2>5. ASSUME NEW i \in 1 .. Len(queue') PROVE queue'[i] \in Range(queue) \union Range(paired)
    <3>1. CASE i \in 1 .. Len(t)
      BY <2>1, <2>2, <2>3, <3>1
    <3>2. CASE i \notin 1 .. Len(t)
      <4>1. i - Len(t) \in 1 .. Len(paired) /\ queue'[i] = paired[i - Len(t)]
        BY <2>1, <2>2, <2>3, <2>4, <3>2
      <4>2. QED
        BY <2>2, <4>1 DEF Range
    <3>3. QED
      BY <3>1, <3>2
  <2>6. QED
    BY <2>4, <2>5 DEF Range
<1>7. QED
  BY <1>3, <1>4, <1>5, <1>6 DEF g, paired, target

(* A step of the marking of ALLs preserves the invariant.                  *)
LEMMA InduceIInv == IInv /\ InduceAll => IInv'
<1> SUFFICES ASSUME IInv, InduceAll PROVE IInv'
  OBVIOUS
<1> DEFINE g == Head(queue)
<1> DEFINE paired == PairedNets(GatePins(g))
<1> DEFINE target == Targets(g)
<1>1. /\ g \in Old /\ g \in Range(queue) /\ g \in Gate
      /\ mark' = [mark EXCEPT ![g] = "ALL"]
      /\ queue' \in Seq(Old) /\ Range(queue') \subseteq Range(queue) \union Range(paired)
      /\ \A h \in Range(paired) : h \in Paired
      /\ \/ /\ allTo' = [h \in Old |-> IF h \in DOMAIN target THEN target[h] ELSE allTo[h]]
            /\ clash' = clash \union
                 {h \in DOMAIN target :
                    (mark[h] = "ALL" \/ h \in Range(queue)) /\ target[h] # allTo[h]}
         \/ paired = << >> /\ allTo' = allTo /\ clash' = clash
      /\ pc = "induced" /\ pc' = "induced" /\ rec' = rec /\ first' = first
      /\ stamp' = stamp /\ netList' = netList /\ used' = used
      /\ inputs' = inputs /\ outputs' = outputs /\ wires' = wires
  BY InduceFacts
<1>2. TypeOK /\ PairsOK /\ LiveOK /\ ListOK /\ MarksOK
  BY DEF IInv
<1>3. /\ Paired' = Paired /\ Now' = Now /\ Done' = Done /\ PairsOK' /\ LiveOK'
      /\ \A h : PairsOf(rec, h)' = PairsOf(rec, h)
  BY <1>1, SameLive DEF Done
<1>4. /\ DOMAIN target \subseteq Old
      /\ \A h \in DOMAIN target : /\ target[h] \in Gol \union {None}
                                  /\ target[h] # None => target[h] \in PairsOf(rec, h)
  BY <1>1, <1>2, TargetsFacts
<1> HIDE DEF g, paired, target
<1>5. /\ allTo' \in [Old -> Gol \union {None}] /\ clash' \subseteq Old
      /\ \A h \in Old : allTo'[h] # None => allTo'[h] \in PairsOf(rec, h)
  <2>1. CASE allTo' = allTo /\ clash' = clash
    BY <1>2, <2>1 DEF TypeOK, MarksOK
  <2>2. CASE /\ allTo' = [h \in Old |-> IF h \in DOMAIN target THEN target[h] ELSE allTo[h]]
             /\ clash' = clash \union
                  {h \in DOMAIN target :
                     (mark[h] = "ALL" \/ h \in Range(queue)) /\ target[h] # allTo[h]}
    <3>1. allTo \in [Old -> Gol \union {None}] /\ clash \subseteq Old
          /\ \A h \in Old : allTo[h] # None => allTo[h] \in PairsOf(rec, h)
      BY <1>2 DEF TypeOK, MarksOK
    <3>2. QED
      BY <1>4, <2>2, <3>1
  <2>3. QED
    BY <1>1, <2>1, <2>2
<1>6. TypeOK'
  BY <1>1, <1>2, <1>5 DEF TypeOK
<1>7. ListOK'
  BY <1>1, <1>2, <1>3 DEF ListOK
<1>8. MarksOK'
  <2>1. mark \in [Gate -> {"none", "PAR", "ALL"}]
    BY <1>2 DEF TypeOK
  <2>2. \A h \in Gate : mark'[h] = IF h = g THEN "ALL" ELSE mark[h]
    BY <1>1, <2>1
  <2>3. g \notin Gol
    BY <1>1, PatchMarksAssumption
  <2>4. g \in Paired /\ \A h \in Range(queue) : h \in Paired
    BY <1>1, <1>2 DEF MarksOK, TypeOK, Range
  <2>5. \A h \in Old : mark'[h] = "ALL" \/ h \in Range(queue') => h \in Paired
    BY <1>1, <1>2, <2>2, <2>4 DEF MarksOK, Gate
  <2>6. \A h \in Gol : mark'[h] = "none"
    BY <1>2, <2>2, <2>3 DEF MarksOK, Gate
  <2>7. \A h \in Gate : mark'[h] # "PAR"
    BY <1>1, <1>2, <2>2 DEF MarksOK
  <2>8. QED
    BY <1>1, <1>2, <1>3, <1>5, <2>5, <2>6, <2>7, PatchMarksAssumption DEF MarksOK
<1>9. Done = {} /\ Range(outputs) = {}
  BY <1>1, <1>2 DEF ListOK, Done
<1>10. DoneOK' /\ EndOK'
  BY <1>1, <1>3, <1>9 DEF DoneOK, EndOK, Written, ResetWhenFloating
<1>11. QED
  BY <1>3, <1>6, <1>7, <1>8, <1>10 DEF IInv

-----------------------------------------------------------------------------
(* decidePatchType.                                                        *)

(* Taking the first element of a list without repetitions.                 *)
LEMMA TailFacts ==
  ASSUME NEW T, NEW s \in Seq(T), s # << >>, IsInjective(s)
  PROVE  /\ Head(s) \in T /\ Tail(s) \in Seq(T) /\ IsInjective(Tail(s))
         /\ Len(Tail(s)) = Len(s) - 1 /\ Len(s) \in Nat
         /\ \A i \in 1 .. Len(Tail(s)) : Tail(s)[i] = s[i + 1] /\ i + 1 \in 1 .. Len(s)
         /\ Head(s) = s[1] /\ 1 \in 1 .. Len(s)
         /\ Head(s) \notin Range(Tail(s)) /\ Range(s) = Range(Tail(s)) \union {Head(s)}
<1> DEFINE t == Tail(s)
<1>1. /\ t \in Seq(T) /\ Len(t) = Len(s) - 1 /\ Len(s) \in Nat /\ Len(s) > 0
      /\ \A i \in 1 .. Len(t) : t[i] = s[i + 1] /\ i + 1 \in 1 .. Len(s)
      /\ DOMAIN t = 1 .. Len(t) /\ DOMAIN s = 1 .. Len(s)
  OBVIOUS
<1>2. Head(s) = s[1] /\ 1 \in 1 .. Len(s) /\ Head(s) \in T
  BY <1>1
<1> HIDE DEF t
<1>3. IsInjective(t)
  <2>1. SUFFICES ASSUME NEW i \in 1 .. Len(t), NEW k \in 1 .. Len(t), t[i] = t[k] PROVE i = k
    BY <1>1 DEF IsInjective
  <2>2. i + 1 = k + 1
    BY <1>1, <2>1 DEF IsInjective
  <2>3. QED
    BY <2>2
<1>4. Head(s) \notin Range(t)
  <2>1. SUFFICES ASSUME NEW i \in 1 .. Len(t), t[i] = s[1] PROVE FALSE
    BY <1>1, <1>2 DEF Range
  <2>2. i + 1 = 1
    BY <1>1, <1>2, <2>1 DEF IsInjective
  <2>3. QED
    BY <2>2
<1>5. Range(s) = Range(t) \union {Head(s)}
  <2>1. ASSUME NEW i \in 1 .. Len(s) PROVE s[i] \in Range(t) \union {Head(s)}
    <3>1. CASE i = 1
      BY <1>2, <3>1
    <3>2. CASE i # 1
      <4>1. i - 1 \in 1 .. Len(t) /\ t[i - 1] = s[(i - 1) + 1] /\ (i - 1) + 1 = i
        BY <1>1, <3>2
      <4>2. QED
        BY <1>1, <4>1 DEF Range
    <3>3. QED
      BY <3>1, <3>2
  <2>2. Range(t) \union {Head(s)} \subseteq Range(s)
    <3>1. \A i \in 1 .. Len(t) : t[i] \in Range(s)
      BY <1>1 DEF Range
    <3>2. QED
      BY <1>1, <1>2, <3>1 DEF Range
  <2>3. QED
    BY <1>1, <2>1, <2>2 DEF Range
<1>6. QED
  BY <1>1, <1>2, <1>3, <1>4, <1>5 DEF t

(* Appending to a list without repetitions what it lacks.                  *)
LEMMA AppendFacts ==
  ASSUME NEW T, NEW s \in Seq(T), IsInjective(s), NEW x \in T, x \notin Range(s)
  PROVE  /\ Append(s, x) \in Seq(T) /\ IsInjective(Append(s, x))
         /\ Range(Append(s, x)) = Range(s) \union {x}
<1> DEFINE t == Append(s, x)
<1>1. /\ t \in Seq(T) /\ Len(t) = Len(s) + 1 /\ Len(s) \in Nat /\ t[Len(s) + 1] = x
      /\ \A i \in 1 .. Len(s) : t[i] = s[i]
      /\ DOMAIN t = 1 .. Len(s) + 1 /\ DOMAIN s = 1 .. Len(s)
  OBVIOUS
<1> HIDE DEF t
<1>2. \A i \in 1 .. Len(s) + 1 : i \in 1 .. Len(s) \/ i = Len(s) + 1
  BY <1>1
<1>3. IsInjective(t)
  <2>1. SUFFICES ASSUME NEW i \in 1 .. Len(s) + 1, NEW k \in 1 .. Len(s) + 1, t[i] = t[k]
                 PROVE  i = k
    BY <1>1 DEF IsInjective
  <2>2. CASE i \in 1 .. Len(s) /\ k \in 1 .. Len(s)
    BY <1>1, <2>1, <2>2 DEF IsInjective
  <2>3. CASE i \in 1 .. Len(s) /\ k = Len(s) + 1
    BY <1>1, <2>1, <2>3 DEF Range
  <2>4. CASE i = Len(s) + 1 /\ k \in 1 .. Len(s)
    BY <1>1, <2>1, <2>4 DEF Range
  <2>5. QED
    BY <1>2, <2>2, <2>3, <2>4
<1>4. Range(t) = Range(s) \union {x}
  <2>1. Range(t) \subseteq Range(s) \union {x}
    BY <1>1, <1>2 DEF Range
  <2>2. Range(s) \union {x} \subseteq Range(t)
    <3>1. Len(s) + 1 \in 1 .. Len(s) + 1 /\ \A i \in 1 .. Len(s) : i \in 1 .. Len(s) + 1
      BY <1>1
    <3>2. QED
      BY <1>1, <3>1 DEF Range
  <2>3. QED
    BY <2>1, <2>2
<1>5. QED
  BY <1>1, <1>3, <1>4 DEF t

(* When a gate is decided its fanouts are not decided yet.                 *)
LEMMA DecideFacts ==
  ASSUME IInv, NEW g \in Gate, Decide(g), pc' = pc,
         rec' = rec, first' = first, stamp' = stamp, used \subseteq used'
  PROVE  /\ pc = "decide" /\ netList' \in Seq(Gate) /\ IsInjective(netList')
         /\ g \in Now \union Paired /\ Range(netList') \subseteq Now \union Paired
         /\ Paired' = Paired /\ Now' = Now /\ PairsOK' /\ LiveOK'
         /\ \A f, h : RecPairFanin(f, h)' = RecPairFanin(f, h)
         /\ \A h : PairsOf(rec, h)' = PairsOf(rec, h)
         /\ Done' = Done \union {g} /\ g \notin Done
         /\ \A i, k \in 1 .. Len(netList') :
              i < k /\ netList'[k] \in Paired
                => netList'[i] \in Paired /\ Level[netList'[i]] <= Level[netList'[k]]
         /\ \A h \in Range(netList') \intersect Paired, f \in Done' :
              f \in Paired /\ Level[f] <= Level[h]
         /\ g \in Paired => \A f \in Fanouts(g) : f \notin Done' /\ f # g
<1>1. TypeOK /\ ListOK
  BY DEF IInv
<1>2. pc = "decide" /\ netList # << >> /\ g = Head(netList) /\ netList' = Tail(netList)
  BY DEF Decide
<1>3. netList \in Seq(Gate) /\ IsInjective(netList)
  BY <1>1 DEF TypeOK
<1>4. /\ netList' \in Seq(Gate) /\ IsInjective(netList')
      /\ Len(netList') = Len(netList) - 1 /\ Len(netList) \in Nat
      /\ \A i \in 1 .. Len(netList') : netList'[i] = netList[i + 1] /\ i + 1 \in 1 .. Len(netList)
      /\ g = netList[1] /\ 1 \in 1 .. Len(netList)
      /\ g \notin Range(netList') /\ Range(netList) = Range(netList') \union {g}
  BY <1>2, <1>3, TailFacts
<1>5. /\ Paired' = Paired /\ Now' = Now /\ PairsOK' /\ LiveOK'
      /\ \A f, h : RecPairFanin(f, h)' = RecPairFanin(f, h)
      /\ \A h : PairsOf(rec, h)' = PairsOf(rec, h)
  BY <1>2, SameLive
<1>6. /\ Range(netList) \subseteq Now \union Paired
      /\ \A h \in Range(netList) \intersect Paired, f \in Done : f \in Paired /\ Level[f] <= Level[h]
      /\ \A i, k \in 1 .. Len(netList) :
           i < k /\ netList[k] \in Paired
             => netList[i] \in Paired /\ Level[netList[i]] <= Level[netList[k]]
  BY <1>1, <1>2 DEF ListOK
<1>7. Done' = Done \union {g} /\ g \notin Done
  BY <1>4, <1>5, <1>6 DEF Done
<1>8. ASSUME NEW i \in 1 .. Len(netList'), NEW k \in 1 .. Len(netList'), i < k,
             netList'[k] \in Paired
      PROVE  netList'[i] \in Paired /\ Level[netList'[i]] <= Level[netList'[k]]
  <2>1. i + 1 < k + 1
    BY <1>8
  <2>2. QED
    BY <1>4, <1>6, <1>8, <2>1
<1>9. ASSUME NEW h \in Range(netList') \intersect Paired
      PROVE  g \in Paired /\ Level[g] <= Level[h]
  <2>1. PICK k \in 1 .. Len(netList') : netList'[k] = h
    BY <1>4 DEF Range
  <2>2. netList[k + 1] = h /\ k + 1 \in 1 .. Len(netList) /\ 1 < k + 1
    BY <1>4, <2>1
  <2>3. QED
    BY <1>4, <1>6, <2>2
<1>10. \A h \in Range(netList') \intersect Paired, f \in Done' : f \in Paired /\ Level[f] <= Level[h]
  BY <1>4, <1>6, <1>7, <1>9
<1>11. ASSUME g \in Paired, NEW f \in Fanouts(g) PROVE f \notin Done' /\ f # g
  <2>1. g \in Old /\ f \in Old /\ Level[g] < Level[f]
    BY <1>11, FanoutFacts DEF Paired
  <2>2. Level[g] \in Nat /\ Level[f] \in Nat
    BY <2>1, PatchMarksAssumption
  <2>3. f # g
    BY <2>1, <2>2
  <2>4. f \notin Done
    <3>1. ASSUME f \in Done PROVE Level[f] <= Level[g]
      BY <1>4, <1>6, <1>11, <3>1
    <3>2. QED
      BY <2>1, <2>2, <3>1
  <2>5. QED
    BY <1>7, <2>3, <2>4
<1>12. QED
  BY <1>2, <1>4, <1>5, <1>6, <1>7, <1>8, <1>10, <1>11

(* What every disjunct of decidePatchType does for the gate g: it marks    *)
(* fanouts of g PAR, may set g to ALL, and does for g what DoneOK says.    *)
Decided(g) ==
  /\ Decide(g)
  /\ rec' = rec /\ first' = first /\ stamp' = stamp /\ queue' = queue
  /\ clash' = clash /\ pc' = pc
  /\ used \subseteq used' /\ used' \subseteq Old
  /\ mark' \in [Gate -> {"none", "PAR", "ALL"}] /\ allTo' \in [Old -> Gol \union {None}]
  /\ \A f \in Gate :
       \/ mark'[f] = mark[f]
       \/ mark'[f] = "PAR" /\ g \in Paired /\ f \in Fanouts(g)
       \/ mark'[f] = "ALL" /\ mark[f] = "none" /\ g \in Paired /\ f = g /\ allTo'[g] # None
  /\ \A f \in Old :
       allTo'[f] = allTo[f] \/ (f = g /\ allTo'[g] # None /\ allTo'[g] \in PairsOf(rec, g))
  /\ outputs' = outputs \/ (g \in Old /\ mark'[g] # "none" /\ outputs' = Append(outputs, g))
  /\ wires' = wires \/ (g \in Gol /\ wires' = Append(wires, g))
  /\ inputs \subseteq inputs' /\ inputs' \subseteq Old
  /\ g \in Gol => g \in Range(wires')
  /\ mark[g] = "PAR" => g \in Range(outputs') /\ PatchFanins(g) \subseteq inputs'
  /\ mark'[g] = "ALL" /\ g \notin Const => g \in Range(outputs')
  /\ g \in Paired => Told(g)'

(* Whatever does that preserves the invariant, and the marks of the gates  *)
(* decided before.                                                         *)
LEMMA DecidedIInv ==
  ASSUME IInv, NEW g \in Gate, Decided(g)
  PROVE  IInv' /\ \A f \in Done : mark'[f] = mark[f]
<1>1. TypeOK /\ PairsOK /\ LiveOK /\ ListOK /\ MarksOK /\ DoneOK
  BY DEF IInv
<1>2. /\ pc = "decide" /\ netList' \in Seq(Gate) /\ IsInjective(netList')
      /\ g \in Now \union Paired /\ Range(netList') \subseteq Now \union Paired
      /\ Paired' = Paired /\ Now' = Now /\ PairsOK' /\ LiveOK'
      /\ \A f, h : RecPairFanin(f, h)' = RecPairFanin(f, h)
      /\ \A h : PairsOf(rec, h)' = PairsOf(rec, h)
      /\ Done' = Done \union {g} /\ g \notin Done
      /\ \A i, k \in 1 .. Len(netList') :
           i < k /\ netList'[k] \in Paired
             => netList'[i] \in Paired /\ Level[netList'[i]] <= Level[netList'[k]]
      /\ \A h \in Range(netList') \intersect Paired, f \in Done' :
           f \in Paired /\ Level[f] <= Level[h]
      /\ g \in Paired => \A f \in Fanouts(g) : f \notin Done' /\ f # g
  BY DecideFacts DEF Decided
<1>3. /\ outputs \in Seq(Old) /\ IsInjective(outputs) /\ wires \in Seq(Gol) /\ IsInjective(wires)
      /\ Range(outputs) \union Range(wires) \subseteq Done
  BY <1>1, <1>2 DEF TypeOK, ListOK
<1>4. /\ outputs' \in Seq(Old) /\ IsInjective(outputs')
      /\ Range(outputs) \subseteq Range(outputs') /\ Range(outputs') \subseteq Done'
      /\ \A f \in Range(outputs') : f \in Range(outputs) \/ (f = g /\ mark'[g] # "none")
  <2>1. CASE outputs' = outputs
    BY <1>2, <1>3, <2>1
  <2>2. CASE g \in Old /\ mark'[g] # "none" /\ outputs' = Append(outputs, g)
    <3>1. g \notin Range(outputs)
      BY <1>2, <1>3
    <3>2. /\ outputs' \in Seq(Old) /\ IsInjective(outputs')
          /\ Range(outputs') = Range(outputs) \union {g}
      BY <1>3, <2>2, <3>1, AppendFacts
    <3>3. QED
      BY <1>2, <1>3, <2>2, <3>2
  <2>3. QED
    BY <2>1, <2>2 DEF Decided
<1>5. /\ wires' \in Seq(Gol) /\ IsInjective(wires')
      /\ Range(wires) \subseteq Range(wires') /\ Range(wires') \subseteq Done'
  <2>1. CASE wires' = wires
    BY <1>2, <1>3, <2>1
  <2>2. CASE g \in Gol /\ wires' = Append(wires, g)
    <3>1. g \notin Range(wires)
      BY <1>2, <1>3
    <3>2. /\ wires' \in Seq(Gol) /\ IsInjective(wires')
          /\ Range(wires') = Range(wires) \union {g}
      BY <1>3, <2>2, <3>1, AppendFacts
    <3>3. QED
      BY <1>2, <1>3, <3>2
  <2>3. QED
    BY <2>1, <2>2 DEF Decided
<1>6. TypeOK'
  BY <1>1, <1>2, <1>4, <1>5 DEF TypeOK, Decided
<1>7. ListOK'
  BY <1>1, <1>2, <1>4, <1>5 DEF ListOK, Decided
<1>8. \A f \in Gate : f \in Done => mark'[f] = mark[f]
  <2>1. SUFFICES ASSUME NEW f \in Gate, f \in Done PROVE mark'[f] = mark[f]
    OBVIOUS
  <2>2. f # g /\ (g \in Paired => f \notin Fanouts(g))
    BY <1>2, <2>1
  <2>3. QED
    BY <2>2 DEF Decided
<1>9. \A f \in Gate : mark'[f] # "PAR" => mark[f] # "PAR"
  BY DEF Decided
<1>10. MarksOK'
  <2>1. g \in Paired => g \in Old
    BY DEF Paired
  <2>2. \A f \in Gate : g \in Paired /\ f \in Fanouts(g) => f \in Old \ Const
    BY <2>1, FanoutFacts
  <2>3. \A f \in Gol : mark'[f] = "none"
    <3>1. SUFFICES ASSUME NEW f \in Gol PROVE mark'[f] = "none"
      OBVIOUS
    <3>2. f \in Gate /\ f \notin Old /\ mark[f] = "none"
      BY <1>1, PatchMarksAssumption DEF Gate, MarksOK
    <3>3. QED
      BY <2>1, <2>2, <3>2 DEF Decided
  <2>4. \A f \in Const : mark'[f] # "PAR"
    <3>1. SUFFICES ASSUME NEW f \in Const PROVE mark'[f] # "PAR"
      OBVIOUS
    <3>2. f \in Gate /\ mark[f] # "PAR"
      BY <1>1, PatchMarksAssumption DEF MarksOK
    <3>3. QED
      BY <2>2, <3>2 DEF Decided
  <2>5. \A f \in Old : allTo'[f] # None => allTo'[f] \in PairsOf(rec, f)
    BY <1>1 DEF MarksOK, Decided
  <2>6. \A f \in Old : mark'[f] = "ALL" \/ f \in Range(queue) => f \in Paired
    BY <1>1 DEF MarksOK, Decided, Gate
  <2>7. QED
    BY <1>1, <1>2, <2>3, <2>4, <2>5, <2>6 DEF MarksOK, Decided
<1>11. Done' \intersect Gol \subseteq Range(wires')
  BY <1>1, <1>2, <1>5 DEF DoneOK, Decided
<1>12. Done \subseteq Gate /\ Paired \subseteq Old
  BY DEF Done, Now, Paired, Gate
<1>13. ASSUME NEW f \in Done', mark'[f] = "PAR" PROVE Rebuilt(f)'
  <2>1. f \in Gate
    BY <1>2, <1>12
  <2>2. mark[f] = "PAR"
    <3>1. CASE f \in Done
      BY <1>8, <1>13, <2>1, <3>1
    <3>2. CASE f = g
      BY <1>2, <1>13, <3>2 DEF Decided
    <3>3. QED
      BY <1>2, <3>1, <3>2
  <2>3. f \in Range(outputs')
    BY <1>1, <1>2, <1>4, <2>2 DEF DoneOK, Rebuilt, Decided
  <2>4. ASSUME NEW p \in PinsOf(f)
        PROVE  IF rec'[p] = None THEN mark'[Reads(p)] # "PAR" => Reads(p) \in inputs' \union Const
               ELSE Mapped[rec'[p]] \in Old => Mapped[rec'[p]] \in inputs' \union Const
    <3>1. p \in Pins /\ Reads(p) \in Gate
      BY PinFacts DEF PinsOf
    <3>2. rec' = rec /\ inputs \subseteq inputs'
      BY DEF Decided
    <3>3. CASE f \in Done
      <4>1. IF rec[p] = None THEN mark[Reads(p)] # "PAR" => Reads(p) \in inputs \union Const
            ELSE Mapped[rec[p]] \in Old => Mapped[rec[p]] \in inputs \union Const
        BY <1>1, <1>2, <2>2, <3>3 DEF DoneOK, Rebuilt
      <4>2. QED
        BY <1>9, <3>1, <3>2, <4>1
    <3>4. CASE f = g
      <4>1. PatchFanins(g) \subseteq inputs'
        BY <2>2, <3>4 DEF Decided
      <4>2. CASE rec[p] = None
        <5>1. mark[Reads(p)] # "PAR" => Reads(p) \in inputs'
          BY <3>4, <4>1, <4>2 DEF PatchFanins
        <5>2. QED
          BY <1>9, <3>1, <3>2, <4>2, <5>1
      <4>3. CASE rec[p] # None
        <5>1. Mapped[rec[p]] \in Old => Mapped[rec[p]] \in inputs'
          BY <3>4, <4>1, <4>3 DEF PatchFanins, MappedFanins
        <5>2. QED
          BY <3>2, <4>3, <5>1
      <4>4. QED
        BY <4>2, <4>3
    <3>5. QED
      BY <1>2, <3>3, <3>4
  <2>5. QED
    BY <2>3, <2>4 DEF Rebuilt
<1>14. ASSUME NEW h \in Done' \intersect Paired PROVE Told(h)'
  <2>1. CASE h = g
    BY <1>14, <2>1 DEF Decided
  <2>2. CASE h \in Done /\ h # g
    <3>1. Told(h)
      BY <1>1, <1>2, <1>14, <2>2 DEF DoneOK
    <3>2. h \in Gate /\ mark'[h] = mark[h] /\ allTo'[h] = allTo[h]
      BY <1>8, <1>12, <1>14, <2>2 DEF Decided
    <3>3. Replaced(h)' <=> Replaced(h)
      BY <3>2 DEF Replaced
    <3>4. ASSUME NEW f \in Fanouts(h) \intersect Now, mark'[f] # "PAR"
          PROVE  RecPairFanin(f, h) = IF Replaced(h)' THEN allTo'[h] ELSE None
      <4>1. f \in Gate
        BY <3>4 DEF Now
      <4>2. mark[f] # "PAR"
        BY <1>9, <3>4, <4>1
      <4>3. RecPairFanin(f, h) = IF Replaced(h) THEN allTo[h] ELSE None
        BY <3>1, <3>4, <4>2 DEF Told
      <4>4. QED
        BY <3>2, <3>3, <4>3
    <3>5. QED
      BY <1>2, <3>4 DEF Told
  <2>3. QED
    BY <1>2, <1>14, <2>1, <2>2
<1>15. DoneOK'
  <2>1. ASSUME NEW h \in Done', Replaced(h)' PROVE h \in Range(outputs')
    <3>1. CASE h = g
      BY <2>1, <3>1 DEF Decided, Replaced
    <3>2. CASE h \in Done
      <4>1. Replaced(h)
        BY <1>8, <1>12, <2>1, <3>2 DEF Replaced
      <4>2. h \in Range(outputs)
        BY <1>1, <1>2, <3>2, <4>1 DEF DoneOK
      <4>3. QED
        BY <1>4, <4>2
    <3>3. QED
      BY <1>2, <2>1, <3>1, <3>2
  <2>2. ASSUME NEW h \in Range(outputs') PROVE mark'[h] # "none"
    <3>1. CASE h \in Range(outputs)
      <4>1. h \in Done /\ h \in Gate /\ mark[h] # "none"
        BY <1>1, <1>2, <1>3, <1>12, <3>1 DEF DoneOK
      <4>2. QED
        BY <1>8, <4>1
    <3>2. QED
      BY <1>4, <2>2, <3>1
  <2>3. QED
    BY <1>2, <1>11, <1>13, <1>14, <2>1, <2>2 DEF DoneOK
<1>16. EndOK'
  BY <1>2 DEF EndOK, Written, ResetWhenFloating, Decided
<1>17. QED
  BY <1>2, <1>6, <1>7, <1>8, <1>10, <1>12, <1>15, <1>16 DEF IInv

(* What is appended is in the list.                                        *)
LEMMA AppendedIn ==
  ASSUME NEW T, NEW s \in Seq(T), NEW x \in T
  PROVE  x \in Range(Append(s, x))
<1>1. Len(s) + 1 \in DOMAIN Append(s, x) /\ Append(s, x)[Len(s) + 1] = x
  OBVIOUS
<1>2. QED
  BY <1>1 DEF Range

(* The inputs a rebuilt gate needs are old gates.                          *)
LEMMA PatchFaninsType ==
  ASSUME NEW g \in Old
  PROVE  PatchFanins(g) \subseteq Old /\ MappedFanins(g) \subseteq Old
BY PinFacts DEF PatchFanins, MappedFanins, PinsOf

(* The fanouts in F are rebuilt, the other marks stay.                     *)
LEMMA MarkedFacts ==
  ASSUME TypeOK, NEW g \in Old, NEW F \in SUBSET Fanouts(g)
  PROVE  /\ Marked(F) \in [Gate -> {"none", "PAR", "ALL"}]
         /\ \A f \in Gate : Marked(F)[f] = IF f \in F THEN "PAR" ELSE mark[f]
         /\ g \notin F
<1>1. g \notin F
  <2>1. SUFFICES ASSUME g \in Fanouts(g) PROVE FALSE
    OBVIOUS
  <2>2. Level[g] < Level[g] /\ Level[g] \in Nat
    BY <2>1, FanoutFacts, PatchMarksAssumption
  <2>3. QED
    BY <2>2
<1>2. QED
  BY <1>1 DEF Marked, TypeOK

(* The five cases of decidePatchType do what Decided says: a golden gate   *)
(* becomes a wire;                                                         *)
LEMMA WireDecided ==
  ASSUME IInv, NEW g \in Gate, Wire(g)
  PROVE  Decided(g)
<1>1. TypeOK /\ MarksOK
  BY DEF IInv
<1>2. g \in Gol /\ wires' = Append(wires, g) /\ Decide(g)
      /\ rec' = rec /\ first' = first /\ stamp' = stamp /\ mark' = mark /\ allTo' = allTo
      /\ queue' = queue /\ used' = used /\ inputs' = inputs /\ outputs' = outputs
      /\ clash' = clash /\ pc' = pc
  BY DEF Wire, pairs
<1>3. g \notin Paired /\ mark[g] = "none"
  BY <1>1, <1>2, PatchMarksAssumption DEF Paired, MarksOK
<1>4. g \in Range(wires')
  BY <1>1, <1>2, AppendedIn DEF TypeOK
<1>5. QED
  BY <1>1, <1>2, <1>3, <1>4 DEF Decided, TypeOK

(* an old gate without pairs is at most an output;                         *)
LEMMA UnpairedDecided ==
  ASSUME IInv, NEW g \in Gate, Unpaired(g)
  PROVE  Decided(g)
<1>1. TypeOK /\ MarksOK
  BY DEF IInv
<1>2. /\ g \in Old /\ first[g] = None /\ wires' = wires /\ Decide(g)
      /\ rec' = rec /\ first' = first /\ stamp' = stamp /\ mark' = mark /\ allTo' = allTo
      /\ queue' = queue /\ clash' = clash /\ pc' = pc
      /\ IF mark[g] = "PAR"
         THEN /\ inputs' = inputs \union PatchFanins(g)
              /\ used' = used \union MappedFanins(g)
              /\ outputs' = Append(outputs, g)
         ELSE inputs' = inputs /\ used' = used /\ outputs' = outputs
  BY DEF Unpaired, pairs
<1>3. g \notin Paired /\ g \notin Gol
  BY <1>2, PatchMarksAssumption DEF Paired
<1>4. /\ inputs \subseteq inputs' /\ inputs' \subseteq Old
      /\ used \subseteq used' /\ used' \subseteq Old
  BY <1>1, <1>2, PatchFaninsType DEF TypeOK
<1>5. mark[g] = "PAR" => g \in Range(outputs') /\ PatchFanins(g) \subseteq inputs'
  BY <1>1, <1>2, AppendedIn DEF TypeOK
<1>6. /\ outputs' = outputs \/ (g \in Old /\ mark'[g] # "none" /\ outputs' = Append(outputs, g))
      /\ mark'[g] # "ALL"
  BY <1>1, <1>2, <1>3 DEF MarksOK
<1>7. mark' \in [Gate -> {"none", "PAR", "ALL"}] /\ allTo' \in [Old -> Gol \union {None}]
  BY <1>1, <1>2 DEF TypeOK
<1>8. QED
  BY <1>2, <1>3, <1>4, <1>5, <1>6, <1>7 DEF Decided

(* a rebuilt gate or a constant passes PAR on to its paired fanouts;       *)
LEMMA AlreadyParDecided ==
  ASSUME IInv, NEW g \in Gate, AlreadyPar(g)
  PROVE  Decided(g)
<1>1. TypeOK /\ MarksOK
  BY DEF IInv
<1>2. /\ g \in Old /\ first[g] # None /\ wires' = wires /\ Decide(g)
      /\ mark[g] = "PAR" \/ g \in Const
      /\ mark' = Marked(PairedFanouts(g))
      /\ outputs' = IF g \in Const THEN outputs ELSE Append(outputs, g)
      /\ inputs' = inputs \union PatchFanins(g)
      /\ used' = used \union MappedFanins(g)
      /\ rec' = rec /\ first' = first /\ stamp' = stamp /\ allTo' = allTo
      /\ queue' = queue /\ clash' = clash /\ pc' = pc
  BY DEF AlreadyPar, pairs
<1>3. g \in Paired /\ g \notin Gol
  BY <1>2, PatchMarksAssumption DEF Paired
<1>4. /\ inputs \subseteq inputs' /\ inputs' \subseteq Old /\ PatchFanins(g) \subseteq inputs'
      /\ used \subseteq used' /\ used' \subseteq Old
  BY <1>1, <1>2, PatchFaninsType DEF TypeOK
<1>5. mark[g] = "PAR" => g \in Range(outputs')
  <2>1. SUFFICES ASSUME mark[g] = "PAR" PROVE g \in Range(outputs')
    OBVIOUS
  <2>2. g \notin Const
    BY <1>1, <2>1 DEF MarksOK
  <2>3. QED
    BY <1>1, <1>2, <2>2, AppendedIn DEF TypeOK
<1>6. PairedFanouts(g) \in SUBSET Fanouts(g)
  BY DEF PairedFanouts
<1>7. /\ mark' \in [Gate -> {"none", "PAR", "ALL"}]
      /\ \A f \in Gate : mark'[f] = IF f \in PairedFanouts(g) THEN "PAR" ELSE mark[f]
      /\ g \notin PairedFanouts(g)
  BY <1>1, <1>2, <1>6, MarkedFacts
<1>8. Told(g)'
  <2>1. Now' = Now
    BY <1>2 DEF Now
  <2>2. \A f, h : RecPairFanin(f, h)' = RecPairFanin(f, h)
    BY <1>2, SamePairs
  <2>3. ~ Replaced(g)'
    BY <1>2, <1>7 DEF Replaced
  <2>4. ASSUME NEW f \in Fanouts(g) \intersect Now, mark'[f] # "PAR"
        PROVE  RecPairFanin(f, g) = None
    <3>1. f \in Gate
      BY <2>4 DEF Now
    <3>2. f \notin PairedFanouts(g)
      BY <1>7, <2>4, <3>1
    <3>3. QED
      BY <2>4, <3>2 DEF PairedFanouts
  <2>5. QED
    BY <2>1, <2>2, <2>3, <2>4 DEF Told
<1>9. /\ outputs' = outputs \/ (g \in Old /\ mark'[g] # "none" /\ outputs' = Append(outputs, g))
      /\ mark'[g] = "ALL" => g \in Const
      /\ allTo' \in [Old -> Gol \union {None}]
  BY <1>1, <1>2, <1>7 DEF TypeOK
<1>10. \A f \in Gate : mark'[f] = mark[f] \/ (mark'[f] = "PAR" /\ g \in Paired /\ f \in Fanouts(g))
  BY <1>3, <1>6, <1>7
<1>11. QED
  BY <1>2, <1>3, <1>4, <1>5, <1>7, <1>8, <1>9, <1>10 DEF Decided

(* an ALL has the fanouts with another target rebuilt;                     *)
LEMMA AlreadyAllDecided ==
  ASSUME IInv, NEW g \in Gate, AlreadyAll(g)
  PROVE  Decided(g)
<1> DEFINE F == NotPatchedTo(g, allTo[g]) \intersect Now
<1>1. TypeOK /\ MarksOK
  BY DEF IInv
<1>2. /\ g \in Old \ Const /\ first[g] # None /\ wires' = wires /\ Decide(g)
      /\ mark[g] = "ALL" /\ mark' = Marked(F)
      /\ outputs' = Append(outputs, g) /\ inputs' = inputs
      /\ rec' = rec /\ first' = first /\ stamp' = stamp /\ allTo' = allTo
      /\ queue' = queue /\ used' = used /\ clash' = clash /\ pc' = pc
  BY DEF AlreadyAll, pairs
<1>3. g \in Paired /\ g \notin Gol
  BY <1>2, PatchMarksAssumption DEF Paired
<1>4. F \in SUBSET Fanouts(g)
  BY DEF NotPatchedTo
<1> HIDE DEF F
<1>5. /\ mark' \in [Gate -> {"none", "PAR", "ALL"}]
      /\ \A f \in Gate : mark'[f] = IF f \in F THEN "PAR" ELSE mark[f]
      /\ g \notin F
  BY <1>1, <1>2, <1>4, MarkedFacts
<1>6. Told(g)'
  <2>1. Now' = Now
    BY <1>2 DEF Now
  <2>2. \A f, h : RecPairFanin(f, h)' = RecPairFanin(f, h)
    BY <1>2, SamePairs
  <2>3. Replaced(g)'
    BY <1>2, <1>5 DEF Replaced
  <2>4. ASSUME NEW f \in Fanouts(g) \intersect Now, mark'[f] # "PAR"
        PROVE  RecPairFanin(f, g) = allTo[g]
    <3>1. f \in Gate
      BY <2>4 DEF Now
    <3>2. f \notin F
      BY <1>5, <2>4, <3>1
    <3>3. QED
      BY <2>4, <3>2 DEF F, NotPatchedTo
  <2>5. QED
    BY <1>2, <2>1, <2>2, <2>3, <2>4 DEF Told
<1>7. \A f \in Gate : mark'[f] = mark[f] \/ (mark'[f] = "PAR" /\ g \in Paired /\ f \in Fanouts(g))
  BY <1>3, <1>4, <1>5
<1>8. /\ inputs \subseteq Old /\ used \subseteq Old /\ allTo' \in [Old -> Gol \union {None}]
      /\ mark'[g] = "ALL" /\ g \in Range(outputs')
  BY <1>1, <1>2, <1>5, AppendedIn DEF TypeOK
<1>9. QED
  BY <1>2, <1>3, <1>5, <1>6, <1>7, <1>8 DEF Decided

(* any other gate becomes an ALL, or has its paired fanouts rebuilt.       *)
LEMMA ChooseDecided ==
  ASSUME IInv, NEW g \in Gate, Choose(g)
  PROVE  Decided(g)
<1>1. TypeOK /\ PairsOK /\ MarksOK
  BY DEF IInv
<1>2. /\ g \in Old \ Const /\ first[g] # None /\ wires' = wires /\ Decide(g)
      /\ mark[g] = "none" /\ inputs' = inputs
      /\ rec' = rec /\ first' = first /\ stamp' = stamp
      /\ queue' = queue /\ used' = used /\ clash' = clash /\ pc' = pc
      /\ \/ /\ mark' = [Marked(NotPatchedTo(g, first[g]) \intersect Stamped) EXCEPT ![g] = "ALL"]
            /\ allTo' = [allTo EXCEPT ![g] = first[g]]
            /\ outputs' = Append(outputs, g)
         \/ mark' = Marked(PairedFanouts(g)) /\ allTo' = allTo /\ outputs' = outputs
  BY DEF Choose, pairs
<1>3. g \in Paired /\ g \notin Gol
  BY <1>2, PatchMarksAssumption DEF Paired
<1>4. Now' = Now /\ (\A f, h : RecPairFanin(f, h)' = RecPairFanin(f, h))
  BY <1>2, SamePairs DEF Now
<1>5. inputs \subseteq Old /\ used \subseteq Old /\ allTo \in [Old -> Gol \union {None}]
  BY <1>1 DEF TypeOK
<1>6. CASE /\ mark' = [Marked(NotPatchedTo(g, first[g]) \intersect Stamped) EXCEPT ![g] = "ALL"]
           /\ allTo' = [allTo EXCEPT ![g] = first[g]]
           /\ outputs' = Append(outputs, g)
  <2> DEFINE F == NotPatchedTo(g, first[g]) \intersect Stamped
  <2>1. F \in SUBSET Fanouts(g)
    BY DEF NotPatchedTo
  <2>2. mark' = [Marked(F) EXCEPT ![g] = "ALL"]
    BY <1>6
  <2> HIDE DEF F
  <2>3. /\ Marked(F) \in [Gate -> {"none", "PAR", "ALL"}]
        /\ \A f \in Gate : Marked(F)[f] = IF f \in F THEN "PAR" ELSE mark[f]
        /\ g \notin F
    BY <1>1, <1>2, <2>1, MarkedFacts
  <2>4. /\ mark' \in [Gate -> {"none", "PAR", "ALL"}] /\ mark'[g] = "ALL"
        /\ \A f \in Gate : f # g => mark'[f] = IF f \in F THEN "PAR" ELSE mark[f]
    BY <2>2, <2>3
  <2>5. first[g] \in PairsOf(rec, g) /\ first[g] \in Gol
    BY <1>1, <1>2 DEF PairsOK, TypeOK
  <2>6. /\ allTo' \in [Old -> Gol \union {None}] /\ allTo'[g] = first[g]
        /\ \A f \in Old : f # g => allTo'[f] = allTo[f]
    BY <1>2, <1>5, <1>6, <2>5
  <2>7. Told(g)'
    <3>1. Replaced(g)'
      BY <1>2, <2>4 DEF Replaced
    <3>2. ASSUME NEW f \in Fanouts(g) \intersect Now, mark'[f] # "PAR"
          PROVE  RecPairFanin(f, g) = first[g]
      <4>1. f \in Gate /\ f \in Stamped
        BY <3>2 DEF Now, Stamped
      <4>2. f # g
        BY <1>2, <3>2, FanoutFacts, PatchMarksAssumption
      <4>3. f \notin F
        BY <2>4, <3>2, <4>1, <4>2
      <4>4. QED
        BY <3>2, <4>1, <4>3 DEF F, NotPatchedTo
    <3>3. QED
      BY <1>4, <2>6, <3>1, <3>2 DEF Told
  <2>8. \A f \in Gate :
          \/ mark'[f] = mark[f]
          \/ mark'[f] = "PAR" /\ g \in Paired /\ f \in Fanouts(g)
          \/ mark'[f] = "ALL" /\ mark[f] = "none" /\ g \in Paired /\ f = g /\ allTo'[g] # None
    BY <1>2, <1>3, <2>1, <2>4, <2>6
  <2>9. \A f \in Old :
          allTo'[f] = allTo[f] \/ (f = g /\ allTo'[g] # None /\ allTo'[g] \in PairsOf(rec, g))
    BY <1>2, <2>5, <2>6
  <2>10. g \in Range(outputs')
    BY <1>1, <1>2, <1>6, AppendedIn DEF TypeOK
  <2>11. QED
    BY <1>2, <1>3, <1>5, <1>6, <2>4, <2>6, <2>7, <2>8, <2>9, <2>10 DEF Decided
<1>7. CASE mark' = Marked(PairedFanouts(g)) /\ allTo' = allTo /\ outputs' = outputs
  <2>1. PairedFanouts(g) \in SUBSET Fanouts(g)
    BY DEF PairedFanouts
  <2>2. /\ mark' \in [Gate -> {"none", "PAR", "ALL"}]
        /\ \A f \in Gate : mark'[f] = IF f \in PairedFanouts(g) THEN "PAR" ELSE mark[f]
        /\ g \notin PairedFanouts(g)
    BY <1>1, <1>2, <1>7, <2>1, MarkedFacts
  <2>3. Told(g)'
    <3>1. ~ Replaced(g)'
      BY <1>2, <2>2 DEF Replaced
    <3>2. ASSUME NEW f \in Fanouts(g) \intersect Now, mark'[f] # "PAR"
          PROVE  RecPairFanin(f, g) = None
      <4>1. f \in Gate
        BY <3>2 DEF Now
      <4>2. f \notin PairedFanouts(g)
        BY <2>2, <3>2, <4>1
      <4>3. QED
        BY <3>2, <4>2 DEF PairedFanouts
    <3>3. QED
      BY <1>4, <3>1, <3>2 DEF Told
  <2>4. \A f \in Gate : mark'[f] = mark[f] \/ (mark'[f] = "PAR" /\ g \in Paired /\ f \in Fanouts(g))
    BY <1>3, <2>1, <2>2
  <2>5. mark'[g] = "none"
    BY <1>2, <2>2
  <2>6. QED
    BY <1>2, <1>3, <1>5, <1>7, <2>2, <2>3, <2>4, <2>5 DEF Decided
<1>8. QED
  BY <1>2, <1>6, <1>7

-----------------------------------------------------------------------------
(* The lists are written.                                                  *)

(* Writing the inputs preserves the invariant.                             *)
LEMMA WriteInputsIInv == IInv /\ WriteInputs => IInv'
<1> SUFFICES ASSUME IInv, WriteInputs PROVE IInv'
  OBVIOUS
<1>1. /\ pc = "decide" /\ netList = << >> /\ pc' = "gates"
      /\ inputs' = (inputs \union used) \ Const
      /\ rec' = rec /\ first' = first /\ stamp' = stamp /\ mark' = mark /\ allTo' = allTo
      /\ queue' = queue /\ netList' = netList /\ used' = used
      /\ outputs' = outputs /\ wires' = wires /\ clash' = clash
  BY DEF WriteInputs, pairs
<1>2. TypeOK /\ PairsOK /\ LiveOK /\ ListOK /\ MarksOK /\ DoneOK
  BY DEF IInv
<1>3. /\ Paired' = Paired /\ Now' = Now /\ Done' = Done /\ PairsOK' /\ LiveOK'
      /\ \A f, g : RecPairFanin(f, g)' = RecPairFanin(f, g)
      /\ \A g : PairsOf(rec, g)' = PairsOf(rec, g)
  BY <1>1, SameLive DEF Done
<1>4. TypeOK'
  BY <1>1, <1>2 DEF TypeOK
<1>5. ListOK'
  <2>1. Range(netList) = {} /\ Len(netList) = 0
    BY <1>1 DEF Range
  <2>2. QED
    BY <1>1, <1>2, <1>3, <2>1 DEF ListOK
<1>6. MarksOK'
  BY <1>1, <1>2, <1>3 DEF MarksOK
<1>7. inputs \union Const \subseteq inputs' \union Const /\ used \subseteq inputs' \union Const
  BY <1>1
<1>8. DoneOK'
  <2>1. ASSUME NEW f \in Done, mark[f] = "PAR" PROVE Rebuilt(f)'
    <3>1. Rebuilt(f)
      BY <1>1, <1>2, <2>1 DEF DoneOK
    <3>2. QED
      BY <1>1, <1>7, <3>1 DEF Rebuilt
  <2>2. ASSUME NEW g \in Done \intersect Paired PROVE Told(g)'
    <3>1. Told(g)
      BY <1>1, <1>2, <2>2 DEF DoneOK
    <3>2. Replaced(g)' <=> Replaced(g)
      BY <1>1 DEF Replaced
    <3>3. QED
      BY <1>1, <1>3, <3>1, <3>2 DEF Told
  <2>3. \A g : Replaced(g)' <=> Replaced(g)
    BY <1>1 DEF Replaced
  <2>4. QED
    BY <1>1, <1>2, <1>3, <2>1, <2>2, <2>3 DEF DoneOK
<1>9. EndOK'
  BY <1>1, <1>7 DEF EndOK, Written, ResetWhenFloating
<1>10. QED
  BY <1>3, <1>4, <1>5, <1>6, <1>8, <1>9 DEF IInv

(* A golden gate of the patch that is not floating has a name there.       *)
LEMMA LiveNamed ==
  ASSUME IInv, pc # "floating", NEW p \in Pins, p[1] \in Now,
         NEW c \in Gol, rec[p] = c \/ (rec[p] = None /\ Reads(p) = c)
  PROVE  Named(c)
<1>1. TypeOK /\ PairsOK /\ LiveOK
  BY DEF IInv
<1>2. Now = NotFloating /\ {Mapped[x] : x \in MappedOn(Now)} \intersect Old \subseteq used
  BY <1>1 DEF LiveOK
<1>3. c \in MappedOn(Now)
  <2>1. None \notin Gol
    BY PatchMarksAssumption DEF Gate
  <2>2. c = IF rec[p] # None THEN rec[p] ELSE Reads(p)
    BY <2>1
  <2>3. QED
    BY <2>2 DEF MappedOn
<1>4. CASE Mapped[c] \in Old
  BY <1>2, <1>3, <1>4 DEF Named
<1>5. CASE Mapped[c] \notin Old
  <2>1. Mapped[c] = c
    BY <1>5, PatchMarksAssumption
  <2>2. Source(p) = c
    <3>1. None \notin Gol
      BY PatchMarksAssumption DEF Gate
    <3>2. CASE rec[p] = c
      BY <2>1, <3>1, <3>2 DEF Source
    <3>3. CASE rec[p] = None /\ Reads(p) = c
      <4>1. p[1] \notin Old
        BY <3>3, PinFacts, PatchMarksAssumption
      <4>2. QED
        BY <2>1, <3>3, <4>1 DEF Source
    <3>4. QED
      BY <3>2, <3>3
  <2>3. c \in Now
    BY <1>1, <1>2, <2>2, NotFloatingClosed DEF TypeOK
  <2>4. QED
    BY <1>5, <2>3 DEF Named
<1>6. QED
  BY <1>4, <1>5

(* When no pair of a floating gate is selected, the only gate of the patch *)
(* without a name is one whose net lost its target.                        *)
LEMMA UnnamedLostTarget ==
  ASSUME IInv, pc # "floating", NEW g \in Range(outputs) \union Range(wires), ~ GateNamed(g),
         \A p \in Pins : rec[p] # None => p[1] \in Now
  PROVE  g \in Old /\ mark[g] = "ALL" /\ allTo[g] = None
<1>1. TypeOK /\ PairsOK /\ ListOK /\ MarksOK
  BY DEF IInv
<1>2. g \in Now \union Paired /\ g \in Gate /\ Paired \subseteq Old
  BY <1>1 DEF ListOK, Done, Paired, Now, Gate
<1>3. CASE g \in Gol
  <2>1. g \in Now
    BY <1>2, <1>3, PatchMarksAssumption
  <2>2. \A p \in PinsOf(g) : Named(Reads(p))
    <3>1. SUFFICES ASSUME NEW p \in PinsOf(g) PROVE Named(Reads(p))
      OBVIOUS
    <3>2. p \in Pins /\ p[1] = g
      BY DEF PinsOf
    <3>3. Reads(p) \in Gol /\ p[1] \notin Old
      BY <1>3, <3>2, PinFacts
    <3>4. rec[p] = None
      BY <1>1, <3>2, <3>3, PairFacts
    <3>5. QED
      BY <2>1, <3>2, <3>3, <3>4, LiveNamed
  <2>3. mark[g] # "ALL"
    BY <1>1, <1>3 DEF MarksOK
  <2>4. QED
    BY <1>3, <2>2, <2>3 DEF GateNamed
<1>4. CASE g \notin Gol /\ mark[g] = "ALL"
  <2>1. g \in Old
    BY <1>2, <1>4 DEF Gate
  <2>2. ASSUME allTo[g] # None PROVE Named(allTo[g])
    <3>1. allTo[g] \in PairsOf(rec, g)
      BY <1>1, <2>1, <2>2 DEF MarksOK
    <3>2. PICK p \in FanoutPins(g) : rec[p] = allTo[g]
      BY <3>1 DEF PairsOf
    <3>3. p \in Pins /\ rec[p] # None /\ rec[p] \in Gol
      BY <1>1, <2>2, <3>2, PairFacts DEF FanoutPins
    <3>4. QED
      BY <3>2, <3>3, LiveNamed
  <2>3. allTo[g] = None
    BY <1>4, <2>2 DEF GateNamed
  <2>4. QED
    BY <1>4, <2>1, <2>3
<1>5. CASE g \notin Gol /\ mark[g] # "ALL"
  <2>1. \A p \in PinsOf(g) : rec[p] # None => Named(rec[p])
    <3>1. SUFFICES ASSUME NEW p \in PinsOf(g), rec[p] # None PROVE Named(rec[p])
      OBVIOUS
    <3>2. p \in Pins
      BY DEF PinsOf
    <3>3. p[1] \in Now /\ rec[p] \in Gol
      BY <1>1, <3>1, <3>2, PairFacts
    <3>4. QED
      BY <3>2, <3>3, LiveNamed
  <2>2. QED
    BY <1>5, <2>1 DEF GateNamed
<1>6. QED
  BY <1>3, <1>4, <1>5

(* Writing the gates preserves the invariant.                              *)
LEMMA WriteGatesIInv == IInv /\ WriteGates => IInv'
<1> SUFFICES ASSUME IInv, WriteGates PROVE IInv'
  OBVIOUS
<1> DEFINE list == outputs \o wires
<1> DEFINE bad == {i \in 1 .. Len(list) : ~ GateNamed(list[i])}
<1> DEFINE g == list[Min(bad)]
<1>1. /\ pc = "gates"
      /\ pc' = IF bad = {} THEN "written"
               ELSE IF mark[g] = "ALL" /\ allTo[g] = None THEN "crash" ELSE "reset"
      /\ rec' = rec /\ first' = first /\ stamp' = stamp /\ mark' = mark /\ allTo' = allTo
      /\ queue' = queue /\ netList' = netList /\ used' = used /\ inputs' = inputs
      /\ outputs' = outputs /\ wires' = wires /\ clash' = clash
  BY DEF WriteGates, pairs, lists
<1>2. TypeOK /\ PairsOK /\ LiveOK /\ ListOK /\ MarksOK /\ DoneOK /\ EndOK
  BY DEF IInv
<1>3. /\ list \in Seq(Gate) /\ Len(list) \in Nat
      /\ \A i \in 1 .. Len(list) : list[i] \in Range(outputs) \union Range(wires)
      /\ \A h \in Range(outputs) \union Range(wires) : \E i \in 1 .. Len(list) : list[i] = h
  <2>1. /\ outputs \in Seq(Gate) /\ wires \in Seq(Gate)
        /\ Len(outputs) \in Nat /\ Len(wires) \in Nat
        /\ DOMAIN outputs = 1 .. Len(outputs) /\ DOMAIN wires = 1 .. Len(wires)
    BY <1>2 DEF TypeOK, Gate
  <2>2. list \in Seq(Gate) /\ Len(list) = Len(outputs) + Len(wires)
    BY <2>1
  <2>3. /\ \A i \in 1 .. Len(outputs) : list[i] = outputs[i] /\ i \in 1 .. Len(list)
        /\ \A i \in 1 .. Len(wires) :
             list[Len(outputs) + i] = wires[i] /\ Len(outputs) + i \in 1 .. Len(list)
    BY <2>1, <2>2
  <2>4. \A i \in 1 .. Len(list) :
          \/ i \in 1 .. Len(outputs) /\ list[i] = outputs[i]
          \/ i - Len(outputs) \in 1 .. Len(wires) /\ list[i] = wires[i - Len(outputs)]
    BY <2>1, <2>2
  <2> HIDE DEF list
  <2>5. \A i \in 1 .. Len(list) : list[i] \in Range(outputs) \union Range(wires)
    BY <2>1, <2>4 DEF Range
  <2>6. \A h \in Range(outputs) \union Range(wires) : \E i \in 1 .. Len(list) : list[i] = h
    BY <2>1, <2>3 DEF Range
  <2>7. QED
    BY <2>1, <2>2, <2>5, <2>6
<1> HIDE DEF list
<1>4. bad # {} => Min(bad) \in bad
  <2>1. SUFFICES ASSUME bad # {} PROVE Min(bad) \in bad
    OBVIOUS
  <2>2. bad \in SUBSET Int /\ IsFiniteSet(bad)
    <3>1. IsFiniteSet(1 .. Len(list))
      BY <1>3, FS_Interval
    <3>2. QED
      BY <1>3, <3>1, FS_Subset
  <2> HIDE DEF bad
  <2>3. \E x \in bad : \A y \in bad : x <= y
    BY <2>1, <2>2, PairedFold!MinExists, SameFolds
  <2>4. QED
    BY <2>3 DEF Min
<1>5. bad # {} => g \in Range(outputs) \union Range(wires) /\ ~ GateNamed(g)
  BY <1>3, <1>4
<1>6. bad = {} => \A h \in Range(outputs) \union Range(wires) : GateNamed(h)
  BY <1>3
<1> HIDE DEF bad, g
<1>7. pc # "floating" /\ pc' # "floating" /\ pc' \in {"written", "crash", "reset"}
  BY <1>1
<1>8. /\ Paired' = Paired /\ Now' = Now /\ Done' = Done /\ PairsOK' /\ LiveOK'
      /\ \A f, h : RecPairFanin(f, h)' = RecPairFanin(f, h)
      /\ \A h : PairsOf(rec, h)' = PairsOf(rec, h)
  BY <1>1, <1>7, SameLive DEF Done
<1>9. TypeOK'
  BY <1>1, <1>2 DEF TypeOK
<1>10. ListOK'
  BY <1>1, <1>2, <1>7, <1>8 DEF ListOK
<1>11. MarksOK'
  BY <1>1, <1>2, <1>7, <1>8 DEF MarksOK
<1>12. DoneOK'
  <2>1. ASSUME NEW f \in Done, mark[f] = "PAR" PROVE Rebuilt(f)'
    <3>1. Rebuilt(f)
      BY <1>2, <1>7, <2>1 DEF DoneOK
    <3>2. QED
      BY <1>1, <3>1 DEF Rebuilt
  <2>2. ASSUME NEW h \in Done \intersect Paired PROVE Told(h)'
    <3>1. Told(h)
      BY <1>2, <1>7, <2>2 DEF DoneOK
    <3>2. Replaced(h)' <=> Replaced(h)
      BY <1>1 DEF Replaced
    <3>3. QED
      BY <1>1, <1>8, <3>1, <3>2 DEF Told
  <2>3. \A h : Replaced(h)' <=> Replaced(h)
    BY <1>1 DEF Replaced
  <2>4. QED
    BY <1>1, <1>2, <1>7, <1>8, <2>1, <2>2, <2>3 DEF DoneOK
<1>13. EndOK'
  <2>1. \A h : GateNamed(h)' <=> GateNamed(h)
    BY <1>1, <1>8 DEF GateNamed, Named
  <2>2. Written' => \A h \in Range(outputs)' \union Range(wires)' : GateNamed(h)'
    <3>1. Written' => bad = {}
      BY <1>1 DEF Written
    <3>2. Range(outputs)' = Range(outputs) /\ Range(wires)' = Range(wires)
      BY <1>1
    <3>3. QED
      BY <1>6, <2>1, <3>1, <3>2
  <2>3. ASSUME pc' = "crash" PROVE \E h \in Old : mark[h] = "ALL" /\ allTo[h] = None
    <3>1. bad # {} /\ mark[g] = "ALL" /\ allTo[g] = None
      BY <1>1, <2>3
    <3>2. g \in Old
      <4>1. g \in Old \union Gol
        BY <1>2, <1>5, <3>1 DEF TypeOK, Range
      <4>2. QED
        BY <1>2, <3>1, <4>1 DEF MarksOK
    <3>3. QED
      BY <3>1, <3>2
  <2>4. ResetWhenFloating'
    <3>1. SUFFICES ASSUME pc' = "reset", \A p \in Pins : rec[p] # None => p[1] \in Now PROVE FALSE
      BY <1>1, <1>8 DEF ResetWhenFloating
    <3>2. bad # {} /\ ~ (mark[g] = "ALL" /\ allTo[g] = None)
      BY <1>1, <3>1
    <3>3. QED
      BY <1>5, <1>7, <3>1, <3>2, UnnamedLostTarget
  <2>5. used \subseteq inputs \union Const /\ inputs \intersect Const = {}
    BY <1>1, <1>2 DEF EndOK
  <2>6. QED
    BY <1>1, <2>2, <2>3, <2>4, <2>5 DEF EndOK
<1>14. QED
  BY <1>8, <1>9, <1>10, <1>11, <1>12, <1>13 DEF IInv

-----------------------------------------------------------------------------

(* Every step preserves the invariant.                                     *)
LEMMA NextIInv == IInv /\ [Next]_vars => IInv'
<1> SUFFICES ASSUME IInv, [Next]_vars PROVE IInv'
  OBVIOUS
<1>1. CASE MarkFloatingGates
  BY <1>1, FloatingIInv
<1>2. CASE MarkOutputs
  BY <1>2, OutputsIInv
<1>3. CASE InduceAll
  BY <1>3, InduceIInv
<1>4. CASE EndInduce
  BY <1>4, EndInduceIInv
<1>5. CASE DecidePatchType
  <2>1. PICK g \in Gate : Wire(g) \/ Unpaired(g) \/ AlreadyPar(g) \/ AlreadyAll(g) \/ Choose(g)
    BY <1>5 DEF DecidePatchType
  <2>2. Decided(g)
    BY <2>1, WireDecided, UnpairedDecided, AlreadyParDecided, AlreadyAllDecided, ChooseDecided
  <2>3. QED
    BY <2>2, DecidedIInv
<1>6. CASE WriteInputs
  BY <1>6, WriteInputsIInv
<1>7. CASE WriteGates
  BY <1>7, WriteGatesIInv
<1>8. CASE UNCHANGED vars
  <2>1. /\ rec' = rec /\ first' = first /\ stamp' = stamp /\ mark' = mark /\ allTo' = allTo
        /\ queue' = queue /\ netList' = netList /\ used' = used /\ inputs' = inputs
        /\ outputs' = outputs /\ wires' = wires /\ clash' = clash /\ pc' = pc
    BY <1>8 DEF vars, pairs, lists
  <2>2. TypeOK /\ PairsOK /\ LiveOK /\ ListOK /\ MarksOK /\ DoneOK /\ EndOK
    BY DEF IInv
  <2>3. /\ Paired' = Paired /\ Now' = Now /\ Done' = Done /\ PairsOK' /\ NotFloating' = NotFloating
        /\ \A f, g : RecPairFanin(f, g)' = RecPairFanin(f, g)
        /\ \A g : PairsOf(rec, g)' = PairsOf(rec, g)
    BY <2>1, <2>2, SamePairs DEF Now, Done
  <2>4. MappedOn(Now)' = MappedOn(Now)
    BY <2>1, <2>3 DEF MappedOn
  <2>5. \A g : /\ Told(g)' <=> Told(g)
               /\ Rebuilt(g)' <=> Rebuilt(g)
               /\ GateNamed(g)' <=> GateNamed(g)
               /\ Replaced(g)' <=> Replaced(g)
    BY <2>1, <2>3 DEF Told, Replaced, Rebuilt, GateNamed, Named
  <2>6. TypeOK' /\ LiveOK' /\ ListOK' /\ MarksOK'
    BY <2>1, <2>2, <2>3, <2>4 DEF TypeOK, LiveOK, ListOK, MarksOK
  <2>7. DoneOK'
    BY <2>1, <2>2, <2>3, <2>5 DEF DoneOK
  <2>8. EndOK'
    BY <2>1, <2>2, <2>3, <2>5 DEF EndOK, Written, ResetWhenFloating
  <2>9. QED
    BY <2>3, <2>6, <2>7, <2>8 DEF IInv
<1>9. QED
  BY <1>1, <1>2, <1>3, <1>4, <1>5, <1>6, <1>7, <1>8 DEF Next

(* The invariant holds in every reachable state.                           *)
LEMMA SpecIInv == Spec => []IInv
<1>1. Init => IInv
  BY InitIInv
<1>2. IInv /\ [Next]_vars => IInv'
  BY NextIInv
<1>3. QED
  BY <1>1, <1>2, PTL DEF Spec

(* The types of the state; in particular each gate is decided and written  *)
(* once (netList, outputs and wires are injective).                        *)
THEOREM TypeCorrect == Spec => []TypeOK
<1>1. IInv => TypeOK
  BY DEF IInv
<1>2. QED
  BY <1>1, SpecIInv, PTL

(* The patch is given up for a gate without a name only when a pair of a   *)
(* floating gate was selected (getMappedFaninName, ERR_RESET_REC).         *)
THEOREM ResetOnlyWhenFloating == Spec => []ResetWhenFloating
<1>1. IInv => ResetWhenFloating
  BY DEF IInv, EndOK
<1>2. QED
  BY <1>1, SpecIInv, PTL

(* decidePatchType never changes the mark of a gate it was called for.     *)
THEOREM DecidedMarksFinal == Spec => MarksFinal
<1>1. IInv /\ [Next]_vars
        => [pc = "decide" => \A g \in (Now \union Paired) \ Range(netList) : mark'[g] = mark[g]]_vars
  <2>1. SUFFICES ASSUME IInv, Next, pc = "decide",
                        NEW g \in (Now \union Paired) \ Range(netList)
                 PROVE  mark'[g] = mark[g]
    OBVIOUS
  <2>2. CASE DecidePatchType
    <3>1. PICK h \in Gate : Wire(h) \/ Unpaired(h) \/ AlreadyPar(h) \/ AlreadyAll(h) \/ Choose(h)
      BY <2>2 DEF DecidePatchType
    <3>2. Decided(h)
      BY <2>1, <3>1, WireDecided, UnpairedDecided, AlreadyParDecided, AlreadyAllDecided, ChooseDecided
    <3>3. QED
      BY <2>1, <3>2, DecidedIInv DEF Done
  <2>3. CASE WriteInputs
    BY <2>3 DEF WriteInputs
  <2>4. QED
    BY <2>1, <2>2, <2>3
    DEF Next, MarkFloatingGates, MarkOutputs, InduceAll, EndInduce, WriteGates
<1>2. QED
  BY <1>1, SpecIInv, PTL DEF Spec, MarksFinal

-----------------------------------------------------------------------------
(* What the patch names is declared.                                       *)

(* What Declared asks of a name that the patch reads.                      *)
Provided(n) == n \in DeclaredNames <=> ~(n[1] \in Const /\ mark[n[1]] = "ALL")

(* The name of an input or of a constant is declared, whoever reads it, if *)
(* it is no constant that is an ALL: those are no inputs.                  *)
LEMMA InputProvided ==
  ASSUME TypeOK, MarksOK, inputs \intersect Const = {}, NEW g \in Old, g \in inputs \union Const
  PROVE  Provided(InputName(g)) /\ (mark[g] # "PAR" => Provided(KeptName(g)))
<1>1. mark[g] \in {"none", "PAR", "ALL"} /\ (g \in Const => mark[g] # "PAR")
  BY DEF TypeOK, MarksOK, Gate
<1>2. CASE g \notin Const
  <2>1. InputName(g) \in DeclaredNames /\ InputName(g)[1] = g
    BY <1>2 DEF DeclaredNames, InputName
  <2>2. mark[g] # "PAR" => KeptName(g) = InputName(g)
    BY <1>1 DEF KeptName, InputName
  <2>3. QED
    BY <1>2, <2>1, <2>2 DEF Provided
<1>3. CASE g \in Const /\ mark[g] = "ALL"
  <2>1. InputName(g) = <<g, "in">> /\ KeptName(g) = <<g, "in">>
    BY <1>3 DEF InputName, KeptName
  <2>2. <<g, "in">> \notin DeclaredNames
    BY <1>3 DEF DeclaredNames, InputName
  <2>3. QED
    BY <1>3, <2>1, <2>2 DEF Provided
<1>4. CASE g \in Const /\ mark[g] = "none"
  <2>1. InputName(g) = <<g, "net">> /\ KeptName(g) = <<g, "net">>
    BY <1>4 DEF InputName, KeptName
  <2>2. <<g, "net">> \in DeclaredNames
    BY <1>4 DEF DeclaredNames
  <2>3. QED
    BY <1>4, <2>1, <2>2 DEF Provided
<1>5. QED
  BY <1>1, <1>2, <1>3, <1>4

(* The name of a golden gate that has one is that of an input, a constant  *)
(* or a wire of the patch.                                                 *)
LEMMA NamedProvided ==
  ASSUME IInv, Written, NEW c \in Gol, Named(c)
  PROVE  Provided(MappedName(c))
<1>1. /\ used \subseteq inputs \union Const /\ inputs \intersect Const = {}
      /\ netList = << >> /\ TypeOK /\ MarksOK
      /\ Done \intersect Gol \subseteq Range(wires)
  BY DEF IInv, EndOK, ListOK, DoneOK, Written
<1>2. CASE Mapped[c] \in Old
  <2>1. Mapped[c] \in inputs \union Const /\ MappedName(c) = InputName(Mapped[c])
    BY <1>1, <1>2 DEF Named, MappedName
  <2>2. QED
    BY <1>1, <1>2, <2>1, InputProvided
<1>3. CASE Mapped[c] \notin Old
  <2>1. c \in Now /\ MappedName(c) = <<c, "net">>
    BY <1>3 DEF Named, MappedName
  <2>2. c \in Range(wires)
    BY <1>1, <2>1 DEF Done, Range
  <2>3. <<c, "net">> \in DeclaredNames
    BY <2>2 DEF DeclaredNames
  <2>4. mark[c] # "ALL"
    BY <1>1 DEF MarksOK
  <2>5. QED
    BY <2>1, <2>3, <2>4 DEF Provided
<1>4. QED
  BY <1>2, <1>3

(* What a gate that is rebuilt reads, and is not floating, is declared.    *)
LEMMA RebuiltProvided ==
  ASSUME IInv, Written, NEW f \in Range(outputs) \intersect Now, mark[f] = "PAR",
         NEW p \in PinsOf(f)
  PROVE  IF rec[p] = None THEN Provided(KeptName(Reads(p))) ELSE Provided(MappedName(rec[p]))
<1>1. /\ TypeOK /\ PairsOK /\ LiveOK /\ MarksOK /\ DoneOK
      /\ pc # "floating" /\ netList = << >> /\ inputs \intersect Const = {}
  BY DEF IInv, Written, ListOK, EndOK
<1>2. Done = Now \union Paired
  BY <1>1 DEF Done, Range
<1>3. p \in Pins /\ p[1] = f /\ f \in Old /\ Reads(p) \in Old
  BY <1>1, PinFacts DEF PinsOf, TypeOK, Range
<1>4. Rebuilt(f)
  BY <1>1, <1>2 DEF DoneOK
<1>5. CASE rec[p] = None /\ mark[Reads(p)] = "PAR"
  <2>1. Source(p) = Reads(p)
    BY <1>3, <1>5 DEF Source
  <2>2. Reads(p) \in Now
    BY <1>1, <1>3, <2>1, NotFloatingClosed DEF LiveOK, TypeOK
  <2>3. Reads(p) \in Range(outputs)
    BY <1>1, <1>2, <1>5, <2>2 DEF DoneOK, Rebuilt
  <2>4. KeptName(Reads(p)) = <<Reads(p), "net">>
    BY <1>5 DEF KeptName
  <2>5. KeptName(Reads(p)) \in DeclaredNames
    BY <2>3, <2>4 DEF DeclaredNames
  <2>6. KeptName(Reads(p))[1] = Reads(p) /\ mark[Reads(p)] # "ALL"
    BY <1>5, <2>4
  <2>7. QED
    BY <1>5, <2>5, <2>6 DEF Provided
<1>6. CASE rec[p] = None /\ mark[Reads(p)] # "PAR"
  <2>1. Reads(p) \in inputs \union Const
    BY <1>4, <1>6 DEF Rebuilt
  <2>2. QED
    BY <1>1, <1>3, <1>6, <2>1, InputProvided
<1>7. CASE rec[p] # None
  <2>1. rec[p] \in Gol
    BY <1>1, <1>3, <1>7, PairFacts
  <2>2. Named(rec[p])
    BY <1>1, <1>3, <2>1, LiveNamed
  <2>3. QED
    BY <1>7, <2>1, <2>2, NamedProvided
<1>8. QED
  BY <1>5, <1>6, <1>7

(* The invariant implies that every name is declared: a golden gate reads  *)
(* golden gates that have names, the net of an ALL its target, and a gate  *)
(* of the outputs that is no ALL is rebuilt.                               *)
LEMMA IInvDeclared == IInv => Declared
<1> SUFFICES ASSUME IInv, Written,
                    NEW g \in Range(outputs) \union Range(wires), g \in Now \/ mark[g] = "ALL",
                    NEW n \in NamesRead(g)
             PROVE  Provided(n)
  BY DEF Declared, Provided
<1>1. /\ TypeOK /\ PairsOK /\ MarksOK /\ DoneOK /\ EndOK /\ pc # "floating"
  BY DEF IInv, Written
<1>2. GateNamed(g)
  BY <1>1 DEF EndOK
<1>3. g \in Old \union Gol /\ (g \in Range(wires) => g \in Gol)
  BY <1>1 DEF TypeOK, Range
<1>4. CASE g \in Gol
  <2>1. mark[g] # "ALL"
    BY <1>1, <1>4 DEF MarksOK
  <2>2. PICK p \in PinsOf(g) : n = MappedName(Reads(p))
    BY <1>4, <2>1 DEF NamesRead
  <2>3. Named(Reads(p)) /\ Reads(p) \in Gol
    BY <1>2, <1>4, <2>1, <2>2, PinFacts DEF GateNamed, PinsOf
  <2>4. QED
    BY <2>2, <2>3, NamedProvided
<1>5. CASE g \notin Gol /\ mark[g] = "ALL"
  <2>1. n = MappedName(allTo[g])
    BY <1>5 DEF NamesRead
  <2>2. allTo[g] # None /\ Named(allTo[g]) /\ allTo[g] \in Gol
    BY <1>1, <1>2, <1>3, <1>5 DEF GateNamed, TypeOK
  <2>3. QED
    BY <2>1, <2>2, NamedProvided
<1>6. CASE g \notin Gol /\ mark[g] # "ALL"
  <2>1. g \in Range(outputs) \intersect Now /\ mark[g] = "PAR"
    <3>1. g \in Range(outputs) /\ g \in Now /\ g \in Gate
      BY <1>3, <1>6 DEF Gate
    <3>2. mark[g] \in {"none", "PAR", "ALL"} /\ mark[g] # "none"
      BY <1>1, <3>1 DEF TypeOK, DoneOK
    <3>3. QED
      BY <1>6, <3>1, <3>2
  <2>2. PICK p \in PinsOf(g) : n = IF rec[p] = None THEN KeptName(Reads(p)) ELSE MappedName(rec[p])
    BY <1>6 DEF NamesRead
  <2>3. QED
    BY <2>1, <2>2, RebuiltProvided
<1>7. QED
  BY <1>4, <1>5, <1>6

(* Whatever the selection, a patch that is written declares the names that *)
(* its gates read, as inputs, outputs or wires, and only the names of con- *)
(* stants that are ALLs are missing.                                       *)
THEOREM PatchDeclares == Spec => []Declared
<1>1. QED
  BY IInvDeclared, SpecIInv, PTL

-----------------------------------------------------------------------------
(* The targets of the ALLs.                                                *)

(* An ALL without a target is one that two ALLs disagreed about, or that   *)
(* some gate reads by two pins with different pairs.                       *)
TargetOK ==
  \A g \in Old : (mark[g] = "ALL" \/ g \in Range(queue)) /\ allTo[g] = None => g \in clash \/ Split(g)

(* A step of the marking leaves a net without a target only for these      *)
(* reasons: an ALL takes for a net the pair of the last of its pins there. *)
LEMMA InduceTarget ==
  ASSUME IInv, TargetOK, InduceAll
  PROVE  TargetOK'
<1> DEFINE g == Head(queue)
<1> DEFINE paired == PairedNets(GatePins(g))
<1> DEFINE target == Targets(g)
<1>1. /\ g \in Old /\ g \in Range(queue) /\ g \in Gate
      /\ mark' = [mark EXCEPT ![g] = "ALL"]
      /\ queue' \in Seq(Old) /\ Range(queue') \subseteq Range(queue) \union Range(paired)
      /\ \/ /\ allTo' = [h \in Old |-> IF h \in DOMAIN target THEN target[h] ELSE allTo[h]]
            /\ clash' = clash \union
                 {h \in DOMAIN target :
                    (mark[h] = "ALL" \/ h \in Range(queue)) /\ target[h] # allTo[h]}
         \/ paired = << >> /\ allTo' = allTo /\ clash' = clash
      /\ rec' = rec
  BY InduceFacts
<1>2. TypeOK /\ PairsOK
  BY DEF IInv
<1>3. ASSUME NEW h \in Range(paired) PROVE h \in DOMAIN target /\ (target[h] = None => Split(h))
  <2>1. PICK i \in 1 .. Len(GatePins(g)) : rec[GatePins(g)[i]] # None /\ Reads(GatePins(g)[i]) = h
    BY <1>1, <1>2, <1>3, GatePinsType, QueuedType
  <2>2. i \in 1 .. Len(Fanin[g]) /\ GatePins(g)[i] = <<g, i>> /\ <<g, i>> \in Pins
    BY <1>1, <2>1, GatePinsType
  <2>3. rec[<<g, i>>] # None /\ Reads(<<g, i>>) = h
    BY <2>1, <2>2
  <2>4. h \in Range(Fanin[g])
    <3>1. i \in DOMAIN Fanin[g]
      BY <1>1, <2>2, PatchMarksAssumption
    <3>2. QED
      BY <2>3, <3>1 DEF Reads, Range
  <2>5. PICK p \in PinsOf(g) : Reads(p) = h /\ target[h] = rec[p]
    BY <1>1, <1>2, <2>4, TargetsFacts
  <2>6. <<g, i>> \in FanoutPins(h) /\ p \in FanoutPins(h) /\ p[1] = g
    BY <2>2, <2>3, <2>5 DEF FanoutPins, PinsOf
  <2>7. target[h] = None => Split(h)
    <3>1. SUFFICES ASSUME target[h] = None PROVE Split(h)
      OBVIOUS
    <3>2. rec[p] # rec[<<g, i>>] /\ p[1] = <<g, i>>[1]
      BY <2>3, <2>5, <2>6, <3>1
    <3>3. QED
      BY <2>6, <3>2 DEF Split
  <2>8. QED
    BY <1>1, <1>2, <2>4, <2>7, TargetsFacts
<1>4. \A h : Split(h)' <=> Split(h)
  BY <1>1 DEF Split
<1> HIDE DEF g, paired, target
<1>5. SUFFICES ASSUME NEW h \in Old, mark'[h] = "ALL" \/ h \in Range(queue'), allTo'[h] = None
               PROVE  h \in clash' \/ Split(h)
  BY <1>4 DEF TargetOK
<1>6. CASE mark[h] = "ALL" \/ h \in Range(queue)
  <2>1. allTo[h] = None => h \in clash \/ Split(h)
    BY <1>6 DEF TargetOK
  <2>2. clash \subseteq clash' /\ (allTo[h] # None => h \in clash')
    BY <1>1, <1>5, <1>6
  <2>3. QED
    BY <2>1, <2>2
<1>7. CASE ~ (mark[h] = "ALL" \/ h \in Range(queue))
  <2>1. h \in Range(paired)
    BY <1>1, <1>2, <1>5, <1>7 DEF TypeOK, Gate
  <2>2. paired # << >>
    BY <2>1 DEF Range
  <2>3. QED
    BY <1>1, <1>3, <1>5, <2>1, <2>2
<1>8. QED
  BY <1>6, <1>7

(* So every step keeps TargetOK.                                           *)
LEMMA NextTarget ==
  ASSUME IInv, TargetOK, [Next]_vars
  PROVE  TargetOK'
<1>1. \A g : Split(g)' <=> Split(g)
  <2>1. rec' = rec
    BY DEF Next, vars, pairs, MarkFloatingGates, MarkOutputs, InduceAll, EndInduce, DecidePatchType,
           Wire, Unpaired, AlreadyPar, AlreadyAll, Choose, WriteInputs, WriteGates
  <2>2. QED
    BY <2>1 DEF Split
<1>2. CASE MarkOutputs
  <2>1. TypeOK /\ PairsOK /\ MarksOK
    BY DEF IInv
  <2>2. /\ pc = "outputs" /\ mark' = mark /\ queue' = PairedNets(OutputPins)
        /\ allTo' = [g \in Old |-> IF OutputPairs(g) # {}
                                   THEN rec[CHOOSE p \in OutputPairs(g) : TRUE] ELSE allTo[g]]
    BY <1>2 DEF MarkOutputs
  <2>3. SUFFICES ASSUME NEW g \in Old, mark'[g] = "ALL" \/ g \in Range(queue') PROVE allTo'[g] # None
    BY DEF TargetOK
  <2>4. g \in Range(PairedNets(OutputPins))
    BY <2>1, <2>2, <2>3 DEF MarksOK, Gate
  <2>5. PICK i \in 1 .. Len(OutputPins) : rec[OutputPins[i]] # None /\ Reads(OutputPins[i]) = g
    BY <2>1, <2>4, OutputPinsType, QueuedType
  <2>6. OutputPins[i] \in OutputPairs(g)
    BY <2>5, OutputPinsType DEF OutputPairs, Range
  <2>7. \A p \in OutputPairs(g) : rec[p] # None
    BY DEF OutputPairs
  <2>8. QED
    BY <2>2, <2>6, <2>7
<1>3. CASE InduceAll
  BY <1>3, InduceTarget
<1>4. CASE DecidePatchType
  <2>1. PICK g \in Gate : Wire(g) \/ Unpaired(g) \/ AlreadyPar(g) \/ AlreadyAll(g) \/ Choose(g)
    BY <1>4 DEF DecidePatchType
  <2>2. Decided(g)
    BY <2>1, WireDecided, UnpairedDecided, AlreadyParDecided, AlreadyAllDecided, ChooseDecided
  <2>3. /\ queue' = queue /\ clash' = clash
        /\ \A f \in Old : mark'[f] = "ALL" => mark[f] = "ALL" \/ allTo'[f] # None
        /\ \A f \in Old : allTo'[f] = None => allTo[f] = None
    BY <2>2 DEF Decided, Gate
  <2>4. QED
    BY <1>1, <2>3 DEF TargetOK
<1>5. CASE MarkFloatingGates \/ EndInduce \/ WriteInputs \/ WriteGates \/ UNCHANGED vars
  <2>1. mark' = mark /\ queue' = queue /\ allTo' = allTo /\ clash' = clash
    BY <1>5 DEF MarkFloatingGates, EndInduce, WriteInputs, WriteGates, vars, lists, pairs
  <2>2. QED
    BY <1>1, <2>1 DEF TargetOK
<1>6. QED
  BY <1>2, <1>3, <1>4, <1>5 DEF Next

(* The target that outputPatchFile uses without a test is null only for a  *)
(* net that two ALLs disagreed about, or that some gate reads by two pins  *)
(* with different pairs.                                                   *)
THEOREM TargetUnlessClash == Spec => []CrashWhenClash
<1>1. Init => TargetOK
  BY DEF Init, TargetOK, Gate, Range
<1>2. IInv /\ TargetOK /\ [Next]_vars => TargetOK'
  BY NextTarget
<1>3. IInv /\ TargetOK => CrashWhenClash
  BY DEF IInv, EndOK, TargetOK, CrashWhenClash
<1>4. QED
  BY <1>1, <1>2, <1>3, SpecIInv, PTL DEF Spec

(* After the patch every live gate that is not rebuilt reads what the      *)
(* selection says on each pin that has the pair the code finds for the net *)
(* there (getRecPairFanin, decidePatchType): a net that is replaced has a  *)
(* target then, or the patch is not written.                               *)
THEOREM LiveNetsRight == Spec => []NetsRight
<1>1. ASSUME IInv, Written, NEW f \in Now \intersect Old, mark[f] # "PAR",
             NEW p \in PinsOf(f), rec[p] = RecPairFanin(f, Reads(p))
      PROVE  PinRight(p)
  <2>1. /\ TypeOK /\ PairsOK /\ MarksOK /\ DoneOK /\ EndOK /\ pc # "floating" /\ netList = << >>
    BY <1>1 DEF IInv, Written, ListOK
  <2>2. Done = Now \union Paired
    BY <2>1 DEF Done, Range
  <2>3. p \in Pins /\ p[1] = f /\ Reads(p) \in Old
    BY <1>1, PinFacts DEF PinsOf
  <2>4. f \in Fanouts(Reads(p))
    BY <2>3 DEF Fanouts, FanoutPins
  <2>5. Reads(p) \in Paired
          => rec[p] = IF Replaced(Reads(p)) THEN allTo[Reads(p)] ELSE None
    BY <1>1, <2>1, <2>2, <2>4 DEF DoneOK, Told
  <2>6. CASE rec[p] = None
    <3>1. SUFFICES ASSUME Replaced(Reads(p)) PROVE FALSE
      BY <2>6 DEF PinRight
    <3>2. mark[Reads(p)] = "ALL" /\ Reads(p) \in Paired /\ Reads(p) \notin Gol
      BY <2>1, <2>3, <3>1, PatchMarksAssumption DEF Replaced, MarksOK
    <3>3. allTo[Reads(p)] = None
      BY <2>5, <2>6, <3>1, <3>2
    <3>4. GateNamed(Reads(p))
      BY <1>1, <2>1, <2>2, <3>1, <3>2 DEF DoneOK, EndOK
    <3>5. QED
      BY <3>2, <3>3, <3>4 DEF GateNamed
  <2>7. CASE rec[p] # None
    <3>1. Reads(p) \in Paired
      BY <2>1, <2>3, <2>7, PairFacts
    <3>2. QED
      BY <2>5, <2>7, <3>1 DEF PinRight
  <2>8. QED
    BY <2>6, <2>7
<1>2. IInv => NetsRight
  BY <1>1 DEF NetsRight
<1>3. QED
  BY <1>2, SpecIInv, PTL
=============================================================================
