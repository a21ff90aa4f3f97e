---------------------------- MODULE NetCutsProofs -----------------------------
(***************************************************************************)
(* What the operators on netlists give: what a set of gates reaches is a   *)
(* least set, the walk to the lowest cut reaches gates from the root only  *)
(* and comes to an end, and levels are natural numbers.                    *)
(***************************************************************************)
EXTENDS NetCuts, FiniteSetTheorems, TLAPS

(* One round of what is reached: e has the round, and what is reached from *)
(* where.                                                                  *)
Round(v, e) ==
  IF e.n = 0 THEN e.base ELSE v[e.n - 1] \union ReadBy(e.f, v[e.n - 1], e.within)
ReachDef == INSTANCE FoldLemmas WITH Op <- Round

-----------------------------------------------------------------------------
(* R is the least set with base that has what it reads within a set.       *)
Least(R, f, base, within) ==
  /\ base \subseteq R /\ R \subseteq base \union within
  /\ ReadBy(f, R, within) \subseteq R
  /\ \A S : base \subseteq S /\ ReadBy(f, S, within) \subseteq S => R \subseteq S

(* A larger set reads more, within the same set.                           *)
LEMMA ReadByMonotone ==
  ASSUME NEW f, NEW R, NEW S, NEW within, R \subseteq S
  PROVE  /\ ReadBy(f, R, within) \subseteq ReadBy(f, S, within)
         /\ ReadBy(f, R, within) \subseteq within
BY DEF ReadBy

(* As many rounds as there are gates to reach are enough.                  *)
LEMMA ReachLeast ==
  ASSUME NEW f, NEW base, NEW within, IsFiniteSet(within)
  PROVE  Least(Reach(f, base, within), f, base, within)
<1> DEFINE N == Cardinality(within)
           e == [n \in Nat |-> [n |-> n, f |-> f, base |-> base, within |-> within]]
           rank == [n \in Nat |-> n]
           Eq(r) == r = [n \in Nat |-> IF n = 0 THEN base
                                       ELSE r[n - 1] \union ReadBy(f, r[n - 1], within)]
<1>1. N \in Nat
  BY FS_CardinalityType
<1>2. \E r : Eq(r)
  <2>1. ReachDef!DependsOnLower(Nat, rank, e)
    <3>1. SUFFICES ASSUME NEW n \in Nat, NEW v, NEW w,
                          \A m \in Nat : rank[m] < rank[n] => v[m] = w[m]
                   PROVE  Round(v, e[n]) = Round(w, e[n])
      BY DEF ReachDef!DependsOnLower
    <3>2. n # 0 => n - 1 \in Nat /\ rank[n - 1] < rank[n]
      OBVIOUS
    <3>3. n # 0 => v[n - 1] = w[n - 1]
      BY <3>1, <3>2
    <3>4. e[n].n = n
      OBVIOUS
    <3> HIDE DEF e
    <3>5. QED
      BY <3>3, <3>4 DEF Round
  <2>2. rank \in [Nat -> Nat]
    OBVIOUS
  <2> HIDE DEF e, rank
  <2>3. PICK r : ReachDef!Recurses(r, Nat, e)
    BY <2>1, <2>2, ReachDef!RecursionExists
  <2>4. r = [n \in Nat |-> Round(r, e[n])]
    BY <2>3 DEF ReachDef!Recurses
  <2>5. \A n \in Nat : Round(r, e[n]) = IF n = 0 THEN base
                                        ELSE r[n - 1] \union ReadBy(f, r[n - 1], within)
    BY DEF e, Round
  <2>6. Eq(r)
    BY <2>4, <2>5
  <2> HIDE DEF Eq
  <2>7. QED
    BY <2>6
<1> DEFINE reach == CHOOSE r : Eq(r)
<1>3. Eq(reach)
  <2> HIDE DEF Eq
  <2>1. QED
    BY <1>2
<1>4. Reach(f, base, within) = reach[N]
  BY DEF Reach
<1> HIDE DEF reach
<1>5. /\ reach[0] = base
      /\ \A i \in 1 .. N : reach[i] = reach[i - 1] \union ReadBy(f, reach[i - 1], within)
  <2>1. \A n \in Nat : reach[n] = IF n = 0 THEN base
                                  ELSE reach[n - 1] \union ReadBy(f, reach[n - 1], within)
    BY <1>3
  <2>2. \A i \in 1 .. N : i \in Nat /\ i # 0
    BY <1>1
  <2>3. QED
    BY <2>1, <2>2
<1> DEFINE Smallest(R) == \A S : base \subseteq S /\ ReadBy(f, S, within) \subseteq S
                                 => R \subseteq S
           Done(R) == ReadBy(f, R, within) \subseteq R
           G == {i \in 0 .. N : /\ base \subseteq reach[i] /\ reach[i] \subseteq base \union within
                                /\ Smallest(reach[i])
                                /\ Done(reach[i]) \/ Cardinality(reach[i] \intersect within) >= i}
<1> HIDE DEF N
<1>6. 0 \in G
  <2>1. IsFiniteSet(base \intersect within)
    BY FS_Intersection
  <2>2. Cardinality(base \intersect within) \in Nat
    BY <2>1, FS_CardinalityType
  <2>3. Cardinality(reach[0] \intersect within) >= 0
    BY <1>5, <2>2
  <2>4. Smallest(reach[0])
    BY <1>5
  <2>5. QED
    BY <1>1, <1>5, <2>3, <2>4
<1>7. ASSUME NEW i \in 1 .. N, i - 1 \in G PROVE i \in G
  <2> DEFINE S == reach[i - 1]
             T == reach[i]
  <2>1. T = S \union ReadBy(f, S, within)
    BY <1>5
  <2>2. /\ base \subseteq S /\ S \subseteq base \union within /\ Smallest(S)
        /\ Done(S) \/ Cardinality(S \intersect within) >= i - 1
    BY <1>7
  <2> HIDE DEF S, T
  <2>3. base \subseteq T /\ T \subseteq base \union within /\ S \subseteq T
    BY <2>1, <2>2, ReadByMonotone
  <2>4. Smallest(T)
    <3>1. SUFFICES ASSUME NEW U, base \subseteq U, ReadBy(f, U, within) \subseteq U
                   PROVE  T \subseteq U
      OBVIOUS
    <3>2. S \subseteq U
      BY <2>2, <3>1
    <3>3. QED
      BY <2>1, <3>1, <3>2, ReadByMonotone
  <2>5. Done(T) \/ Cardinality(T \intersect within) >= i
    <3>1. CASE Done(S)
      BY <2>1, <3>1
    <3>2. CASE ~Done(S)
      <4>1. S \intersect within # T \intersect within
        BY <2>1, <3>2, ReadByMonotone
      <4>2. /\ IsFiniteSet(T \intersect within) /\ IsFiniteSet(S \intersect within)
            /\ Cardinality(S \intersect within) \in Nat /\ Cardinality(T \intersect within) \in Nat
        BY FS_Intersection, FS_CardinalityType
      <4>3. Cardinality(S \intersect within) < Cardinality(T \intersect within)
        BY <2>3, <4>1, <4>2, FS_Subset
      <4>4. Cardinality(S \intersect within) >= i - 1
        BY <2>2, <3>2
      <4>5. QED
        BY <1>1, <4>2, <4>3, <4>4
    <3>3. QED
      BY <3>1, <3>2
  <2>6. QED
    BY <2>2, <2>3, <2>4, <2>5 DEF S, T
<1>8. N \in G
  <2> HIDE DEF G
  <2>1. \A i \in 0 .. N : i \in G
    BY <1>1, <1>6, <1>7, ReachDef!IntervalInduction
  <2>2. QED
    BY <1>1, <2>1
<1>9. Done(reach[N])
  <2> DEFINE R == reach[N]
  <2>1. Done(R) \/ Cardinality(R \intersect within) >= N
    BY <1>8
  <2> HIDE DEF R
  <2>2. IsFiniteSet(R \intersect within) /\ R \intersect within \subseteq within
    BY FS_Intersection
  <2>3. Cardinality(R \intersect within) <= N /\ Cardinality(R \intersect within) \in Nat
        /\ (Cardinality(R \intersect within) = N => R \intersect within = within)
    BY <2>2, FS_Subset, FS_CardinalityType DEF N
  <2>4. Cardinality(R \intersect within) >= N => within \subseteq R
    BY <1>1, <2>3
  <2>5. QED
    BY <2>1, <2>4, ReadByMonotone DEF R
<1>10. QED
  BY <1>4, <1>8, <1>9 DEF Least

-----------------------------------------------------------------------------
(* The walk to the lowest cut.                                             *)

(* One visit of the walk: e has the number of the visit, where the walk    *)
(* starts and the netlist with its marks.                                  *)
VisitAt(v, e) == IF e.i = 0 THEN e.start ELSE Visit(v[e.i - 1], e.n)
WalkDef == INSTANCE FoldLemmas WITH Op <- VisitAt

(* Before the first visit the root waits.                                  *)
StartOf(gates, root) ==
  [marks |-> NoMarks(gates), waiting |-> <<[gate |-> root, new |-> FALSE]>>]

(* A gate has finitely many pins, and so has a netlist.                    *)
LEMMA PinsFinite ==
  ASSUME NEW f, IsFiniteSet(DOMAIN f), NEW E, \A g \in DOMAIN f : f[g] \in Seq(E)
  PROVE  IsFiniteSet(UNION {{g} \X DOMAIN f[g] : g \in DOMAIN f})
<1>1. ASSUME NEW g \in DOMAIN f PROVE IsFiniteSet({g} \X DOMAIN f[g])
  <2>1. DOMAIN f[g] = 1 .. Len(f[g]) /\ 1 \in Int /\ Len(f[g]) \in Int
    OBVIOUS
  <2>2. IsFiniteSet(1 .. Len(f[g]))
    BY <2>1, FS_Interval
  <2>3. IsFiniteSet({g})
    BY FS_Singleton
  <2>4. QED
    BY <2>1, <2>2, <2>3, FS_Product
<1> DEFINE PinsOf(g) == {g} \X DOMAIN f[g]
           D == DOMAIN f
<1>2. IsFiniteSet({PinsOf(g) : g \in D})
  <2> HIDE DEF PinsOf, D
  <2>1. [g \in D |-> PinsOf(g)] \in Surjection(D, {PinsOf(g) : g \in D})
    BY DEF Surjection
  <2>2. IsFiniteSet(D)
    BY DEF D
  <2>3. QED
    BY <2>1, <2>2, FS_Surjection
<1>3. QED
  BY <1>1, <1>2, FS_UNION

(* The pins of a netlist, and how many visits the walk makes.              *)
Pins(f) == UNION {{g} \X DOMAIN f[g] : g \in DOMAIN f}
Visits(n) == Cardinality(Pins(n.fanin)) + 1

(* The walk of MarkBottomCut, step by step.                                *)
WalkOf(walk, gates, root, n) ==
  /\ walk[0] = StartOf(gates, root)
  /\ \A i \in 1 .. Visits(n) : walk[i] = Visit(walk[i - 1], n)
  /\ MarkBottomCut(gates, root, n) = walk[Visits(n)].marks
LEMMA MarkWalk ==
  ASSUME NEW gates, NEW root, NEW n, IsFiniteSet(DOMAIN n.fanin), NEW E,
         \A g \in DOMAIN n.fanin : n.fanin[g] \in Seq(E)
  PROVE  /\ Visits(n) \in Nat
         /\ \E walk : WalkOf(walk, gates, root, n)
<1> DEFINE pins == UNION {{g} \X DOMAIN n.fanin[g] : g \in DOMAIN n.fanin}
           N == Cardinality(pins) + 1
           e == [i \in Nat |-> [i |-> i, start |-> StartOf(gates, root), n |-> n]]
           rank == [i \in Nat |-> i]
           Eq(r) == r = [i \in Nat |-> IF i = 0 THEN StartOf(gates, root) ELSE Visit(r[i - 1], n)]
<1>1. N \in Nat
  <2>1. IsFiniteSet(pins)
    BY PinsFinite
  <2> HIDE DEF pins
  <2>2. QED
    BY <2>1, FS_CardinalityType
<1>2. \E r : Eq(r)
  <2>1. WalkDef!DependsOnLower(Nat, rank, e)
    <3>1. SUFFICES ASSUME NEW i \in Nat, NEW v, NEW w,
                          \A j \in Nat : rank[j] < rank[i] => v[j] = w[j]
                   PROVE  VisitAt(v, e[i]) = VisitAt(w, e[i])
      BY DEF WalkDef!DependsOnLower
    <3>2. i # 0 => i - 1 \in Nat /\ rank[i - 1] < rank[i]
      OBVIOUS
    <3>3. i # 0 => v[i - 1] = w[i - 1]
      BY <3>1, <3>2
    <3>4. e[i].i = i
      OBVIOUS
    <3> HIDE DEF e
    <3>5. QED
      BY <3>3, <3>4 DEF VisitAt
  <2>2. rank \in [Nat -> Nat]
    OBVIOUS
  <2> HIDE DEF e, rank
  <2>3. PICK r : WalkDef!Recurses(r, Nat, e)
    BY <2>1, <2>2, WalkDef!RecursionExists
  <2>4. r = [i \in Nat |-> VisitAt(r, e[i])]
    BY <2>3 DEF WalkDef!Recurses
  <2>5. \A i \in Nat : VisitAt(r, e[i]) = IF i = 0 THEN StartOf(gates, root) ELSE Visit(r[i - 1], n)
    BY DEF e, VisitAt
  <2>6. Eq(r)
    BY <2>4, <2>5
  <2> HIDE DEF Eq
  <2>7. QED
    BY <2>6
<1> DEFINE walk == CHOOSE r : Eq(r)
<1>3. Eq(walk)
  <2> HIDE DEF Eq
  <2>1. QED
    BY <1>2
<1>4. MarkBottomCut(gates, root, n) = walk[N].marks
  BY DEF MarkBottomCut, StartOf
<1> HIDE DEF walk, N
<1>5. walk[0] = StartOf(gates, root) /\ \A i \in 1 .. N : walk[i] = Visit(walk[i - 1], n)
  <2>1. \A i \in Nat : walk[i] = IF i = 0 THEN StartOf(gates, root) ELSE Visit(walk[i - 1], n)
    BY <1>3
  <2>2. \A i \in 1 .. N : i \in Nat /\ i # 0
    BY <1>1
  <2>3. QED
    BY <2>1, <2>2
<1>6. Visits(n) = N
  BY DEF N, Visits, Pins
<1>7. QED
  BY <1>1, <1>4, <1>5, <1>6 DEF WalkOf

(* Each gate that is reached, besides the root, is read by one that is and *)
(* that does not stop the walk.                                            *)
ReadFrom(g, reached, root, n) ==
  g = root \/ \E p \in reached : ~Stops(p, n) /\ g \in Range(n.fanin[p])
Marked(m, root, side, n) ==
  /\ m.reached \subseteq side
  /\ m.dups \in Seq(m.reached \intersect n.dups)
  /\ \A g \in m.reached : ReadFrom(g, m.reached, root, n)

(* So is each gate that waits.                                             *)
Waiting(w, root, side, n) ==
  w.waiting \in Seq([gate : {g \in side : ReadFrom(g, w.marks.reached, root, n)}, new : BOOLEAN])

(* What MarkGate adds to the gates reached and to the dups.                *)
LEMMA MarkGateAdds ==
  ASSUME NEW m, NEW g, NEW new, NEW n
  PROVE  /\ MarkGate(m, g, new, n).reached = m.reached \union {g}
         /\ MarkGate(m, g, new, n).dups = IF g \in n.dups THEN Append(m.dups, g) ELSE m.dups
BY DEF MarkGate

(* A visit keeps this.                                                     *)
LEMMA VisitKeeps ==
  ASSUME NEW w, NEW root, NEW side, NEW n, \A g \in side : n.fanin[g] \in Seq(side),
         Marked(w.marks, root, side, n), Waiting(w, root, side, n)
  PROVE  Marked(Visit(w, n).marks, root, side, n) /\ Waiting(Visit(w, n), root, side, n)
<1>1. CASE w.waiting = <<>>
  BY <1>1 DEF Visit
<1>2. CASE w.waiting # <<>>
  <2> DEFINE q == w.waiting
             g == Head(q).gate
             old == w.marks.reached
             seen == g \in old
             fanins == [i \in DOMAIN n.fanin[g] |->
                          [gate |-> n.fanin[g][i], new |-> n.level[g] = n.low + 1]]
             add == IF seen \/ Stops(g, n) THEN <<>> ELSE fanins
             v == Visit(w, n)
             reached == v.marks.reached
             Entry(R) == [gate : {h \in side : ReadFrom(h, R, root, n)}, new : BOOLEAN]
  <2>1. /\ v.marks = IF seen THEN w.marks ELSE MarkGate(w.marks, g, Head(q).new, n)
        /\ v.waiting = add \o Tail(q)
    BY <1>2 DEF Visit
  <2>2. q \in Seq(Entry(old)) /\ Head(q) \in Entry(old) /\ Tail(q) \in Seq(Entry(old))
    <3>1. q \in Seq(Entry(old))
      BY DEF Waiting
    <3>2. q # <<>>
      BY <1>2
    <3> HIDE DEF Entry, q
    <3>3. QED
      BY <3>1, <3>2
  <2>3. g \in side /\ ReadFrom(g, old, root, n)
    BY <2>2
  <2>4. ~seen => /\ reached = old \union {g}
                 /\ v.marks.dups = IF g \in n.dups THEN Append(w.marks.dups, g) ELSE w.marks.dups
    <3> DEFINE m == w.marks
               new == Head(q).new
    <3>1. ~seen => v.marks = MarkGate(m, g, new, n)
      BY <2>1
    <3> HIDE DEF m, new, g, v
    <3>2. /\ MarkGate(m, g, new, n).reached = m.reached \union {g}
          /\ MarkGate(m, g, new, n).dups = IF g \in n.dups THEN Append(m.dups, g) ELSE m.dups
      BY MarkGateAdds
    <3>3. QED
      BY <3>1, <3>2 DEF m
  <2>5. reached = old \union {g}
    <3>1. CASE seen
      BY <2>1, <3>1
    <3>2. CASE ~seen
      BY <2>4, <3>2
    <3>3. QED
      BY <3>1, <3>2
  <2>6. \A h, R, S : R \subseteq S /\ ReadFrom(h, R, root, n) => ReadFrom(h, S, root, n)
    BY DEF ReadFrom
  <2>7. v.marks.dups \in Seq(reached \intersect n.dups)
    <3>1. w.marks.dups \in Seq(old \intersect n.dups)
      BY DEF Marked
    <3>2. w.marks.dups \in Seq(reached \intersect n.dups)
      BY <2>5, <3>1
    <3>3. CASE seen
      BY <2>1, <3>2, <3>3
    <3>4. CASE ~seen
      <4>1. v.marks.dups = IF g \in n.dups THEN Append(w.marks.dups, g) ELSE w.marks.dups
        BY <2>4, <3>4
      <4>2. g \in n.dups => g \in reached \intersect n.dups
        BY <2>5
      <4> HIDE DEF g, reached, v
      <4>3. QED
        BY <3>2, <4>1, <4>2
    <3>5. QED
      BY <3>3, <3>4
  <2>8. Marked(v.marks, root, side, n)
    BY <2>3, <2>5, <2>6, <2>7 DEF Marked
  <2>9. Entry(old) \subseteq Entry(reached)
    BY <2>5, <2>6
  <2>10. add \in Seq(Entry(reached))
    <3>1. CASE seen \/ Stops(g, n)
      BY <3>1
    <3>2. CASE ~seen /\ ~Stops(g, n)
      <4>1. n.fanin[g] \in Seq(side)
        BY <2>3
      <4>2. DOMAIN n.fanin[g] = 1 .. Len(n.fanin[g]) /\ Len(n.fanin[g]) \in Nat
        BY <4>1
      <4>3. ASSUME NEW i \in DOMAIN n.fanin[g] PROVE fanins[i] \in Entry(reached)
        <5>1. n.fanin[g][i] \in side /\ n.fanin[g][i] \in Range(n.fanin[g])
          BY <4>1 DEF Range
        <5>2. ReadFrom(n.fanin[g][i], reached, root, n)
          BY <2>5, <3>2, <5>1 DEF ReadFrom
        <5>3. QED
          BY <5>1, <5>2
      <4> DEFINE A == Entry(reached)
                 l == Len(n.fanin[g])
      <4>4. fanins = [i \in 1 .. l |-> fanins[i]]
        BY <4>2
      <4>5. l \in Nat /\ \A i \in 1 .. l : fanins[i] \in A
        BY <4>2, <4>3
      <4> HIDE DEF A, fanins, l
      <4>6. fanins \in Seq(A)
        BY <4>4, <4>5
      <4>7. QED
        BY <3>2, <4>6 DEF A
    <3>3. QED
      BY <3>1, <3>2
  <2>11. v.waiting \in Seq(Entry(reached))
    <3>1. Tail(q) \in Seq(Entry(reached))
      <4> DEFINE A == Entry(old)
                 B == Entry(reached)
                 t == Tail(q)
      <4>1. t \in Seq(A) /\ A \subseteq B
        BY <2>2, <2>9
      <4> HIDE DEF A, B, t
      <4>2. t \in Seq(B)
        BY <4>1
      <4>3. QED
        BY <4>2 DEF B, t
    <3> HIDE DEF Entry, add, q
    <3>2. QED
      BY <2>1, <2>10, <3>1
  <2>12. QED
    BY <2>8, <2>11 DEF Waiting
<1>3. QED
  BY <1>1, <1>2

(* The walk reaches gates of the root's side only, each from the root.     *)
LEMMA MarksRight ==
  ASSUME NEW gates, NEW root, NEW n, NEW side \in SUBSET DOMAIN n.fanin,
         IsFiniteSet(DOMAIN n.fanin), NEW E, \A g \in DOMAIN n.fanin : n.fanin[g] \in Seq(E),
         root \in side, \A g \in side : n.fanin[g] \in Seq(side)
  PROVE  Marked(MarkBottomCut(gates, root, n), root, side, n)
<1> DEFINE N == Visits(n)
<1>1. N \in Nat
  BY MarkWalk
<1>2. PICK walk : WalkOf(walk, gates, root, n)
  BY MarkWalk
<1> HIDE DEF N
<1> DEFINE Fine(w) == Marked(w.marks, root, side, n) /\ Waiting(w, root, side, n)
           G == {i \in 0 .. N : Fine(walk[i])}
<1>3. 0 \in G
  <2> DEFINE w == StartOf(gates, root)
  <2>1. /\ w.marks.reached = {} /\ w.marks.dups = <<>>
        /\ w.waiting = <<[gate |-> root, new |-> FALSE]>>
    BY DEF StartOf, NoMarks
  <2> HIDE DEF w
  <2>2. Marked(w.marks, root, side, n)
    BY <2>1 DEF Marked
  <2>3. Waiting(w, root, side, n)
    BY <2>1 DEF Waiting, ReadFrom
  <2>4. QED
    BY <1>1, <1>2, <2>2, <2>3 DEF w, WalkOf
<1>4. ASSUME NEW i \in 1 .. N, i - 1 \in G PROVE i \in G
  <2>1. Fine(walk[i - 1]) /\ walk[i] = Visit(walk[i - 1], n)
    BY <1>2, <1>4 DEF N, WalkOf
  <2>2. Fine(walk[i])
    BY <2>1, VisitKeeps
  <2>3. QED
    BY <2>2
<1>5. N \in G
  <2> HIDE DEF G
  <2>1. \A i \in 0 .. N : i \in G
    BY <1>1, <1>3, <1>4, WalkDef!IntervalInduction
  <2>2. QED
    BY <1>1, <2>1
<1>6. QED
  BY <1>2, <1>5 DEF N, WalkOf

-----------------------------------------------------------------------------
(* The levels.                                                             *)

(* The level of the gate of e, in the netlist of e.                        *)
LevelAt(v, e) == IF e.f[e.g] = <<>> THEN 0 ELSE 1 + Max({v[h] : h \in Range(e.f[e.g])})
LevelDef == INSTANCE FoldLemmas WITH Op <- LevelAt

(* Every gate is numbered after what it reads.                             *)
Ordered(f) ==
  /\ DOMAIN f \subseteq Nat
  /\ \A g \in DOMAIN f : f[g] \in Seq({h \in DOMAIN f : h < g})

(* Induction on the numbers of the gates.                                  *)
LEMMA InductionOnGates ==
  ASSUME NEW D \in SUBSET Nat, NEW X,
         \A g \in D : (\A h \in D : h < g => h \in X) => g \in X
  PROVE  D \subseteq X
<1>1. ASSUME NEW n \in Nat PROVE \A g \in D : g <= n => g \in X
  <2> DEFINE G == {i \in 0 .. n : \A g \in D : g <= i => g \in X}
  <2>1. 0 \in G
    OBVIOUS
  <2>2. ASSUME NEW i \in 1 .. n, i - 1 \in G PROVE i \in G
    <3>1. SUFFICES ASSUME NEW g \in D, g <= i PROVE g \in X
      OBVIOUS
    <3>2. \A h \in D : h < g => h <= i - 1
      BY <3>1
    <3>3. QED
      BY <2>2, <3>2
  <2>3. n \in G
    <3> HIDE DEF G
    <3>1. \A i \in 0 .. n : i \in G
      BY <2>1, <2>2, LevelDef!IntervalInduction
    <3>2. QED
      BY <3>1
  <2>4. QED
    BY <2>3
<1>2. QED
  BY <1>1

(* A nonempty finite set of natural numbers has a maximum.                 *)
LEMMA MaxOfNats ==
  ASSUME NEW S \in SUBSET Nat, IsFiniteSet(S), S # {}
  PROVE  Max(S) \in S /\ \A x \in S : x <= Max(S)
<1>1. LevelDef!Largest(S) \in S /\ \A y \in S : LevelDef!Largest(S) >= y
  <2>1. S \in SUBSET Int
    OBVIOUS
  <2>2. LevelDef!IsFiniteSet(S)
    BY DEF IsFiniteSet, LevelDef!IsFiniteSet
  <2>3. QED
    BY <2>1, <2>2, LevelDef!MaxExists
<1>2. Max(S) = LevelDef!Largest(S)
  BY DEF Max, LevelDef!Largest
<1>3. QED
  BY <1>1, <1>2

(* And a minimum.                                                          *)
LEMMA MinOfNats ==
  ASSUME NEW S \in SUBSET Nat, IsFiniteSet(S), S # {}
  PROVE  Min(S) \in S /\ \A x \in S : Min(S) <= x
<1>1. S \in SUBSET Int
  OBVIOUS
<1>2. LevelDef!IsFiniteSet(S)
  BY DEF IsFiniteSet, LevelDef!IsFiniteSet
<1>3. \E x \in S : \A y \in S : x <= y
  BY <1>1, <1>2, LevelDef!MinExists
<1>4. QED
  BY <1>3 DEF Min

(* What a list holds is finite.                                            *)
LEMMA ImageFinite ==
  ASSUME NEW E, NEW q \in Seq(E), NEW v
  PROVE  IsFiniteSet({v[h] : h \in Range(q)})
<1>1. DOMAIN q = 1 .. Len(q) /\ 1 \in Int /\ Len(q) \in Int
  OBVIOUS
<1>2. IsFiniteSet(DOMAIN q)
  BY <1>1, FS_Interval
<1>3. [i \in DOMAIN q |-> v[q[i]]] \in Surjection(DOMAIN q, {v[h] : h \in Range(q)})
  BY DEF Surjection, Range
<1>4. QED
  BY <1>2, <1>3, FS_Surjection

(* The levels are natural numbers: 0 for a gate that reads nothing, and    *)
(* more than that of what it reads for the others.                         *)
LEMMA LevelType ==
  ASSUME NEW f, Ordered(f)
  PROVE  /\ Level(f) \in [DOMAIN f -> Nat]
         /\ \A g \in DOMAIN f : f[g] = <<>> => Level(f)[g] = 0
         /\ \A g \in DOMAIN f : \A h \in Range(f[g]) : Level(f)[h] < Level(f)[g]
<1> DEFINE D == DOMAIN f
           e == [g \in D |-> [g |-> g, f |-> f]]
           rank == [g \in D |-> g]
           Of(v, g) == IF f[g] = <<>> THEN 0 ELSE 1 + Max({v[h] : h \in Range(f[g])})
           Eq(v) == v = [g \in D |-> Of(v, g)]
<1>1. \A g \in D : g \in Nat /\ Range(f[g]) \subseteq D /\ \A h \in Range(f[g]) : h < g
  <2>1. SUFFICES ASSUME NEW g \in D, NEW h \in Range(f[g]) PROVE h \in D /\ h < g
    BY DEF Ordered
  <2>2. f[g] \in Seq({x \in D : x < g})
    BY DEF Ordered
  <2>3. QED
    BY <2>2 DEF Range
<1>2. \E v : Eq(v)
  <2>1. LevelDef!DependsOnLower(D, rank, e)
    <3>1. SUFFICES ASSUME NEW g \in D, NEW v, NEW w, \A h \in D : rank[h] < rank[g] => v[h] = w[h]
                   PROVE  LevelAt(v, e[g]) = LevelAt(w, e[g])
      BY DEF LevelDef!DependsOnLower
    <3>2. \A h \in Range(f[g]) : v[h] = w[h]
      BY <1>1, <3>1
    <3>3. {v[h] : h \in Range(f[g])} = {w[h] : h \in Range(f[g])}
      BY <3>2
    <3>4. e[g].f = f /\ e[g].g = g
      OBVIOUS
    <3> HIDE DEF e
    <3>5. QED
      BY <3>3, <3>4 DEF LevelAt
  <2>2. rank \in [D -> Nat]
    BY <1>1
  <2> HIDE DEF e, rank
  <2>3. PICK v : LevelDef!Recurses(v, D, e)
    BY <2>1, <2>2, LevelDef!RecursionExists
  <2>4. v = [g \in D |-> LevelAt(v, e[g])]
    BY <2>3 DEF LevelDef!Recurses
  <2>5. \A g \in D : LevelAt(v, e[g]) = Of(v, g)
    BY DEF e, LevelAt
  <2>6. Eq(v)
    <3> HIDE DEF Of
    <3>1. QED
      BY <2>4, <2>5
  <2> HIDE DEF Eq
  <2>7. QED
    BY <2>6
<1> DEFINE lv == CHOOSE v : Eq(v)
<1>3. Eq(lv)
  <2> HIDE DEF Eq
  <2>1. QED
    BY <1>2
<1>4. Level(f) = [g \in D |-> lv[g]]
  BY DEF Level
<1> HIDE DEF lv
<1>5. ASSUME NEW g \in D, f[g] = <<>> PROVE lv[g] = 0
  <2>1. lv[g] = Of(lv, g)
    BY <1>3
  <2>2. QED
    BY <1>5, <2>1
<1>6. ASSUME NEW g \in D, f[g] # <<>>
      PROVE  lv[g] = 1 + Max({lv[h] : h \in Range(f[g])})
  <2>1. lv[g] = Of(lv, g)
    BY <1>3
  <2>2. QED
    BY <1>6, <2>1
<1>7. ASSUME NEW g \in D, f[g] # <<>>, \A h \in Range(f[g]) : lv[h] \in Nat
      PROVE  lv[g] \in Nat /\ \A h \in Range(f[g]) : lv[h] < lv[g]
  <2> DEFINE S == {lv[h] : h \in Range(f[g])}
  <2>1. f[g] \in Seq(D)
    <3>1. f[g] \in Seq({h \in D : h < g}) /\ {h \in D : h < g} \subseteq D
      BY DEF Ordered
    <3>2. QED
      BY <3>1
  <2>2. S # {}
    <3>1. 1 \in DOMAIN f[g]
      BY <1>7, <2>1
    <3>2. f[g][1] \in Range(f[g])
      BY <3>1 DEF Range
    <3>3. lv[f[g][1]] \in S
      BY <3>2
    <3>4. QED
      BY <3>3
  <2>3. S \in SUBSET Nat /\ \A h \in Range(f[g]) : lv[h] \in S
    BY <1>7
  <2>4. IsFiniteSet(S)
    BY <2>1, ImageFinite
  <2>5. lv[g] = 1 + Max(S)
    BY <1>6, <1>7
  <2> HIDE DEF S
  <2>6. Max(S) \in Nat /\ \A x \in S : x \in Nat /\ x <= Max(S)
    BY <2>2, <2>3, <2>4, MaxOfNats
  <2>7. ASSUME NEW h \in Range(f[g]) PROVE lv[h] < lv[g]
    <3>1. PICK x \in Nat, m \in Nat : x = lv[h] /\ m = Max(S) /\ x <= m
      BY <2>3, <2>6
    <3>2. x < 1 + m
      BY <3>1
    <3>3. QED
      BY <2>5, <3>1, <3>2
  <2>8. lv[g] \in Nat
    BY <2>5, <2>6
  <2>9. QED
    BY <2>7, <2>8
<1>8. \A g \in D : lv[g] \in Nat
  <2> DEFINE X == {g \in D : lv[g] \in Nat}
  <2>1. \A g \in D : (\A h \in D : h < g => h \in X) => g \in X
    BY <1>1, <1>5, <1>7
  <2>2. D \in SUBSET Nat
    BY <1>1
  <2> HIDE DEF X
  <2>3. D \subseteq X
    BY <2>1, <2>2, InductionOnGates
  <2>4. QED
    BY <2>3 DEF X
<1>9. ASSUME NEW g \in D, NEW h \in Range(f[g]) PROVE lv[h] < lv[g]
  <2>1. f[g] # <<>>
    BY DEF Range
  <2>2. QED
    BY <1>1, <1>7, <1>8, <2>1
<1>10. QED
  BY <1>1, <1>4, <1>5, <1>8, <1>9
===============================================================================
