---------------------------- MODULE CutMatchProofs ----------------------------
(***************************************************************************)
(* The counts of the recursion that matches a cut, the variables of the    *)
(* solver, the soundness of a match and that no match is passed over, for  *)
(* every netlist, every order of the similar pairs and every bound on      *)
(* levels and sizes.                                                       *)
(*                                                                         *)
(* The operators come first: the order of the cuts, and that the gates     *)
(* have one value by what they read.  From these and from NetCutsProofs,   *)
(* SolverSound: an answer about the gates of some levels, by their         *)
(* clauses, holds of all the gates by their functions.  Then the inductive *)
(* invariant IInv, one lemma per action, and its theorems.  The last part  *)
(* has the other direction, SolverComplete, and a second invariant, TInv,  *)
(* which says of each right pairing where the search will still find it.   *)
(***************************************************************************)
EXTENDS CutMatch, NetCutsProofs

-----------------------------------------------------------------------------
(* The order of the cuts.                                                  *)

(* The first gate that only one of two sets has tells which is earlier.    *)
First(a, S, T) == a \in S /\ a \notin T /\ \A b \in S \union T : b < a => (b \in S <=> b \in T)

(* So earlier is a total order of sets,                                    *)
LEMMA EarlierIs ==
  ASSUME NEW D \in SUBSET Nat, IsFiniteSet(D), NEW S \in SUBSET D, NEW T \in SUBSET D
  PROVE  /\ Earlier(S, T) <=> \E a \in D : First(a, S, T)
         /\ S # T => Earlier(S, T) \/ Earlier(T, S)
<1> DEFINE X == (S \ T) \union (T \ S)
<1>1. CASE S = T
  BY <1>1 DEF Earlier, First
<1>2. CASE S # T
  <2>1. X \in SUBSET Nat /\ X # {}
    BY <1>2
  <2>2. IsFiniteSet(X)
    <3>1. X \in SUBSET D
      OBVIOUS
    <3>2. QED
      BY <3>1, FS_Subset
  <2>3. Min(X) \in X /\ \A x \in X : Min(X) <= x
    <3> HIDE DEF X
    <3>1. QED
      BY <2>1, <2>2, MinOfNats
  <2>4. (T \ S) \union (S \ T) = X
    OBVIOUS
  <2>5. (Earlier(S, T) <=> Min(X) \in S) /\ (Earlier(T, S) <=> Min(X) \in T)
    BY <1>2, <2>4 DEF Earlier
  <2> DEFINE m == Min(X)
  <2>6. m \in X /\ m \in Nat /\ \A x \in X : m <= x
    BY <2>1, <2>3
  <2> HIDE DEF m
  <2>7. m \in S => First(m, S, T)
    BY <2>6 DEF First
  <2>8. \A a \in D : First(a, S, T) => m = a
    <3>1. SUFFICES ASSUME NEW a \in D, First(a, S, T) PROVE m = a
      OBVIOUS
    <3>2. a \in X /\ a \in Nat /\ m <= a
      BY <2>6, <3>1 DEF First
    <3>3. ~(m < a)
      BY <2>6, <3>1 DEF First
    <3>4. QED
      BY <2>6, <3>2, <3>3
  <2>9. \A a : First(a, S, T) => a \in S
    BY DEF First
  <2>10. (Earlier(S, T) <=> m \in S) /\ (Earlier(T, S) <=> m \in T) /\ (m \in S \/ m \in T)
    BY <2>5, <2>6 DEF m
  <2>11. QED
    BY <2>6, <2>7, <2>8, <2>9, <2>10
<1>3. QED
  BY <1>1, <1>2

(* and transitive.                                                         *)
LEMMA EarlierTransitive ==
  ASSUME NEW D \in SUBSET Nat, IsFiniteSet(D),
         NEW S \in SUBSET D, NEW T \in SUBSET D, NEW U \in SUBSET D,
         Earlier(S, T), Earlier(T, U)
  PROVE  Earlier(S, U)
<1>1. PICK a \in D : First(a, S, T)
  BY EarlierIs
<1>2. PICK b \in D : First(b, T, U)
  BY EarlierIs
<1>3. a \in Nat /\ b \in Nat /\ D \subseteq Nat
  OBVIOUS
<1>4. CASE a < b
  <2>1. First(a, S, U)
    BY <1>1, <1>2, <1>3, <1>4 DEF First
  <2>2. QED
    BY <2>1, EarlierIs
<1>5. CASE b < a
  <2>1. First(b, S, U)
    BY <1>1, <1>2, <1>3, <1>5 DEF First
  <2>2. QED
    BY <2>1, EarlierIs
<1>6. a # b
  BY <1>1, <1>2 DEF First
<1>7. QED
  BY <1>3, <1>4, <1>5, <1>6

(* Each place has a set: the one that as many sets are earlier than.       *)
LEMMA InOrderLists ==
  ASSUME NEW D \in SUBSET Nat, IsFiniteSet(D), NEW sets \in SUBSET (SUBSET D)
  PROVE  InOrder(sets) \in Seq(sets)
<1> DEFINE n == Cardinality(sets)
           before(S) == {T \in sets : Earlier(T, S)}
           rank(S) == Cardinality(before(S))
<1>1. IsFiniteSet(sets) /\ n \in Nat
  <2>1. IsFiniteSet(SUBSET D)
    BY FS_SUBSET
  <2>2. IsFiniteSet(sets)
    BY <2>1, FS_Subset
  <2>3. QED
    BY <2>2, FS_CardinalityType
<1>2. \A S : IsFiniteSet(before(S)) /\ rank(S) \in Nat
  <2>1. SUFFICES ASSUME NEW S PROVE IsFiniteSet(before(S)) /\ rank(S) \in Nat
    OBVIOUS
  <2>2. before(S) \in SUBSET sets
    OBVIOUS
  <2> HIDE DEF before, n
  <2>3. QED
    BY <1>1, <2>2, FS_Subset, FS_CardinalityType
<1>3. ASSUME NEW S \in sets PROVE rank(S) \in 0 .. (n - 1)
  <2>1. before(S) \in SUBSET (sets \ {S})
    BY DEF Earlier
  <2>2. IsFiniteSet(sets \ {S}) /\ Cardinality(sets \ {S}) = n - 1
    BY <1>1, FS_RemoveElement
  <2> HIDE DEF before, n
  <2>3. rank(S) <= n - 1
    BY <2>1, <2>2, FS_Subset
  <2> HIDE DEF rank
  <2>4. rank(S) \in Nat
    BY <1>2
  <2>5. QED
    BY <1>1, <2>3, <2>4
<1>4. ASSUME NEW S \in sets, NEW T \in sets, Earlier(S, T) PROVE rank(S) < rank(T)
  <2>1. before(S) \subseteq before(T)
    BY <1>4, EarlierTransitive
  <2>2. S \in before(T) /\ S \notin before(S)
    BY <1>4 DEF Earlier
  <2>3. IsFiniteSet(before(T)) /\ rank(S) \in Nat /\ rank(T) \in Nat
    BY <1>2
  <2> HIDE DEF before
  <2>4. before(S) \in SUBSET before(T) /\ before(S) # before(T)
    BY <2>1, <2>2
  <2>5. QED
    BY <2>3, <2>4, FS_Subset
<1> DEFINE r == [S \in sets |-> rank(S)]
<1>5. r \in Injection(sets, 0 .. (n - 1))
  <2>1. ASSUME NEW S \in sets, NEW T \in sets, S # T PROVE rank(S) # rank(T)
    <3>1. rank(S) \in Nat /\ rank(T) \in Nat
      BY <1>2
    <3>2. Earlier(S, T) \/ Earlier(T, S)
      BY <2>1, EarlierIs
    <3> HIDE DEF rank
    <3>3. QED
      BY <1>4, <3>1, <3>2
  <2> HIDE DEF rank
  <2>2. r \in [sets -> 0 .. (n - 1)]
    BY <1>3
  <2>3. QED
    BY <2>1, <2>2 DEF Injection, IsInjective
<1>6. IsFiniteSet(0 .. (n - 1)) /\ Cardinality(0 .. (n - 1)) = n
  <2> HIDE DEF n
  <2>1. 0 \in Int /\ n - 1 \in Int
    BY <1>1
  <2>2. QED
    BY <1>1, <2>1, FS_Interval
<1>7. r \in Surjection(sets, 0 .. (n - 1))
  <2> HIDE DEF r
  <2>1. QED
    BY <1>1, <1>5, <1>6, FS_Injection
<1>8. ASSUME NEW i \in 1 .. n
      PROVE  (CHOOSE S \in sets : rank(S) = i - 1) \in sets
  <2>1. i - 1 \in 0 .. (n - 1)
    BY <1>1
  <2>2. \E S \in sets : r[S] = i - 1
    <3> HIDE DEF r
    <3>1. QED
      BY <1>7, <2>1 DEF Surjection
  <2>3. \E S \in sets : rank(S) = i - 1
    BY <2>2
  <2> HIDE DEF rank
  <2>4. QED
    BY <2>3
<1>9. InOrder(sets) = [i \in 1 .. n |-> CHOOSE S \in sets : rank(S) = i - 1]
  BY DEF InOrder
<1>10. QED
  <2> DEFINE place(i) == CHOOSE S \in sets : rank(S) = i - 1
  <2>1. \A i \in 1 .. n : place(i) \in sets
    BY <1>8
  <2>2. InOrder(sets) = [i \in 1 .. n |-> place(i)]
    BY <1>9
  <2> HIDE DEF place, n
  <2>3. QED
    BY <1>1, <2>1, <2>2

-----------------------------------------------------------------------------
(* Walks and cuts.                                                         *)

(* All gates, and those of a side.                                         *)
Gates == OldGates \union GolGates
SideOf(s) == IF s = 1 THEN OldGates ELSE GolGates

(* There are finitely many gates, and they are numbers.                    *)
LEMMA GatesFinite == IsFiniteSet(Gates) /\ Gates \in SUBSET Nat
<1>1. IsFiniteSet(Gates)
  BY CutMatchAssumption, FS_Union DEF Gates
<1>2. QED
  BY <1>1, CutMatchAssumption DEF Gates

(* What the assumption says of a netlist.                                  *)
NetRight(n) ==
  /\ DOMAIN n.fanin = Gates
  /\ \A g \in OldGates : n.fanin[g] \in Seq(OldGates)
  /\ \A g \in GolGates : n.fanin[g] \in Seq(GolGates)
  /\ \A g \in Gates : /\ n.fanin[g] \in Seq(Gates) /\ n.fanin[g] \in Seq({h \in Gates : h < g})
                      /\ \A h \in Range(n.fanin[g]) : h < g
  /\ n.root[1] \in OldGates /\ n.root[2] \in GolGates
  /\ n.consts \subseteq GolGates

(* The assumption says so.                                                 *)
LEMMA Netlist == ASSUME NEW n \in Netlists PROVE NetRight(n)
<1>1. IsNetlist(n)
  BY CutMatchAssumption
<1>2. DOMAIN n.fanin = Gates /\ n.root[1] \in OldGates /\ n.root[2] \in GolGates
      /\ n.consts \subseteq GolGates
  BY <1>1 DEF IsNetlist, Gates
<1>3. \A side \in {OldGates, GolGates} : \A g \in side : n.fanin[g] \in Seq({h \in side : h < g})
  BY <1>1 DEF IsNetlist
<1>4. ASSUME NEW side \in {OldGates, GolGates}, NEW g \in side
      PROVE  /\ n.fanin[g] \in Seq(side) /\ n.fanin[g] \in Seq({h \in Gates : h < g})
             /\ n.fanin[g] \in Seq(Gates)
             /\ \A h \in Range(n.fanin[g]) : h < g
  <2> DEFINE A == {h \in side : h < g}
             B == {h \in Gates : h < g}
             q == n.fanin[g]
  <2>1. q \in Seq(A)
    BY <1>3
  <2>2. A \subseteq side /\ A \subseteq B /\ A \subseteq Gates
    BY DEF Gates
  <2>3. \A h \in A : h < g
    OBVIOUS
  <2> HIDE DEF A, B, q
  <2>4. q \in Seq(side) /\ q \in Seq(B) /\ q \in Seq(Gates)
    BY <2>1, <2>2
  <2>5. \A h \in Range(q) : h \in A
    BY <2>1 DEF Range
  <2>6. QED
    BY <2>3, <2>4, <2>5 DEF B, q
<1>5. QED
  BY <1>2, <1>4 DEF NetRight, Gates

(* A set of gates, each the root or read by one of them outside S, is in   *)
(* the walk that stops at S.                                               *)
LEMMA WalkReaches ==
  ASSUME NEW n \in Netlists, NEW root, NEW S, NEW R \in SUBSET Gates,
         \A g \in R : g = root \/ \E p \in R : p \notin S /\ g \in Range(n.fanin[p])
  PROVE  R \subseteq Walk(n.fanin, root, S)
<1> DEFINE f == n.fanin
           A == Above(f, root, DOMAIN f, S)
           bad == {g \in R : g \notin S /\ g \notin A}
<1>1. DOMAIN f = Gates /\ IsFiniteSet(Gates) /\ Gates \in SUBSET Nat
      /\ \A g \in Gates : \A h \in Range(f[g]) : h < g
  BY Netlist, GatesFinite DEF NetRight
<1>2. Least(A, f, {root} \ S, Gates \ S)
  <2>1. IsFiniteSet(Gates \ S)
    <3>1. Gates \ S \in SUBSET Gates
      OBVIOUS
    <3>2. QED
      BY <1>1, <3>1, FS_Subset
  <2>2. QED
    BY <1>1, <2>1, ReachLeast DEF Above
<1> HIDE DEF A, f
<1>3. bad = {}
  <2>1. SUFFICES ASSUME bad # {} PROVE FALSE
    OBVIOUS
  <2>2. bad \in SUBSET Nat /\ bad \in SUBSET Gates
    BY <1>1
  <2>3. IsFiniteSet(bad)
    BY <1>1, <2>2, FS_Subset
  <2>4. Max(bad) \in bad /\ \A x \in bad : x <= Max(bad)
    <3> HIDE DEF bad
    <3>1. QED
      BY <2>1, <2>2, <2>3, MaxOfNats
  <2>5. PICK b \in bad : \A x \in bad : x <= b
    BY <2>4
  <2>6. CASE b = root
    BY <1>2, <2>5, <2>6 DEF Least
  <2>7. CASE b # root
    <3>1. PICK p \in R : p \notin S /\ b \in Range(f[p])
      BY <2>7 DEF f
    <3>2. b < p /\ b \in Nat /\ p \in Nat
      BY <1>1, <2>2, <3>1
    <3>3. p \in A
      BY <2>5, <3>1, <3>2
    <3>4. b \in Gates \ S
      OBVIOUS
    <3>5. b \in ReadBy(f, A, Gates \ S)
      BY <3>1, <3>3, <3>4 DEF ReadBy
    <3>6. QED
      BY <1>2, <3>5 DEF Least
  <2>8. QED
    BY <2>6, <2>7
<1>4. \A g \in R : g = root \/ \E p \in A : g \in Range(f[p])
  BY <1>3 DEF f
<1>5. Walk(f, root, S) = {root} \union A \union UNION {Range(f[g]) : g \in A}
  BY DEF Walk, A
<1>6. QED
  BY <1>4, <1>5 DEF f

(* A walk that stops later goes further.                                   *)
LEMMA WalkGrows ==
  ASSUME NEW n \in Netlists, NEW root, NEW S, NEW T, S \subseteq T
  PROVE  Walk(n.fanin, root, T) \subseteq Walk(n.fanin, root, S)
<1> DEFINE f == n.fanin
           A == Above(f, root, DOMAIN f, T)
           B == Above(f, root, DOMAIN f, S)
<1>1. DOMAIN f = Gates /\ IsFiniteSet(Gates)
  BY Netlist, GatesFinite DEF NetRight
<1>2. IsFiniteSet(Gates \ S) /\ IsFiniteSet(Gates \ T)
  <2>1. Gates \ S \in SUBSET Gates /\ Gates \ T \in SUBSET Gates
    OBVIOUS
  <2>2. QED
    BY <1>1, <2>1, FS_Subset
<1>3. Least(A, f, {root} \ T, Gates \ T) /\ Least(B, f, {root} \ S, Gates \ S)
  BY <1>1, <1>2, ReachLeast DEF Above
<1>4. Walk(f, root, T) = {root} \union A \union UNION {Range(f[g]) : g \in A}
      /\ Walk(f, root, S) = {root} \union B \union UNION {Range(f[g]) : g \in B}
  BY DEF Walk
<1> HIDE DEF A, B, f
<1>5. ReadBy(f, B, Gates \ T) \subseteq ReadBy(f, B, Gates \ S)
  BY DEF ReadBy
<1>6. A \subseteq B
  BY <1>3, <1>5 DEF Least
<1>7. QED
  BY <1>4, <1>6 DEF f

(* A cut, with the dups, can be walked to, and what is above reads gates.  *)
CutRight(f, root, S, dup) ==
  /\ S # {} /\ S \intersect dup = {}
  /\ S \union dup \subseteq Walk(f, root, S \union dup)
  /\ \A g \in Above(f, root, DOMAIN f, S \union dup) : f[g] # <<>>

(* Each set of CutsAbove is such a cut: no gate of it is below another, so *)
(* each is read by one that lies above all of them.                        *)
LEMMA CutsRight ==
  ASSUME NEW n \in Netlists, NEW root, NEW m, m.reached \subseteq Gates,
         Range(m.dups) \subseteq m.reached,
         \A g \in m.reached : g = root \/ \E p \in m.reached : g \in Range(n.fanin[p]),
         NEW size, NEW changed, NEW S \in CutsAbove(n.fanin, root, m, size, changed)
  PROVE  CutRight(n.fanin, root, S, Range(m.dups)) /\ S \subseteq m.reached
<1> DEFINE f == n.fanin
           R == m.reached
           C == S \union Range(m.dups)
           A == Above(f, root, R, C)
           B == Below(f, R, C)
           all == Above(f, root, DOMAIN f, C)
           bad == {g \in R : g \notin A /\ g \notin C /\ g \notin B}
<1>1. /\ S \in SUBSET (R \ Range(m.dups)) /\ S # {}
      /\ IsCut(f, root, R, C)
  BY DEF CutsAbove
<1>2. /\ \A g \in A : f[g] # <<>> /\ Range(f[g]) \subseteq R
      /\ C \intersect B = {}
  BY <1>1 DEF IsCut
<1>3. /\ DOMAIN f = Gates /\ IsFiniteSet(Gates) /\ Gates \in SUBSET Nat
      /\ \A g \in Gates : \A h \in Range(f[g]) : h < g
  BY Netlist, GatesFinite DEF NetRight
<1>4. IsFiniteSet(R) /\ IsFiniteSet(R \ C) /\ IsFiniteSet(Gates \ C)
  <2>1. R \in SUBSET Gates /\ R \ C \in SUBSET Gates /\ Gates \ C \in SUBSET Gates
    OBVIOUS
  <2>2. QED
    BY <1>3, <2>1, FS_Subset
<1>5. /\ Least(A, f, {root} \ C, R \ C)
      /\ Least(B, f, ReadBy(f, C, R), R)
      /\ Least(all, f, {root} \ C, Gates \ C)
  BY <1>3, <1>4, ReachLeast DEF Above, Below
<1>6. C \subseteq R
  BY <1>1
<1>7. \A g \in R : g = root \/ \E p \in R : g \in Range(f[p])
  OBVIOUS
<1> HIDE DEF A, B, C, R, f, all
<1>8. bad = {}
  <2>1. SUFFICES ASSUME bad # {} PROVE FALSE
    OBVIOUS
  <2>2. bad \in SUBSET Nat /\ bad \in SUBSET Gates
    BY <1>3 DEF R
  <2>3. IsFiniteSet(bad)
    BY <1>3, <2>2, FS_Subset
  <2>4. Max(bad) \in bad /\ \A x \in bad : x <= Max(bad)
    <3> HIDE DEF bad
    <3>1. QED
      BY <2>1, <2>2, <2>3, MaxOfNats
  <2>5. PICK b \in bad : \A x \in bad : x <= b
    BY <2>4
  <2>6. CASE b = root
    BY <1>5, <2>5, <2>6 DEF Least
  <2>7. CASE b # root
    <3>1. PICK p \in R : b \in Range(f[p])
      BY <1>7, <2>7
    <3>2. p \in Gates /\ b < p /\ b \in Nat /\ p \in Nat
      BY <1>3, <2>2, <3>1 DEF R
    <3>3. p \in A \/ p \in C \/ p \in B
      BY <2>5, <3>1, <3>2
    <3>4. p \in A => b \in ReadBy(f, A, R \ C)
      BY <3>1 DEF ReadBy
    <3>5. (p \in C => b \in ReadBy(f, C, R)) /\ (p \in B => b \in ReadBy(f, B, R))
      BY <3>1 DEF ReadBy
    <3>6. QED
      BY <1>5, <3>3, <3>4, <3>5 DEF Least
  <2>8. QED
    BY <2>6, <2>7
<1>9. ASSUME NEW g \in C PROVE g = root \/ \E p \in A : g \in Range(f[p])
  <2>1. SUFFICES ASSUME g # root PROVE \E p \in A : g \in Range(f[p])
    OBVIOUS
  <2>2. PICK p \in R : g \in Range(f[p])
    BY <1>6, <1>7, <2>1
  <2>3. p \in A \/ p \in C \/ p \in B
    BY <1>8
  <2>4. (p \in C => g \in ReadBy(f, C, R)) /\ (p \in B => g \in ReadBy(f, B, R))
    BY <1>6, <2>2 DEF ReadBy
  <2>5. p \in A
    BY <1>2, <1>5, <2>3, <2>4 DEF Least
  <2>6. QED
    BY <2>2, <2>5
<1>10. A \subseteq all
  <2>1. ReadBy(f, all, R \ C) \subseteq ReadBy(f, all, Gates \ C)
    BY DEF ReadBy, R
  <2>2. QED
    BY <1>5, <2>1 DEF Least
<1>11. all \subseteq A
  <2>1. ReadBy(f, A, Gates \ C) \subseteq ReadBy(f, A, R \ C)
    BY <1>2 DEF ReadBy
  <2>2. QED
    BY <1>5, <2>1 DEF Least
<1>12. Walk(f, root, C) = {root} \union all \union UNION {Range(f[g]) : g \in all}
  BY DEF Walk, all
<1>13. C \subseteq Walk(f, root, C)
  BY <1>9, <1>10, <1>12
<1>14. QED
  BY <1>1, <1>2, <1>11, <1>13 DEF CutRight, C, R, f, all

-----------------------------------------------------------------------------
(* What the solver proves.                                                 *)

(* e.how: the operator that gives a gate its value.                        *)
GateValue(how, t, lits) == IF how = "Encoded" THEN Encoded(t, lits) ELSE Function(t, lits)
ValueAt(v, e) ==
  IF e.g \in DOMAIN e.a THEN e.a[e.g]
  ELSE GateValue(e.how, e.n.type[e.g],
                 [i \in DOMAIN e.n.fanin[e.g] |-> v[e.n.fanin[e.g][i]]])
ValueDef == INSTANCE FoldLemmas WITH Op <- ValueAt

(* The values of all gates.                                                *)
ValuesOf(how, n, a) ==
  IF how = "Encoded" THEN Values(n, a, Encoded) ELSE Values(n, a, Function)

(* The values that the gates have by what they read.                       *)
LEMMA ValuesDefined ==
  ASSUME NEW n \in Netlists, NEW a, NEW how \in {"Encoded", "Function"}
  PROVE  \A g \in Gates :
           ValuesOf(how, n, a)[g] =
             IF g \in DOMAIN a THEN a[g]
             ELSE GateValue(how, n.type[g],
                            [i \in DOMAIN n.fanin[g] |-> ValuesOf(how, n, a)[n.fanin[g][i]]])
<1> DEFINE D == DOMAIN n.fanin
           e == [g \in D |-> [g |-> g, a |-> a, n |-> n, how |-> how]]
           rank == [g \in D |-> g]
           lits(v, g) == [i \in DOMAIN n.fanin[g] |-> v[n.fanin[g][i]]]
           Of(v, g) == IF g \in DOMAIN a THEN a[g] ELSE GateValue(how, n.type[g], lits(v, g))
           Eq(v) == v = [g \in D |-> Of(v, g)]
<1>1. D = Gates /\ Gates \in SUBSET Nat
      /\ \A g \in Gates : n.fanin[g] \in Seq({h \in Gates : h < g})
  BY Netlist, GatesFinite DEF NetRight
<1>2. \E v : Eq(v)
  <2>1. ValueDef!DependsOnLower(D, rank, e)
    <3>1. SUFFICES ASSUME NEW g \in D, NEW v, NEW w, \A h \in D : rank[h] < rank[g] => v[h] = w[h]
                   PROVE  ValueAt(v, e[g]) = ValueAt(w, e[g])
      BY DEF ValueDef!DependsOnLower
    <3>2. ASSUME NEW i \in DOMAIN n.fanin[g] PROVE v[n.fanin[g][i]] = w[n.fanin[g][i]]
      <4> DEFINE h == n.fanin[g][i]
      <4>1. h \in {x \in Gates : x < g}
        <5> DEFINE lower == {x \in Gates : x < g}
        <5>1. n.fanin[g] \in Seq(lower)
          BY <1>1
        <5> HIDE DEF lower
        <5>2. h \in lower
          BY <5>1
        <5>3. QED
          BY <5>2 DEF lower
      <4>2. h \in D /\ rank[h] = h /\ rank[g] = g /\ h < g
        BY <1>1, <4>1
      <4> HIDE DEF h, rank
      <4>3. v[h] = w[h]
        BY <3>1, <4>2
      <4>4. QED
        BY <4>3 DEF h
    <3>3. lits(v, g) = lits(w, g)
      BY <3>2
    <3>4. e[g].a = a /\ e[g].g = g /\ e[g].n = n /\ e[g].how = how
      OBVIOUS
    <3>5. ValueAt(v, e[g]) = Of(v, g) /\ ValueAt(w, e[g]) = Of(w, g)
      <4> HIDE DEF e
      <4>1. QED
        BY <3>4 DEF ValueAt
    <3> HIDE DEF lits
    <3>6. QED
      BY <3>3, <3>5
  <2>2. rank \in [D -> Nat]
    BY <1>1
  <2> HIDE DEF e, rank
  <2>3. PICK v : ValueDef!Recurses(v, D, e)
    BY <2>1, <2>2, ValueDef!RecursionExists
  <2>4. v = [g \in D |-> ValueAt(v, e[g])]
    BY <2>3 DEF ValueDef!Recurses
  <2>5. \A g \in D : ValueAt(v, e[g]) = Of(v, g)
    BY DEF e, ValueAt
  <2>6. Eq(v)
    <3> HIDE DEF Of
    <3>1. QED
      BY <2>4, <2>5
  <2> HIDE DEF Eq
  <2>7. QED
    BY <2>6
<1> DEFINE value == CHOOSE v : Eq(v)
<1>3. Eq(value)
  <2> HIDE DEF Eq
  <2>1. QED
    BY <1>2
<1>4. ValuesOf(how, n, a) = value
  <2>1. CASE how = "Encoded"
    <3>1. value = CHOOSE v : v = [g \in D |-> IF g \in DOMAIN a THEN a[g]
                                             ELSE Encoded(n.type[g], lits(v, g))]
      BY <2>1 DEF GateValue
    <3>2. QED
      BY <2>1, <3>1 DEF ValuesOf, Values
  <2>2. CASE how = "Function"
    <3>1. value = CHOOSE v : v = [g \in D |-> IF g \in DOMAIN a THEN a[g]
                                             ELSE Function(n.type[g], lits(v, g))]
      BY <2>2 DEF GateValue
    <3>2. QED
      BY <2>2, <3>1 DEF ValuesOf, Values
  <2>3. QED
    BY <2>1, <2>2
<1> HIDE DEF value
<1>5. ASSUME NEW g \in Gates PROVE value[g] = Of(value, g)
  <2> HIDE DEF Of
  <2>1. QED
    BY <1>1, <1>3
<1>6. QED
  BY <1>4, <1>5

(* What the solver is told of a gate is its function.                      *)
LEMMA EncodedIsFunction ==
  ASSUME NEW t \in GateTypes, NEW v \in Seq(BOOLEAN), v # <<>>
  PROVE  Encoded(t, v) = Function(t, v) /\ Function(t, v) \in BOOLEAN
<1>1. v[1] \in BOOLEAN /\ \A i \in DOMAIN v : v[i] \in BOOLEAN
  <2>1. 1 \in DOMAIN v
    OBVIOUS
  <2>2. \A i \in DOMAIN v : v[i] \in BOOLEAN
    OBVIOUS
  <2>3. QED
    BY <2>1, <2>2
<1>2. Odd(v) \in BOOLEAN
  BY DEF Odd
<1>3. CASE t = "AND"
  <2> DEFINE all == \A i \in DOMAIN v : v[i]
  <2>1. Clause(t, v) = all /\ Function(t, v) = all /\ all \in BOOLEAN
    BY <1>3 DEF Clause, Function
  <2>2. LevelPhase(t) = FALSE
    BY <1>3 DEF LevelPhase, Inverted
  <2> HIDE DEF all
  <2>3. QED
    BY <2>1, <2>2 DEF Encoded
<1>4. CASE t = "NAND"
  BY <1>4 DEF Encoded, Clause, LevelPhase, Inverted, Function
<1>5. CASE t = "OR"
  BY <1>5 DEF Encoded, Clause, LevelPhase, Inverted, Function
<1>6. CASE t = "NOR"
  <2> DEFINE all == \A i \in DOMAIN v : ~v[i]
  <2>1. Clause(t, v) = all /\ Function(t, v) = all /\ all \in BOOLEAN
    BY <1>6 DEF Clause, Function
  <2>2. LevelPhase(t) = FALSE
    BY <1>6 DEF LevelPhase, Inverted
  <2> HIDE DEF all
  <2>3. QED
    BY <2>1, <2>2 DEF Encoded
<1>7. CASE t = "XOR"
  BY <1>2, <1>7 DEF Encoded, Clause, LevelPhase, Inverted, Function
<1>8. CASE t = "XNOR"
  BY <1>2, <1>8 DEF Encoded, Clause, LevelPhase, Inverted, Function
<1>9. CASE t = "BUF"
  BY <1>1, <1>9 DEF Encoded, Clause, LevelPhase, Inverted, Function
<1>10. CASE t = "NOT"
  BY <1>1, <1>10 DEF Encoded, Clause, LevelPhase, Inverted, Function
<1>11. QED
  BY <1>3, <1>4, <1>5, <1>6, <1>7, <1>8, <1>9, <1>10 DEF GateTypes, Inverted

(* The values of a gate's fanins, where these are truth values.            *)
LEMMA LitsType ==
  ASSUME NEW n \in Netlists, NEW g \in Gates, NEW v, n.fanin[g] # <<>>,
         \A h \in Range(n.fanin[g]) : v[h] \in BOOLEAN
  PROVE  /\ [i \in DOMAIN n.fanin[g] |-> v[n.fanin[g][i]]] \in Seq(BOOLEAN)
         /\ [i \in DOMAIN n.fanin[g] |-> v[n.fanin[g][i]]] # <<>>
<1> DEFINE q == n.fanin[g]
           l == Len(q)
           u == [i \in DOMAIN q |-> v[q[i]]]
<1>1. q \in Seq(Gates)
  BY Netlist DEF NetRight
<1>2. DOMAIN q = 1 .. l /\ l \in Nat /\ l # 0
  BY <1>1
<1>3. \A i \in DOMAIN q : q[i] \in Range(q)
  BY DEF Range
<1>4. \A i \in 1 .. l : u[i] \in BOOLEAN
  BY <1>2, <1>3
<1>5. DOMAIN u = 1 .. l /\ u = [i \in 1 .. l |-> u[i]]
  BY <1>2
<1> HIDE DEF u, l, q
<1>6. u \in Seq(BOOLEAN)
  BY <1>2, <1>4, <1>5
<1>7. u # <<>>
  BY <1>2, <1>5
<1>8. QED
  BY <1>6, <1>7 DEF u, q

(* The golden walk stays on the golden side.                               *)
LEMMA GolWalkGolden ==
  ASSUME NEW n \in Netlists, NEW low
  PROVE  GolWalk(n, low) \subseteq GolGates
<1> DEFINE f == n.fanin
           S == {g \in DOMAIN f : Level(f)[g] <= low}
           A == Above(f, n.root[2], DOMAIN f, S)
<1>1. /\ DOMAIN f = Gates /\ IsFiniteSet(Gates) /\ n.root[2] \in GolGates
      /\ \A g \in GolGates : f[g] \in Seq(GolGates)
  BY Netlist, GatesFinite DEF NetRight
<1>2. GolWalk(n, low) = {n.root[2]} \union A \union UNION {Range(f[g]) : g \in A}
  BY DEF GolWalk, Walk
<1>3. IsFiniteSet(Gates \ S)
  <2>1. Gates \ S \in SUBSET Gates
    OBVIOUS
  <2>2. QED
    BY <1>1, <2>1, FS_Subset
<1> HIDE DEF S
<1>4. Least(A, f, {n.root[2]} \ S, Gates \ S)
  BY <1>1, <1>3, ReachLeast DEF Above
<1> HIDE DEF A
<1>5. \A g \in GolGates : Range(f[g]) \subseteq GolGates
  BY <1>1 DEF Range
<1>6. A \subseteq GolGates
  <2>1. ReadBy(f, GolGates, Gates \ S) \subseteq GolGates
    BY <1>5 DEF ReadBy
  <2>2. QED
    BY <1>1, <1>4, <2>1 DEF Least
<1>7. QED
  BY <1>1, <1>2, <1>5, <1>6

(* No golden gate reads the constant one.                                  *)
ReadsNoOne(n) ==
  /\ n.type[n.root[2]] # "CONST1"
  /\ \A g \in GolGates : \A h \in Range(n.fanin[g]) : n.type[h] # "CONST1"

(* The inputs of both circuits.                                            *)
InputsOf(n) == {g \in DOMAIN n.fanin : n.type[g] = "PI"}

(* What the assumption says of the types.                                  *)
LEMMA Types ==
  ASSUME NEW n \in Netlists
  PROVE  /\ \A g \in Gates : IF n.fanin[g] = <<>> THEN n.type[g] \in Sources
                             ELSE n.type[g] \in GateTypes
         /\ n.consts = {g \in GolGates : n.type[g] \in {"CONST0", "CONST1"}}
         /\ Sources \intersect GateTypes = {}
<1>1. IsNetlist(n)
  BY CutMatchAssumption
<1>2. QED
  BY <1>1 DEF IsNetlist, Gates, Sources, GateTypes, Inverted

(* Every golden gate has a truth value.                                    *)
LEMMA GoldenValues ==
  ASSUME NEW n \in Netlists, NEW b \in [InputsOf(n) \ n.consts -> BOOLEAN]
  PROVE  \A g \in GolGates :
           ValuesOf("Function", n, Joined(b, TrueConst(n)))[g] \in BOOLEAN
<1> DEFINE a == Joined(b, TrueConst(n))
           G == ValuesOf("Function", n, a)
           lits(g) == [i \in DOMAIN n.fanin[g] |-> G[n.fanin[g][i]]]
<1>1. /\ GolGates \in SUBSET Gates /\ GolGates \in SUBSET Nat
      /\ \A g \in GolGates : \A h \in Range(n.fanin[g]) : h \in GolGates /\ h < g
      /\ DOMAIN n.fanin = Gates /\ n.consts \subseteq GolGates
  <2>1. \A g \in GolGates : n.fanin[g] \in Seq(GolGates)
    BY Netlist DEF NetRight
  <2>2. \A g \in GolGates : \A h \in Range(n.fanin[g]) : h \in GolGates
    BY <2>1 DEF Range
  <2>3. QED
    BY <2>2, Netlist, GatesFinite DEF NetRight, Gates
<1>2. \A g \in Gates : G[g] = IF g \in DOMAIN a THEN a[g]
                              ELSE GateValue("Function", n.type[g], lits(g))
  BY ValuesDefined
<1>3. DOMAIN a = (InputsOf(n) \ n.consts) \union n.consts
      /\ \A g \in DOMAIN a : a[g] \in BOOLEAN
  <2>1. DOMAIN TrueConst(n) = n.consts /\ \A g \in n.consts : TrueConst(n)[g] \in BOOLEAN
    BY DEF TrueConst
  <2> DEFINE c == TrueConst(n)
  <2> HIDE DEF c
  <2>2. DOMAIN b = InputsOf(n) \ n.consts /\ \A g \in DOMAIN b : b[g] \in BOOLEAN
    OBVIOUS
  <2>3. a = [x \in DOMAIN b \union DOMAIN c |-> IF x \in DOMAIN b THEN b[x] ELSE c[x]]
    BY DEF Joined, c
  <2>4. DOMAIN c = n.consts /\ \A g \in n.consts : c[g] \in BOOLEAN
    BY <2>1 DEF c
  <2> HIDE DEF a
  <2>5. QED
    BY <2>2, <2>3, <2>4
<1> HIDE DEF a, G
<1>4. ASSUME NEW g \in GolGates, \A h \in GolGates : h < g => G[h] \in BOOLEAN
      PROVE  G[g] \in BOOLEAN
  <2>1. CASE g \in DOMAIN a
    BY <1>1, <1>2, <1>3, <2>1
  <2>2. CASE g \notin DOMAIN a
    <3>1. n.type[g] \notin Sources
      BY <1>1, <1>3, <2>2, Types DEF Sources, InputsOf
    <3>2. n.fanin[g] # <<>> /\ n.type[g] \in GateTypes
      BY <1>1, <3>1, Types
    <3>3. lits(g) \in Seq(BOOLEAN) /\ lits(g) # <<>>
      <4>1. g \in Gates /\ \A h \in Range(n.fanin[g]) : G[h] \in BOOLEAN
        BY <1>1, <1>4
      <4>2. QED
        BY <3>2, <4>1, LitsType
    <3>4. G[g] = Function(n.type[g], lits(g))
      BY <1>1, <1>2, <2>2 DEF GateValue
    <3> HIDE DEF lits
    <3>5. QED
      BY <3>2, <3>3, <3>4, EncodedIsFunction
  <2>3. QED
    BY <2>1, <2>2
<1>5. \A g \in GolGates : G[g] \in BOOLEAN
  <2> DEFINE X == {g \in GolGates : G[g] \in BOOLEAN}
  <2>1. \A g \in GolGates : (\A h \in GolGates : h < g => h \in X) => g \in X
    BY <1>4
  <2> HIDE DEF X
  <2>2. GolGates \subseteq X
    BY <1>1, <2>1, InductionOnGates
  <2>3. QED
    BY <2>2 DEF X
<1>6. QED
  BY <1>5 DEF G, a

(* A walk goes on from each gate that does not stop it.                    *)
LEMMA WalkGoesOn ==
  ASSUME NEW n \in Netlists, NEW root, NEW S, NEW g \in Gates,
         g \in Walk(n.fanin, root, S), g \notin S
  PROVE  /\ g \in Above(n.fanin, root, DOMAIN n.fanin, S)
         /\ \A h \in Range(n.fanin[g]) : h \in Walk(n.fanin, root, S)
<1> DEFINE f == n.fanin
           A == Above(f, root, DOMAIN f, S)
<1>1. DOMAIN f = Gates /\ IsFiniteSet(Gates \ S)
  <2>1. Gates \ S \in SUBSET Gates
    OBVIOUS
  <2>2. QED
    BY <2>1, Netlist, GatesFinite, FS_Subset DEF NetRight
<1>2. Least(A, f, {root} \ S, Gates \ S)
  BY <1>1, ReachLeast DEF Above
<1>3. Walk(f, root, S) = {root} \union A \union UNION {Range(f[p]) : p \in A}
  BY DEF Walk
<1> HIDE DEF A, f
<1>4. ReadBy(f, A, Gates \ S) \subseteq A /\ {root} \ S \subseteq A
  BY <1>2 DEF Least
<1>5. g = root \/ g \in A \/ \E p \in A : g \in Range(f[p])
  BY <1>3 DEF f
<1>6. g \in A
  BY <1>4, <1>5 DEF ReadBy
<1>7. QED
  BY <1>3, <1>6 DEF A, f

(* The value of a gate by the clauses, from the values in a, is the one by *)
(* the functions, from the values in b.                                    *)
Same(n, a, b, g) ==
  /\ ValuesOf("Encoded", n, a)[g] = ValuesOf("Function", n, b)[g]
  /\ ValuesOf("Function", n, b)[g] \in BOOLEAN

(* So it is for the gates of a walk, when it is where the walk stops.      *)
LEMMA SameValues ==
  ASSUME NEW n \in Netlists, NEW root, NEW S, NEW D \in SUBSET Gates, NEW a, NEW b,
         \A g \in D : g \in Walk(n.fanin, root, S) =>
           \/ Same(n, a, b, g)
           \/ g \notin S \union DOMAIN a \union DOMAIN b /\ n.fanin[g] # <<>>,
         \A g \in D : \A h \in Range(n.fanin[g]) : h \in D
  PROVE  \A g \in D : g \in Walk(n.fanin, root, S) => Same(n, a, b, g)
<1> DEFINE X == {g \in D : g \in Walk(n.fanin, root, S) => Same(n, a, b, g)}
           v == ValuesOf("Encoded", n, a)
           w == ValuesOf("Function", n, b)
<1>1. D \in SUBSET Nat
  BY GatesFinite
<1>2. ASSUME NEW g \in D, \A h \in D : h < g => h \in X PROVE g \in X
  <2>1. SUFFICES ASSUME g \in Walk(n.fanin, root, S),
                        g \notin S, g \notin DOMAIN a, g \notin DOMAIN b, n.fanin[g] # <<>>
                 PROVE  Same(n, a, b, g)
    BY <1>2
  <2> DEFINE lits(x) == [i \in DOMAIN n.fanin[g] |-> x[n.fanin[g][i]]]
  <2>2. g \in Gates
    OBVIOUS
  <2>3. v[g] = Encoded(n.type[g], lits(v))
    BY <2>1, <2>2, ValuesDefined DEF GateValue
  <2>4. w[g] = Function(n.type[g], lits(w))
    BY <2>1, <2>2, ValuesDefined DEF GateValue
  <2>5. \A h \in Range(n.fanin[g]) : h \in Walk(n.fanin, root, S)
    BY <2>1, <2>2, WalkGoesOn
  <2>6. \A h \in Range(n.fanin[g]) : h \in D /\ h < g
    BY <2>2, Netlist DEF NetRight
  <2>7. \A h \in Range(n.fanin[g]) : v[h] = w[h] /\ w[h] \in BOOLEAN
    BY <1>2, <2>5, <2>6 DEF Same
  <2>8. lits(v) = lits(w)
    <3>1. \A i \in DOMAIN n.fanin[g] : n.fanin[g][i] \in Range(n.fanin[g])
      BY DEF Range
    <3>2. QED
      BY <2>7, <3>1
  <2>9. n.type[g] \in GateTypes
    BY <2>1, <2>2, Types
  <2>10. lits(w) \in Seq(BOOLEAN) /\ lits(w) # <<>>
    BY <2>1, <2>2, <2>7, LitsType
  <2> HIDE DEF lits
  <2>11. v[g] = w[g] /\ w[g] \in BOOLEAN
    <3> HIDE DEF v, w
    <3>1. QED
      BY <2>3, <2>4, <2>8, <2>9, <2>10, EncodedIsFunction
  <2>12. QED
    BY <2>11 DEF Same
<1> HIDE DEF X
<1>3. D \subseteq X
  BY <1>1, <1>2, InductionOnGates
<1>4. QED
  BY <1>3 DEF X

(* The values that the old gates of a function to golden gates take.       *)
Taken(pairs, v) == [h \in DOMAIN pairs |-> v[pairs[h]]]

(* The old side, when the golden gates that it takes its values from have  *)
(* the same value by the clauses, in v, and by the functions, in w.        *)
LEMMA OldSame ==
  ASSUME NEW n \in Netlists, NEW low, NEW pairs, NEW v, NEW w,
         \A h \in DOMAIN pairs : pairs[h] \in GolWalk(n, low) \union n.consts,
         \A g \in Above(n.fanin, n.root[1], DOMAIN n.fanin, DOMAIN pairs) : n.fanin[g] # <<>>,
         \A g \in GolWalk(n, low) \union n.consts : v[g] = w[g] /\ w[g] \in BOOLEAN
  PROVE  ValuesOf("Encoded", n, Taken(pairs, v))[n.root[1]] =
           ValuesOf("Function", n, Taken(pairs, w))[n.root[1]]
<1> DEFINE C == DOMAIN pairs
           pa == [h \in C |-> v[pairs[h]]]
           pb == [h \in C |-> w[pairs[h]]]
           r == n.root[1]
           U == ValuesOf("Encoded", n, pa)
           O == ValuesOf("Function", n, pb)
           same(g) == Same(n, pa, pb, g)
<1>1. /\ OldGates \in SUBSET Gates /\ n.root[1] \in OldGates
      /\ \A g \in OldGates : \A h \in Range(n.fanin[g]) : h \in OldGates
  <2>1. \A g \in OldGates : n.fanin[g] \in Seq(OldGates)
    BY Netlist DEF NetRight
  <2>2. \A g \in OldGates : \A h \in Range(n.fanin[g]) : h \in OldGates
    BY <2>1 DEF Range
  <2>3. QED
    BY <2>2, Netlist DEF NetRight, Gates
<1>2. \A g : same(g) <=> U[g] = O[g] /\ O[g] \in BOOLEAN
  BY DEF Same
<1>3. ASSUME NEW g \in OldGates, g \in Walk(n.fanin, r, C)
      PROVE  same(g) \/ (g \notin C \union DOMAIN pa \union DOMAIN pb /\ n.fanin[g] # <<>>)
  <2>1. CASE g \in C
    <3>1. U[g] = pa[g] /\ O[g] = pb[g]
      <4>1. g \in DOMAIN pa /\ g \in DOMAIN pb /\ g \in Gates
        BY <1>1, <2>1
      <4> HIDE DEF pa, pb
      <4>2. QED
        BY <4>1, ValuesDefined
    <3>2. U[g] = O[g] /\ O[g] \in BOOLEAN
      BY <2>1, <3>1
    <3> HIDE DEF same
    <3>3. QED
      BY <1>2, <3>2
  <2>2. CASE g \notin C
    BY <1>1, <1>3, <2>2, WalkGoesOn
  <2>3. QED
    BY <2>1, <2>2
<1> HIDE DEF pa, pb, r, C
<1>4. \A g \in OldGates : g \in Walk(n.fanin, r, C) => Same(n, pa, pb, g)
  BY <1>1, <1>3, SameValues
<1>5. r \in OldGates /\ r \in Walk(n.fanin, r, C)
  BY <1>1 DEF Walk, r
<1>6. U[r] = O[r]
  BY <1>4, <1>5 DEF Same
<1>7. QED
  BY <1>6 DEF pa, pb, r, C, Taken

(* The solver sees the golden gates of some levels only, by their clauses. *)
(* When it finds no values for these that tell the roots apart, then no    *)
(* values of the inputs do, by the functions of all the gates.             *)
LEMMA SolverSound ==
  ASSUME NEW n \in Netlists, NEW low, NEW pairs, NEW phases,
         \A c \in n.consts : phases[c] = (n.type[c] = "CONST1"),
         \A h \in DOMAIN pairs : pairs[h] \in GolWalk(n, low) \union n.consts,
         \A g \in Above(n.fanin, n.root[1], DOMAIN n.fanin, DOMAIN pairs) : n.fanin[g] # <<>>,
         Unsat(n, pairs, low, phases)
  PROVE  RootsEqual(n, pairs, InputsOf(n), TrueConst(n), Function)
<1> DEFINE one == TrueConst(n)
           S == {g \in DOMAIN n.fanin : Level(n.fanin)[g] <= low}
           C == DOMAIN pairs
<1>1. SUFFICES ASSUME NEW b \in [InputsOf(n) \ n.consts -> BOOLEAN]
               PROVE  LET golden == Values(n, Joined(b, one), Function)
                          oldOnes == Values(n, [h \in C |-> golden[pairs[h]]], Function)
                      IN oldOnes[n.root[1]] = golden[n.root[2]]
  BY DEF RootsEqual
<1> DEFINE bb == Joined(b, one)
           G == ValuesOf("Function", n, bb)
           a == [g \in Free(n, low) \ n.consts |-> G[g]]
           aa == Joined(a, one)
           E == ValuesOf("Encoded", n, aa)
           pb == [h \in C |-> G[pairs[h]]]
           pa == [h \in C |-> E[pairs[h]]]
           O == ValuesOf("Function", n, pb)
           U == ValuesOf("Encoded", n, pa)
<1>2. /\ GolGates \in SUBSET Gates /\ OldGates \in SUBSET Gates /\ DOMAIN n.fanin = Gates
      /\ \A g \in GolGates : \A h \in Range(n.fanin[g]) : h \in GolGates
      /\ \A g \in OldGates : \A h \in Range(n.fanin[g]) : h \in OldGates
      /\ n.root[1] \in OldGates /\ n.root[2] \in GolGates /\ n.consts \subseteq GolGates
  <2>1. /\ \A g \in GolGates : n.fanin[g] \in Seq(GolGates)
        /\ \A g \in OldGates : n.fanin[g] \in Seq(OldGates)
    BY Netlist DEF NetRight
  <2>2. /\ \A g \in GolGates : \A h \in Range(n.fanin[g]) : h \in GolGates
        /\ \A g \in OldGates : \A h \in Range(n.fanin[g]) : h \in OldGates
    BY <2>1 DEF Range
  <2>3. QED
    BY <2>2, Netlist DEF NetRight, Gates
<1>3. \A g \in GolGates : G[g] \in BOOLEAN
  BY GoldenValues
<1>4. [c \in n.consts |-> FALSE # phases[c]] = one
  BY DEF TrueConst
<1>5. Free(n, low) \subseteq GolWalk(n, low) /\ GolWalk(n, low) \subseteq GolGates
  BY GolWalkGolden DEF Free
<1>6. a \in [Free(n, low) \ n.consts -> BOOLEAN]
  BY <1>3, <1>5
<1>7. U[n.root[1]] = E[n.root[2]]
  <2>1. \A x \in [Free(n, low) \ n.consts -> BOOLEAN] :
          LET golden == Values(n, Joined(x, one), Encoded)
              oldOnes == Values(n, [h \in C |-> golden[pairs[h]]], Encoded)
          IN oldOnes[n.root[1]] = golden[n.root[2]]
    BY <1>4 DEF Unsat, RootsEqual
  <2>2. QED
    BY <1>6, <2>1 DEF ValuesOf
<1>8. /\ DOMAIN one = n.consts
      /\ DOMAIN bb = (InputsOf(n) \ n.consts) \union n.consts
      /\ DOMAIN aa = (Free(n, low) \ n.consts) \union n.consts
      /\ \A c \in n.consts : bb[c] = one[c] /\ aa[c] = one[c]
      /\ \A g \in Free(n, low) \ n.consts : aa[g] = G[g]
  <2>1. DOMAIN one = n.consts
    BY DEF TrueConst
  <2>2. DOMAIN b = InputsOf(n) \ n.consts /\ DOMAIN a = Free(n, low) \ n.consts
        /\ \A g \in DOMAIN a : a[g] = G[g]
    OBVIOUS
  <2> HIDE DEF one, a, G
  <2>3. QED
    BY <2>1, <2>2 DEF Joined
<1>9. \A g \in Gates : (g \in DOMAIN bb => G[g] = bb[g]) /\ (g \in DOMAIN aa => E[g] = aa[g])
  <2> HIDE DEF aa, bb
  <2>1. QED
    BY ValuesDefined
<1>10. ASSUME NEW g \in GolGates, g \in Walk(n.fanin, n.root[2], S)
       PROVE  \/ E[g] = G[g] /\ G[g] \in BOOLEAN
              \/ g \notin S \union DOMAIN aa \union DOMAIN bb /\ n.fanin[g] # <<>>
  <2> HIDE DEF E, G, aa, bb, one
  <2>1. CASE g \in n.consts
    BY <1>2, <1>3, <1>8, <1>9, <2>1
  <2>2. CASE g \in Free(n, low) \ n.consts
    BY <1>2, <1>3, <1>8, <1>9, <2>2
  <2>3. CASE g \notin Free(n, low) \union n.consts
    <3>1. g \in Gates /\ g \in GolWalk(n, low)
      BY <1>2, <1>10 DEF GolWalk
    <3>2. n.fanin[g] # <<>> /\ ~(Level(n.fanin)[g] <= low)
      BY <2>3, <3>1 DEF Free
    <3>3. n.type[g] # "PI"
      BY <3>1, <3>2, Types DEF Sources
    <3>4. g \notin DOMAIN aa /\ g \notin DOMAIN bb
      BY <1>8, <2>3, <3>3 DEF InputsOf
    <3>5. QED
      BY <3>2, <3>4
  <2>4. QED
    BY <2>1, <2>2, <2>3
<1>11. \A g \in GolWalk(n, low) \union n.consts : E[g] = G[g] /\ G[g] \in BOOLEAN
  <2>1. \A g \in GolGates : g \in Walk(n.fanin, n.root[2], S) => E[g] = G[g] /\ G[g] \in BOOLEAN
    <3> DEFINE r == n.root[2]
               same(g) == Same(n, aa, bb, g)
    <3>1. \A g : same(g) <=> E[g] = G[g] /\ G[g] \in BOOLEAN
      BY DEF Same
    <3>2. \A g \in GolGates : g \in Walk(n.fanin, r, S) =>
            same(g) \/ (g \notin S \union DOMAIN aa \union DOMAIN bb /\ n.fanin[g] # <<>>)
      BY <1>10, <3>1
    <3> HIDE DEF aa, bb, S, r
    <3>3. \A g \in GolGates : g \in Walk(n.fanin, r, S) => Same(n, aa, bb, g)
      BY <1>2, <3>2, SameValues
    <3>4. QED
      BY <3>1, <3>3 DEF r
  <2>2. \A g \in n.consts : E[g] = G[g] /\ G[g] \in BOOLEAN
    <3> HIDE DEF E, G, aa, bb, one
    <3>1. QED
      BY <1>2, <1>3, <1>8, <1>9
  <2>3. \A g \in GolWalk(n, low) : g \in GolGates /\ g \in Walk(n.fanin, n.root[2], S)
    BY <1>5 DEF GolWalk
  <2> HIDE DEF E, G, S
  <2>4. QED
    BY <2>1, <2>2, <2>3
<1>12. U[n.root[1]] = O[n.root[1]]
  <2> HIDE DEF E, G
  <2>1. ValuesOf("Encoded", n, Taken(pairs, E))[n.root[1]] =
          ValuesOf("Function", n, Taken(pairs, G))[n.root[1]]
    BY <1>11, OldSame
  <2>2. QED
    BY <2>1 DEF Taken
<1>13. n.root[2] \in GolWalk(n, low)
  BY DEF Walk, GolWalk
<1>14. O[n.root[1]] = G[n.root[2]]
  <2> HIDE DEF O, U, E, G
  <2>1. QED
    BY <1>2, <1>7, <1>11, <1>12, <1>13
<1>15. QED
  BY <1>14 DEF ValuesOf

(* When the functions of the gates that the solver sees do not tell the    *)
(* roots apart, neither do their clauses: the solver proves it.            *)
LEMMA SolverComplete ==
  ASSUME NEW n \in Netlists, NEW low, NEW pairs, NEW phases,
         \A c \in n.consts : phases[c] = (n.type[c] = "CONST1"),
         \A h \in DOMAIN pairs : pairs[h] \in GolWalk(n, low) \union n.consts,
         \A g \in Above(n.fanin, n.root[1], DOMAIN n.fanin, DOMAIN pairs) : n.fanin[g] # <<>>,
         RootsEqual(n, pairs, Free(n, low), TrueConst(n), Function)
  PROVE  Unsat(n, pairs, low, phases)
<1> DEFINE one == TrueConst(n)
           S == {g \in DOMAIN n.fanin : Level(n.fanin)[g] <= low}
           C == DOMAIN pairs
           free == Free(n, low)
<1>1. [c \in n.consts |-> FALSE # phases[c]] = one
  BY DEF TrueConst
<1>2. SUFFICES ASSUME NEW b \in [free \ n.consts -> BOOLEAN]
               PROVE  LET golden == Values(n, Joined(b, one), Encoded)
                          oldOnes == Values(n, [h \in C |-> golden[pairs[h]]], Encoded)
                      IN oldOnes[n.root[1]] = golden[n.root[2]]
  BY <1>1 DEF Unsat, RootsEqual
<1> DEFINE bb == Joined(b, one)
           E == ValuesOf("Encoded", n, bb)
           G == ValuesOf("Function", n, bb)
           U == ValuesOf("Encoded", n, [h \in C |-> E[pairs[h]]])
           O == ValuesOf("Function", n, [h \in C |-> G[pairs[h]]])
<1>3. /\ GolGates \in SUBSET Gates /\ n.consts \subseteq GolGates /\ n.root[2] \in GolGates
      /\ \A g \in GolGates : \A h \in Range(n.fanin[g]) : h \in GolGates
      /\ DOMAIN n.fanin = Gates
  <2>1. \A g \in GolGates : n.fanin[g] \in Seq(GolGates)
    BY Netlist DEF NetRight
  <2>2. \A g \in GolGates : \A h \in Range(n.fanin[g]) : h \in GolGates
    BY <2>1 DEF Range
  <2>3. QED
    BY <2>2, Netlist DEF NetRight, Gates
<1>4. DOMAIN bb = free \union n.consts /\ \A g \in DOMAIN bb : bb[g] \in BOOLEAN
  <2>1. DOMAIN one = n.consts /\ \A g \in n.consts : one[g] \in BOOLEAN
    BY DEF TrueConst
  <2>2. DOMAIN b = free \ n.consts /\ \A g \in DOMAIN b : b[g] \in BOOLEAN
    OBVIOUS
  <2> HIDE DEF one
  <2>3. bb = [x \in DOMAIN b \union DOMAIN one |-> IF x \in DOMAIN b THEN b[x] ELSE one[x]]
    BY DEF Joined
  <2> HIDE DEF bb
  <2>4. QED
    BY <2>1, <2>2, <2>3
<1>5. O[n.root[1]] = G[n.root[2]]
  <2>1. \A x \in [free \ n.consts -> BOOLEAN] :
          LET golden == Values(n, Joined(x, one), Function)
              oldOnes == Values(n, [h \in C |-> golden[pairs[h]]], Function)
          IN oldOnes[n.root[1]] = golden[n.root[2]]
    BY DEF RootsEqual
  <2>2. QED
    BY <2>1 DEF ValuesOf
<1> HIDE DEF bb, one
<1>6. \A g \in Gates : g \in DOMAIN bb => E[g] = bb[g] /\ G[g] = bb[g]
  BY ValuesDefined
<1>7. \A g \in GolWalk(n, low) \union n.consts : E[g] = G[g] /\ G[g] \in BOOLEAN
  <2> DEFINE r == n.root[2]
             same(g) == Same(n, bb, bb, g)
  <2>1. \A g : same(g) <=> E[g] = G[g] /\ G[g] \in BOOLEAN
    BY DEF Same
  <2>2. ASSUME NEW g \in GolGates, g \in Walk(n.fanin, r, S)
        PROVE  same(g) \/ (g \notin S \union DOMAIN bb \union DOMAIN bb /\ n.fanin[g] # <<>>)
    <3>1. CASE g \in DOMAIN bb
      BY <1>3, <1>4, <1>6, <2>1, <3>1
    <3>2. CASE g \notin DOMAIN bb
      <4>1. g \in Gates /\ g \in GolWalk(n, low) /\ g \notin free
        BY <1>3, <1>4, <2>2, <3>2 DEF GolWalk
      <4>2. n.fanin[g] # <<>> /\ ~(Level(n.fanin)[g] <= low)
        BY <4>1 DEF Free
      <4>3. QED
        BY <3>2, <4>2
    <3>3. QED
      BY <3>1, <3>2
  <2> HIDE DEF S, r
  <2>3. \A g \in GolGates : g \in Walk(n.fanin, r, S) => Same(n, bb, bb, g)
    BY <1>3, <2>2, SameValues
  <2>4. \A g \in GolWalk(n, low) : g \in GolGates /\ g \in Walk(n.fanin, n.root[2], S)
    BY GolWalkGolden DEF GolWalk, S
  <2>5. \A g \in n.consts : E[g] = G[g] /\ G[g] \in BOOLEAN
    <3>1. \A g \in n.consts : g \in Gates /\ g \in DOMAIN bb
      BY <1>3, <1>4
    <3>2. QED
      BY <1>4, <1>6, <3>1
  <2>6. \A g \in GolWalk(n, low) : E[g] = G[g] /\ G[g] \in BOOLEAN
    BY <2>1, <2>3, <2>4 DEF r
  <2>7. QED
    BY <2>5, <2>6
<1> HIDE DEF E, G
<1>8. U[n.root[1]] = O[n.root[1]]
  <2>1. ValuesOf("Encoded", n, Taken(pairs, E))[n.root[1]] =
          ValuesOf("Function", n, Taken(pairs, G))[n.root[1]]
    BY <1>7, OldSame
  <2>2. QED
    BY <2>1 DEF Taken
<1>9. n.root[2] \in GolWalk(n, low)
  BY DEF Walk, GolWalk
<1>10. U[n.root[1]] = E[n.root[2]]
  BY <1>5, <1>7, <1>8, <1>9
<1>11. QED
  BY <1>10 DEF ValuesOf, E, bb, one

-----------------------------------------------------------------------------
(* The list of the similar pairs.                                          *)

(* The list of the first pairs: e has their number and what to select.     *)
CandAt(v, e) ==
  IF e.i = 0 THEN <<>>
  ELSE IF IsCand(e.pairs[e.i], e.old, e.gates) THEN Append(v[e.i - 1], e.pairs[e.i])
  ELSE v[e.i - 1]
CandDef == INSTANCE FoldLemmas WITH Op <- CandAt

(* It holds the pairs of the order that are candidates, all of them.       *)
LEMMA CandPairsRight ==
  ASSUME NEW E, NEW pairs \in Seq(E), NEW old, NEW gates
  PROVE  /\ CandPairList(pairs, old, gates) \in Seq({p \in E : IsCand(p, old, gates)})
         /\ \A p \in Range(pairs) :
              IsCand(p, old, gates) => p \in Range(CandPairList(pairs, old, gates))
<1> DEFINE N == Len(pairs)
           A == {p \in E : IsCand(p, old, gates)}
           e == [i \in Nat |-> [i |-> i, pairs |-> pairs, old |-> old, gates |-> gates]]
           rank == [i \in Nat |-> i]
           Of(r, i) == IF i = 0 THEN <<>>
                       ELSE IF IsCand(pairs[i], old, gates) THEN Append(r[i - 1], pairs[i])
                       ELSE r[i - 1]
           Eq(r) == r = [i \in Nat |-> Of(r, i)]
<1>1. \E r : Eq(r)
  <2>1. CandDef!DependsOnLower(Nat, rank, e)
    <3>1. SUFFICES ASSUME NEW i \in Nat, NEW v, NEW w,
                          \A j \in Nat : rank[j] < rank[i] => v[j] = w[j]
                   PROVE  CandAt(v, e[i]) = CandAt(w, e[i])
      BY DEF CandDef!DependsOnLower
    <3>2. i # 0 => i - 1 \in Nat /\ rank[i - 1] < rank[i]
      OBVIOUS
    <3>3. i # 0 => v[i - 1] = w[i - 1]
      BY <3>1, <3>2
    <3>4. e[i].i = i
      OBVIOUS
    <3> HIDE DEF e
    <3>5. QED
      BY <3>3, <3>4 DEF CandAt
  <2>2. rank \in [Nat -> Nat]
    OBVIOUS
  <2> HIDE DEF e, rank
  <2>3. PICK r : CandDef!Recurses(r, Nat, e)
    BY <2>1, <2>2, CandDef!RecursionExists
  <2>4. r = [i \in Nat |-> CandAt(r, e[i])]
    BY <2>3 DEF CandDef!Recurses
  <2>5. \A i \in Nat : CandAt(r, e[i]) = Of(r, i)
    BY DEF e, CandAt
  <2>6. Eq(r)
    <3> HIDE DEF Of
    <3>1. QED
      BY <2>4, <2>5
  <2> HIDE DEF Eq
  <2>7. QED
    BY <2>6
<1> DEFINE list == CHOOSE r : Eq(r)
<1>2. Eq(list)
  <2> HIDE DEF Eq
  <2>1. QED
    BY <1>1
<1>3. CandPairList(pairs, old, gates) = list[N]
  BY DEF CandPairList
<1> HIDE DEF list
<1>4. \A i \in Nat : list[i] = Of(list, i)
  <2> HIDE DEF Of
  <2>1. QED
    BY <1>2
<1>5. N \in Nat /\ \A i \in 1 .. N : pairs[i] \in E
  OBVIOUS
<1> HIDE DEF N
<1> DEFINE has(i) == \A x \in 1 .. i :
                       IsCand(pairs[x], old, gates) => pairs[x] \in Range(list[i])
           G == {i \in 0 .. N : list[i] \in Seq(A) /\ has(i)}
<1>6. 0 \in G
  <2>1. list[0] = <<>> /\ has(0)
    BY <1>4
  <2> HIDE DEF A, has
  <2>2. list[0] \in Seq(A)
    BY <2>1
  <2>3. 0 \in 0 .. N
    BY <1>5
  <2>4. QED
    BY <2>1, <2>2, <2>3, Zenon
<1>7. ASSUME NEW i \in 1 .. N, i - 1 \in G PROVE i \in G
  <2>1. i \in Nat /\ i # 0 /\ list[i - 1] \in Seq(A) /\ pairs[i] \in E /\ has(i - 1)
    BY <1>5, <1>7
  <2>2. list[i] = IF IsCand(pairs[i], old, gates) THEN Append(list[i - 1], pairs[i])
                  ELSE list[i - 1]
    BY <1>4, <2>1
  <2>3. IsCand(pairs[i], old, gates) => pairs[i] \in A
    BY <2>1
  <2> HIDE DEF A, has
  <2>4. list[i] \in Seq(A)
    BY <2>1, <2>2, <2>3
  <2>5. Range(list[i - 1]) \subseteq Range(list[i])
        /\ (IsCand(pairs[i], old, gates) => pairs[i] \in Range(list[i]))
    <3>1. CASE IsCand(pairs[i], old, gates)
      <4> DEFINE q == list[i - 1]
                 p == pairs[i]
      <4>1. q \in Seq(A) /\ list[i] = Append(q, p)
        BY <2>1, <2>2, <3>1
      <4> HIDE DEF q, p
      <4>2. /\ Len(q) + 1 \in DOMAIN Append(q, p) /\ Append(q, p)[Len(q) + 1] = p
            /\ \A x \in DOMAIN q : x \in DOMAIN Append(q, p) /\ Append(q, p)[x] = q[x]
        BY <4>1
      <4>3. p \in Range(Append(q, p)) /\ Range(q) \subseteq Range(Append(q, p))
        BY <4>2 DEF Range
      <4>4. QED
        BY <4>1, <4>3 DEF q, p
    <3>2. CASE ~IsCand(pairs[i], old, gates)
      BY <2>2, <3>2
    <3>3. QED
      BY <3>1, <3>2
  <2>6. has(i)
    <3>1. \A x \in 1 .. i : x = i \/ x \in 1 .. (i - 1)
      BY <2>1
    <3>2. \A x \in 1 .. (i - 1) : IsCand(pairs[x], old, gates) => pairs[x] \in Range(list[i - 1])
      BY <2>1 DEF has
    <3>3. QED
      BY <2>5, <3>1, <3>2 DEF has
  <2>7. QED
    BY <1>5, <2>4, <2>6
<1>8. N \in G
  <2> HIDE DEF G
  <2>1. \A i \in 0 .. N : i \in G
    BY <1>5, <1>6, <1>7, CandDef!IntervalInduction
  <2>2. QED
    BY <1>5, <2>1
<1>9. \A p \in Range(pairs) : \E x \in 1 .. N : p = pairs[x]
  BY DEF Range, N
<1>10. QED
  BY <1>3, <1>8, <1>9

-----------------------------------------------------------------------------
(* The marks and the walks of a level.                                     *)

(* When no golden gate reads the constant one, the walk does not reach it. *)
LEMMA WalkNoOne ==
  ASSUME NEW n \in Netlists, NEW low, ReadsNoOne(n), NEW c \in GolWalk(n, low)
  PROVE  n.type[c] # "CONST1"
<1> DEFINE f == n.fanin
           S == {g \in DOMAIN f : Level(f)[g] <= low}
           A == Above(f, n.root[2], DOMAIN f, S)
           T == {g \in GolGates : n.type[g] # "CONST1"}
<1>1. /\ DOMAIN f = Gates /\ n.root[2] \in GolGates
      /\ \A g \in GolGates : \A h \in Range(f[g]) : h \in GolGates
  <2>1. \A g \in GolGates : f[g] \in Seq(GolGates)
    BY Netlist DEF NetRight
  <2>2. \A g \in GolGates : \A h \in Range(f[g]) : h \in GolGates
    BY <2>1 DEF Range
  <2>3. QED
    BY <2>2, Netlist DEF NetRight
<1>2. IsFiniteSet(Gates \ S)
  <2>1. Gates \ S \in SUBSET Gates
    OBVIOUS
  <2>2. QED
    BY <2>1, GatesFinite, FS_Subset
<1>3. GolWalk(n, low) = {n.root[2]} \union A \union UNION {Range(f[g]) : g \in A}
  BY DEF GolWalk, Walk
<1> HIDE DEF S
<1>4. Least(A, f, {n.root[2]} \ S, Gates \ S)
  BY <1>1, <1>2, ReachLeast DEF Above
<1> HIDE DEF A
<1>5. \A g \in GolGates : \A h \in Range(f[g]) : h \in T
  BY <1>1 DEF ReadsNoOne
<1>6. n.root[2] \in T
  BY <1>1 DEF ReadsNoOne
<1>7. ReadBy(f, T, Gates \ S) \subseteq T
  BY <1>5 DEF ReadBy
<1>8. A \subseteq T
  BY <1>4, <1>6, <1>7 DEF Least
<1>9. QED
  BY <1>3, <1>5, <1>6, <1>8

(* A walk to a lower level goes further.                                   *)
LEMMA GolWalkGrows ==
  ASSUME NEW n \in Netlists, NEW low \in Int
  PROVE  GolWalk(n, low) \subseteq GolWalk(n, low - 1)
<1> DEFINE f == n.fanin
           S == {g \in DOMAIN f : Level(f)[g] <= low - 1}
           T == {g \in DOMAIN f : Level(f)[g] <= low}
<1>1. DOMAIN f = Gates /\ Ordered(f)
  BY Netlist, GatesFinite DEF NetRight, Ordered
<1>2. \A g \in DOMAIN f : Level(f)[g] \in Nat
  BY <1>1, LevelType
<1>3. S \subseteq T
  BY <1>2
<1> HIDE DEF S, T
<1>4. Walk(f, n.root[2], T) \subseteq Walk(f, n.root[2], S)
  BY <1>3, WalkGrows
<1>5. QED
  BY <1>4 DEF GolWalk, S, T

(* What the marks of a side say.                                           *)
MarksOf(m, side, dup) ==
  /\ m.reached \subseteq SideOf(side)
  /\ m.dups \in Seq(m.reached \intersect dup)
  /\ \A g \in m.reached :
       \/ g = nl.root[side]
       \/ \E p \in m.reached : /\ g \in Range(nl.fanin[p])
                               /\ ~(Level(nl.fanin)[p] <= Low(side))

(* Mark gives such marks.                                                  *)
LEMMA MarkRight ==
  ASSUME nl \in Netlists, NEW side \in {1, 2}, NEW dup
  PROVE  MarksOf(Mark(side, dup), side, dup)
<1> DEFINE x == [fanin |-> nl.fanin, level |-> Level(nl.fanin), low |-> Low(side),
                 merged |-> MergeFlag(nl), dups |-> dup]
           D == DOMAIN nl.fanin
           r == nl.root[side]
           m == Mark(side, dup)
           T == SideOf(side)
<1>1. NetRight(nl)
  BY Netlist
<1>2. D = Gates /\ \A g \in Gates : nl.fanin[g] \in Seq(Gates)
  BY <1>1 DEF NetRight
<1>3. r \in T /\ \A g \in T : nl.fanin[g] \in Seq(T)
  BY <1>1 DEF NetRight, SideOf
<1>4. T \in SUBSET D
  BY <1>2 DEF SideOf, Gates
<1>5. x.fanin = nl.fanin /\ x.level = Level(nl.fanin) /\ x.low = Low(side) /\ x.dups = dup
  OBVIOUS
<1>6. m = MarkBottomCut(D, r, x)
  BY DEF Mark
<1> HIDE DEF x, m, r, T, D
<1>7. Marked(m, r, T, x)
  <2>1. T \in SUBSET DOMAIN x.fanin /\ IsFiniteSet(DOMAIN x.fanin)
    BY <1>2, <1>4, <1>5, GatesFinite DEF D
  <2>2. /\ \A g \in DOMAIN x.fanin : x.fanin[g] \in Seq(Gates)
        /\ \A g \in T : x.fanin[g] \in Seq(T)
    BY <1>2, <1>3, <1>5 DEF D
  <2>3. QED
    BY <1>3, <1>6, <2>1, <2>2, MarksRight
<1>8. \A p : ~Stops(p, x) => ~(Level(nl.fanin)[p] <= Low(side))
  BY <1>5 DEF Stops, OnLowest
<1>9. m.reached \subseteq T /\ m.dups \in Seq(m.reached \intersect dup)
  BY <1>5, <1>7 DEF Marked
<1>10. \A g \in m.reached : \/ g = r
                            \/ \E p \in m.reached : /\ g \in Range(nl.fanin[p])
                                                    /\ ~(Level(nl.fanin)[p] <= Low(side))
  BY <1>5, <1>7, <1>8 DEF Marked, ReadFrom
<1>11. QED
  BY <1>9, <1>10 DEF MarksOf, m, r, T

-----------------------------------------------------------------------------
(* The inductive invariant.                                                *)

(* The lists of a level: cuts of the old root, and golden gates that the   *)
(* walk of this level reaches, the known ones of the levels before too.    *)
GoldenKnown == GolWalk(nl, Low(2)) \union nl.consts

ListsRight ==
  /\ nl \in Netlists /\ sim \in SimOrders /\ level \in Nat \ {0} /\ minCheckSize \in Nat
  /\ dups \in Seq(OldGates) /\ DOMAIN dupOf = Range(dups)
  /\ \A h \in Range(dups) : dupOf[h] \in GolWalk(nl, Low(2))
  /\ rev \in Seq(SUBSET OldGates)
  /\ \A j \in DOMAIN rev : CutRight(nl.fanin, nl.root[1], rev[j], Range(dups))
  /\ gol \in Seq(SUBSET GolWalk(nl, Low(2)))
  /\ known \intersect GolGates \subseteq GoldenKnown

(* The phases of the constants, while no golden gate reads the one.        *)
PhaseRight ==
  ReadsNoOne(nl) => \A c \in nl.consts : phase[c] = (nl.type[c] = "CONST1")

(* The counts when the gates of a set have partners: the cuts larger than  *)
(* checkSize are not counted down.                                         *)
LeftAre(gates) ==
  left = [i \in DOMAIN gol |-> IF Cardinality(gol[i]) <= checkSize
                               THEN Cardinality(gol[i] \ gates) ELSE Cardinality(gol[i])]

(* The indices are those of the largest old cut so far; between two old    *)
(* cuts nothing is selected.                                               *)
LevelRight ==
  pc \in {"cut", "pair", "return"} =>
    checkSize \in Nat /\ (checkSize # 0 => cuts = CutIndices(checkSize))

BetweenCuts ==
  pc = "cut" => k \in Nat \ {0} /\ mapping = <<>> /\ LeftAre({})

(* The gates of the first j calls; the recursion: a call selects a pair of *)
(* gates that the calls before it left, and knows how many they left.      *)
UpTo(list, calls, j) ==
  {list[calls[i].index][1] : i \in 1 .. j} \union {list[calls[i].index][2] : i \in 1 .. j}
Chosen == UpTo(CandPairs, stack, Len(stack))

StackRight ==
  pc \in {"pair", "return"} =>
    /\ k \in DOMAIN rev /\ Cardinality(rev[k]) <= checkSize
    /\ stack \in Seq([index : 1 .. Len(CandPairs), left : Nat, consts : Nat])
    /\ at \in [index : Nat \ {0}, left : Nat, consts : Nat]
    /\ \A j \in DOMAIN stack :
         /\ stack[j].left = Cardinality(rev[k] \ UpTo(CandPairs, stack, j - 1))
         /\ CandPairs[stack[j].index][1] \notin UpTo(CandPairs, stack, j - 1)
         /\ CandPairs[stack[j].index][2] \notin UpTo(CandPairs, stack, j - 1)

(* While there is no match the gates with partners are those of the calls. *)
Searching ==
  pc = "pair" \/ (pc = "return" /\ ~found) =>
    /\ mapping = [g \in Chosen |-> mapping[g]]
    /\ \A g \in Chosen \intersect OldGates : mapping[g] \in GoldenKnown
    /\ LeftAre(Chosen)
LeftInCut == pc = "pair" => at.left = Cardinality(rev[k] \ Chosen)

(* A match is right, while no golden gate reads the constant one.          *)
Right(pairs, ofDups) ==
  RootsEqual(nl, Joined(pairs, ofDups), InputsOf(nl), TrueConst(nl), Function)
MatchRight ==
  ReadsNoOne(nl) =>
    /\ pc = "return" /\ found => Right([h \in rev[k] |-> mapping[h]], dupOf)
    /\ res # NoMatch => Right(res.pairs, res.dups)

(* All of them.                                                            *)
IInv ==
  /\ ListsRight /\ PhaseRight /\ LevelRight /\ BetweenCuts /\ StackRight
  /\ Searching /\ LeftInCut /\ MatchRight

(* At the start nothing is found and nothing is known but the constants.   *)
LEMMA IInvInit == Init => IInv
<1> SUFFICES ASSUME Init PROVE IInv
  OBVIOUS
<1>1. /\ nl \in Netlists /\ sim \in SimOrders /\ level = 1 /\ minCheckSize \in Nat
      /\ dups = <<>> /\ dupOf = <<>> /\ rev = <<>> /\ gol = <<>> /\ known = nl.consts
      /\ phase = [c \in nl.consts |-> CtorPhase(nl.type[c])] /\ res = NoMatch /\ pc = "level"
  BY CutMatchAssumption DEF Init
<1>2. DOMAIN dupOf = {} /\ Range(dups) = {}
  BY <1>1 DEF Range
<1>3. ListsRight
  BY <1>1, <1>2 DEF ListsRight, GoldenKnown
<1>4. PhaseRight
  <2>1. \A c \in nl.consts : nl.type[c] \in {"CONST0", "CONST1"}
    BY <1>1, Types
  <2>2. QED
    BY <1>1, <2>1 DEF PhaseRight, CtorPhase, Inverted
<1>5. QED
  BY <1>1, <1>3, <1>4
     DEF IInv, LevelRight, BetweenCuts, StackRight, Searching, LeftInCut, MatchRight

(* The golden gates that the marks reach are in the walk of the level.     *)
LEMMA MarksInWalk ==
  ASSUME nl \in Netlists, NEW m, NEW dup, MarksOf(m, 2, dup)
  PROVE  m.reached \subseteq GolWalk(nl, Low(2))
<1> DEFINE S == {g \in DOMAIN nl.fanin : Level(nl.fanin)[g] <= Low(2)}
           R == m.reached
           r == nl.root[2]
<1>1. R \in SUBSET Gates
  BY DEF MarksOf, SideOf, Gates
<1>2. \A g \in R : g = r \/ \E p \in R : p \notin S /\ g \in Range(nl.fanin[p])
  BY DEF MarksOf
<1> HIDE DEF S, R, r
<1>3. R \subseteq Walk(nl.fanin, r, S)
  BY <1>1, <1>2, WalkReaches
<1>4. QED
  BY <1>3 DEF GolWalk, S, R, r

(* A set of gates has one with the highest level.                          *)
LEMMA HighestGate ==
  ASSUME nl \in Netlists, NEW T \in SUBSET Gates, T # {}
  PROVE  \E g \in T : \A g2 \in T : Level(nl.fanin)[g] >= Level(nl.fanin)[g2]
<1> DEFINE lv == Level(nl.fanin)
           V == {lv[g] : g \in T}
<1>1. DOMAIN nl.fanin = Gates /\ Ordered(nl.fanin)
  BY Netlist, GatesFinite DEF NetRight, Ordered
<1>2. \A g \in Gates : lv[g] \in Nat
  BY <1>1, LevelType
<1> HIDE DEF lv
<1>3. IsFiniteSet(T)
  BY GatesFinite, FS_Subset
<1>4. [g \in T |-> lv[g]] \in Surjection(T, V)
  BY DEF Surjection
<1>5. V \in SUBSET Nat /\ V # {} /\ IsFiniteSet(V)
  BY <1>2, <1>3, <1>4, FS_Surjection
<1> HIDE DEF V
<1>6. Max(V) \in V /\ \A x \in V : x <= Max(V)
  BY <1>5, MaxOfNats
<1>7. PICK v \in V : \A x \in V : x <= v
  BY <1>6
<1>8. PICK g \in T : lv[g] = v
  BY DEF V
<1>9. \A g2 \in T : lv[g2] \in V /\ lv[g2] \in Nat
  BY <1>2 DEF V
<1>10. \A g2 \in T : lv[g] >= lv[g2]
  BY <1>2, <1>7, <1>8, <1>9
<1>11. QED
  BY <1>10 DEF lv

(* The cuts of a side are listed.                                          *)
LEMMA CutsListed ==
  ASSUME NEW m, NEW root, NEW changed, NEW D \in SUBSET Gates, m.reached \subseteq D
  PROVE  /\ CutsAt(m, root, changed)
              \in Seq(CutsAbove(nl.fanin, root, m, minCheckSize, changed))
         /\ CutsAbove(nl.fanin, root, m, minCheckSize, changed) \in SUBSET (SUBSET D)
<1> DEFINE sets == CutsAbove(nl.fanin, root, m, minCheckSize, changed)
<1>1. sets \in SUBSET (SUBSET D)
  BY DEF CutsAbove
<1>2. CutsAt(m, root, changed) = InOrder(sets)
  BY DEF CutsAt
<1> HIDE DEF sets
<1>3. sets \in SUBSET (SUBSET Gates) /\ IsFiniteSet(Gates) /\ Gates \in SUBSET Nat
  BY <1>1, GatesFinite
<1>4. InOrder(sets) \in Seq(sets)
  BY <1>3, InOrderLists
<1>5. QED
  BY <1>1, <1>2, <1>4 DEF sets

(* A new level has lists of its own, after the ones kept.                  *)
LEMMA NextLevelLists ==
  ASSUME IInv, NextLevel PROVE ListsRight'
<1> DEFINE cone == Mark(2, {}).reached
           twins == {h \in DOMAIN nl.fanin : Partners(h) \intersect cone # {}}
           r == Mark(1, twins)
           high(h, g) == \A g2 \in Partners(h) \intersect cone :
                           Level(nl.fanin)[g] >= Level(nl.fanin)[g2]
           partner == [h \in Range(r.dups) |->
                         CHOOSE g \in Partners(h) \intersect cone : high(h, g)]
           changed == r.dups # dups
           m == Mark(2, Range(partner))
           revNew == CutsAt(r, nl.root[1], changed)
           golNew == CutsAt(m, nl.root[2], changed)
           revOld == IF changed THEN <<>> ELSE rev
           golOld == IF changed THEN <<>> ELSE gol
           walk == GolWalk(nl, Low(2))
           f == nl.fanin
           root == nl.root[1]
<1>1. /\ nl \in Netlists /\ sim \in SimOrders /\ level \in Nat \ {0} /\ minCheckSize \in Nat
      /\ dups \in Seq(OldGates)
      /\ rev \in Seq(SUBSET OldGates)
      /\ \A j \in DOMAIN rev : CutRight(f, root, rev[j], Range(dups))
      /\ gol \in Seq(SUBSET walk) /\ known \intersect GolGates \subseteq walk \union nl.consts
  BY DEF IInv, ListsRight, GoldenKnown
<1>2. /\ dups' = r.dups /\ dupOf' = partner
      /\ known' = known \union (UNION Range(revNew)) \union (UNION Range(golNew))
      /\ rev' = revOld \o revNew
      /\ gol' = <<{}>> \/ gol' = golOld \o golNew
      /\ UNCHANGED <<nl, sim, level, minCheckSize>>
  BY DEF NextLevel, inputs
<1>3. walk' = walk /\ f' = f /\ root' = root /\ GoldenKnown' = walk \union nl.consts
  BY <1>2 DEF GoldenKnown, Low
<1>4. MarksOf(Mark(2, {}), 2, {}) /\ MarksOf(r, 1, twins) /\ MarksOf(m, 2, Range(partner))
  <2>1. nl \in Netlists /\ 1 \in {1, 2} /\ 2 \in {1, 2}
    BY <1>1
  <2> HIDE DEF r, partner, twins
  <2>2. QED
    BY <2>1, MarkRight DEF r
<1>5. cone \subseteq walk /\ m.reached \subseteq walk
  <2> HIDE DEF partner
  <2>1. QED
    BY <1>1, <1>4, MarksInWalk
<1> HIDE DEF walk, cone, r, twins, m, f, root
<1>6. /\ r.reached \subseteq OldGates /\ r.dups \in Seq(r.reached \intersect twins)
      /\ \A g \in r.reached : g = root \/ \E p \in r.reached : g \in Range(f[p])
      /\ m.reached \subseteq GolGates
  BY <1>4 DEF MarksOf, SideOf, f, root
<1>7. r.dups \in Seq(OldGates) /\ Range(r.dups) \subseteq r.reached
      /\ \A h \in Range(r.dups) : h \in twins
  <2> DEFINE A == r.reached \intersect twins
             q == r.dups
  <2>1. q \in Seq(A) /\ A \subseteq OldGates /\ A \subseteq r.reached /\ A \subseteq twins
    BY <1>6
  <2> HIDE DEF A, q
  <2>2. q \in Seq(OldGates) /\ Range(q) \subseteq A
    BY <2>1 DEF Range
  <2>3. QED
    BY <2>1, <2>2 DEF q
<1>8. DOMAIN partner = Range(r.dups) /\ \A h \in Range(r.dups) : partner[h] \in walk
  <2>1. SUFFICES ASSUME NEW h \in Range(r.dups) PROVE partner[h] \in walk
    OBVIOUS
  <2> DEFINE T == Partners(h) \intersect cone
  <2>2. T # {} /\ T \in SUBSET Gates
    <3>1. DOMAIN nl.fanin = Gates
      BY <1>1, Netlist DEF NetRight
    <3>2. QED
      BY <1>7, <3>1 DEF twins, Partners
  <2>3. \E g \in T : high(h, g)
    BY <1>1, <2>2, HighestGate
  <2> HIDE DEF high
  <2>4. partner[h] \in T
    BY <2>3
  <2>5. QED
    BY <1>5, <2>4
<1>9. revNew \in Seq(SUBSET OldGates)
      /\ \A j \in DOMAIN revNew : CutRight(f, root, revNew[j], Range(r.dups))
  <2> DEFINE sets == CutsAbove(f, root, r, minCheckSize, changed)
  <2>1. revNew \in Seq(sets) /\ sets \in SUBSET (SUBSET OldGates)
    <3>1. OldGates \in SUBSET Gates /\ r.reached \subseteq OldGates
      BY <1>6 DEF Gates
    <3> HIDE DEF changed
    <3>2. /\ CutsAt(r, root, changed)
                \in Seq(CutsAbove(nl.fanin, root, r, minCheckSize, changed))
          /\ CutsAbove(nl.fanin, root, r, minCheckSize, changed) \in SUBSET (SUBSET OldGates)
      BY <3>1, CutsListed
    <3>3. QED
      BY <3>2 DEF f, root
  <2>2. \A S \in sets : CutRight(f, root, S, Range(r.dups))
    <3>1. r.reached \subseteq Gates
      BY <1>6 DEF Gates
    <3> HIDE DEF changed
    <3>2. QED
      BY <1>1, <1>6, <1>7, <3>1, CutsRight DEF f
  <2> HIDE DEF sets, revNew
  <2>3. QED
    BY <2>1, <2>2
<1>10. golNew \in Seq(SUBSET walk) /\ UNION Range(golNew) \subseteq walk
       /\ UNION Range(revNew) \subseteq OldGates
  <2> DEFINE sets == CutsAbove(f, nl.root[2], m, minCheckSize, changed)
  <2>1. golNew \in Seq(sets) /\ sets \in SUBSET (SUBSET m.reached)
    <3>1. m.reached \in SUBSET Gates
      BY <1>6 DEF Gates
    <3> HIDE DEF changed
    <3>2. QED
      BY <1>6, <3>1, CutsListed DEF f
  <2>2. sets \subseteq SUBSET walk
    BY <1>5, <2>1
  <2> HIDE DEF sets, golNew, revNew
  <2>3. golNew \in Seq(SUBSET walk)
    BY <2>1, <2>2
  <2>4. UNION Range(golNew) \subseteq walk /\ UNION Range(revNew) \subseteq OldGates
    BY <1>9, <2>3 DEF Range
  <2>5. QED
    BY <2>3, <2>4
<1>11. revOld \in Seq(SUBSET OldGates)
       /\ \A j \in DOMAIN revOld : CutRight(f, root, revOld[j], Range(r.dups))
  <2>1. CASE changed
    BY <2>1
  <2>2. CASE ~changed
    BY <1>1, <2>2
  <2>3. QED
    BY <2>1, <2>2
<1>12. golOld \in Seq(SUBSET walk)
  BY <1>1
<1> HIDE DEF revOld, golOld, revNew, golNew, partner, changed
<1>13. rev' \in Seq(SUBSET OldGates) /\ gol' \in Seq(SUBSET walk)
  <2>1. rev' \in Seq(SUBSET OldGates)
    BY <1>2, <1>9, <1>11
  <2>2. golOld \o golNew \in Seq(SUBSET walk)
    BY <1>10, <1>12
  <2>3. <<{}>> \in Seq(SUBSET walk)
    OBVIOUS
  <2>4. QED
    BY <1>2, <2>1, <2>2, <2>3
<1>14. \A j \in DOMAIN rev' : CutRight(f, root, rev'[j], Range(r.dups))
  <2>1. SUFFICES ASSUME NEW j \in DOMAIN rev' PROVE CutRight(f, root, rev'[j], Range(r.dups))
    OBVIOUS
  <2>2. \/ j \in DOMAIN revOld /\ rev'[j] = revOld[j]
        \/ j - Len(revOld) \in DOMAIN revNew /\ rev'[j] = revNew[j - Len(revOld)]
    BY <1>2, <1>9, <1>11
  <2>3. QED
    BY <1>9, <1>11, <2>2
<1>15. known' \intersect GolGates \subseteq walk \union nl.consts
  <2>1. OldGates \intersect GolGates = {}
    BY CutMatchAssumption
  <2>2. QED
    BY <1>1, <1>2, <1>10, <2>1
<1>16. QED
  BY <1>1, <1>2, <1>3, <1>7, <1>8, <1>13, <1>14, <1>15 DEF ListsRight, walk, f, root

(* The lists, when they and the level stay.                                *)
LEMMA ListsKept ==
  ASSUME ListsRight, UNCHANGED <<inputs, level, lists>>, minCheckSize' \in Nat
  PROVE  ListsRight'
<1>1. /\ UNCHANGED <<nl, sim, level, dups, dupOf, rev, gol, known>>
  BY DEF inputs, lists
<1>2. GolWalk(nl, Low(2))' = GolWalk(nl, Low(2)) /\ GoldenKnown' = GoldenKnown
  BY <1>1 DEF GoldenKnown, Low
<1> DEFINE walk == GolWalk(nl, Low(2))
<1> HIDE DEF walk
<1>3. QED
  BY <1>1, <1>2 DEF ListsRight, walk

(* The phases, when they and the netlist stay.                             *)
LEMMA PhaseKept ==
  ASSUME PhaseRight, nl' = nl, phase' = phase
  PROVE  PhaseRight'
BY DEF PhaseRight

(* The match, when no call returns with another.                           *)
LEMMA MatchKept ==
  ASSUME MatchRight, nl' = nl, res' = res, pc' # "return" \/ ~found'
  PROVE  MatchRight'
BY DEF MatchRight, Right

(* Nothing is chosen before the first call.                                *)
LEMMA NothingChosen == \A list, calls : UpTo(list, calls, 0) = {}
BY DEF UpTo

(* The sizes of the sets of gates.                                         *)
LEMMA GateSets ==
  ASSUME NEW S \in SUBSET Gates
  PROVE  IsFiniteSet(S) /\ Cardinality(S) \in Nat /\ (Cardinality(S) = 0 <=> S = {})
BY GatesFinite, FS_Subset, FS_CardinalityType, FS_EmptySet

(* The larger of two numbers.                                              *)
LEMMA MaxOfTwo ==
  ASSUME NEW a \in Nat, NEW b \in Nat
  PROVE  /\ Max({a, b}) \in Nat /\ a <= Max({a, b})
         /\ Max({a, b}) = IF a > b THEN a ELSE b
<1> DEFINE S == {a, b}
<1>1. IsFiniteSet(S)
  <2>1. IsFiniteSet({a}) /\ S = {a} \union {b} /\ IsFiniteSet({b})
    BY FS_Singleton
  <2>2. QED
    BY <2>1, FS_Union
<1>2. S \in SUBSET Nat /\ S # {}
  OBVIOUS
<1> DEFINE m == Max(S)
<1>3. m \in S /\ \A x \in S : x <= m
  <2> HIDE DEF S
  <2>1. QED
    BY <1>1, <1>2, MaxOfNats
<1> HIDE DEF m
<1>4. (m = a \/ m = b) /\ a <= m /\ b <= m
  BY <1>3
<1>5. m = (IF a > b THEN a ELSE b)
  BY <1>4
<1>6. QED
  BY <1>4, <1>5 DEF m

(* The lists hold sets of gates.                                           *)
LEMMA CutsAreGates ==
  ASSUME ListsRight
  PROVE  /\ \A j \in DOMAIN rev : /\ rev[j] \in SUBSET Gates /\ rev[j] \subseteq OldGates
                                  /\ rev[j] # {} /\ rev[j] \intersect Range(dups) = {}
         /\ \A i \in DOMAIN gol : gol[i] \in SUBSET Gates /\ gol[i] \subseteq GolWalk(nl, Low(2))
         /\ GolWalk(nl, Low(2)) \subseteq GolGates /\ OldGates \intersect GolGates = {}
         /\ Range(dups) \subseteq OldGates
<1> DEFINE walk == GolWalk(nl, Low(2))
<1>1. /\ rev \in Seq(SUBSET OldGates) /\ gol \in Seq(SUBSET walk) /\ dups \in Seq(OldGates)
      /\ \A j \in DOMAIN rev : CutRight(nl.fanin, nl.root[1], rev[j], Range(dups))
      /\ nl \in Netlists
  BY DEF ListsRight
<1>2. walk \subseteq GolGates
  BY <1>1, GolWalkGolden
<1> HIDE DEF walk
<1>3. \A j \in DOMAIN rev : rev[j] \subseteq OldGates
  BY <1>1
<1>4. \A i \in DOMAIN gol : gol[i] \subseteq walk
  BY <1>1
<1>5. Range(dups) \subseteq OldGates
  BY <1>1 DEF Range
<1>6. QED
  BY <1>1, <1>2, <1>3, <1>4, <1>5, CutMatchAssumption DEF CutRight, Gates, walk

(* With nothing chosen, each count is the size of its cut.                 *)
LEMMA LeftOfNone ==
  LeftAre({}) <=> left = [i \in DOMAIN gol |-> Cardinality(gol[i])]
<1>1. \A i \in DOMAIN gol : gol[i] \ {} = gol[i]
  OBVIOUS
<1>2. [i \in DOMAIN gol |-> IF Cardinality(gol[i]) <= checkSize
                            THEN Cardinality(gol[i] \ {}) ELSE Cardinality(gol[i])]
        = [i \in DOMAIN gol |-> Cardinality(gol[i])]
  BY <1>1
<1>3. QED
  BY <1>2 DEF LeftAre

-----------------------------------------------------------------------------
(* The steps between the old cuts keep the invariant.                      *)

(* A new level: all counts are those of its cuts.                          *)
LEMMA NextLevelKeeps == ASSUME IInv, NextLevel PROVE IInv'
<1>1. ListsRight'
  BY NextLevelLists
<1>2. /\ pc' \in {"cut", "done"} /\ k' = 1 /\ checkSize' = 0 /\ mapping' = <<>>
      /\ left' = [i \in DOMAIN gol' |-> Cardinality(gol'[i])]
      /\ nl' = nl /\ phase' = phase /\ res' = res
  BY DEF NextLevel, inputs
<1>3. LeftAre({})'
  <2>1. \A i \in DOMAIN gol' : gol'[i] \ {} = gol'[i]
    OBVIOUS
  <2>2. QED
    BY <1>2, <2>1 DEF LeftAre
<1>4. PhaseRight' /\ MatchRight'
  BY <1>2, PhaseKept, MatchKept DEF IInv
<1>5. LevelRight' /\ BetweenCuts'
  BY <1>2, <1>3 DEF LevelRight, BetweenCuts
<1>6. StackRight' /\ Searching' /\ LeftInCut'
  BY <1>2 DEF StackRight, Searching, LeftInCut
<1>7. QED
  BY <1>1, <1>4, <1>5, <1>6 DEF IInv

(* The next old cut: the search starts with nothing chosen.                *)
LEMMA NextCutKeeps == ASSUME IInv, NextCut PROVE IInv'
<1> DEFINE size == Cardinality(rev[k])
<1>1. /\ pc = "cut" /\ k <= Len(rev) /\ ~(size > checkSize /\ size > minCheckSize)
      /\ checkSize' = Max({size, checkSize})
      /\ cuts' = IF size > checkSize THEN CutIndices(size) ELSE cuts
      /\ at' = [Start EXCEPT !.left = size] /\ stack' = <<>> /\ pc' = "pair"
      /\ phase' = [c \in nl.consts |-> IF c \in GolWalk(nl, Low(2)) THEN LevelPhase(nl.type[c])
                                       ELSE phase[c]]
      /\ UNCHANGED <<nl, sim, level, minCheckSize, lists, k, left, mapping, found, res>>
  BY DEF NextCut, inputs
<1>2. UNCHANGED <<dups, dupOf, rev, gol, known>>
  BY <1>1 DEF lists
<1>3. /\ ListsRight /\ k \in Nat \ {0} /\ mapping = <<>> /\ LeftAre({})
      /\ checkSize \in Nat /\ (checkSize # 0 => cuts = CutIndices(checkSize))
  BY <1>1 DEF IInv, BetweenCuts, LevelRight
<1>4. ListsRight'
  <2>1. minCheckSize' \in Nat
    BY <1>1, <1>3 DEF ListsRight
  <2>2. QED
    BY <1>1, <1>3, <2>1, ListsKept DEF inputs
<1>5. k \in DOMAIN rev /\ size \in Nat /\ size # 0
  <2>1. rev \in Seq(SUBSET OldGates)
    BY <1>3 DEF ListsRight
  <2>2. k \in DOMAIN rev
    BY <1>1, <1>3, <2>1
  <2>3. rev[k] \in SUBSET Gates /\ rev[k] # {}
    BY <1>3, <2>2, CutsAreGates
  <2>4. QED
    BY <2>2, <2>3, GateSets
<1> HIDE DEF size
<1>6. /\ checkSize' \in Nat /\ size <= checkSize'
      /\ checkSize' = IF size > checkSize THEN size ELSE checkSize
  BY <1>1, <1>3, <1>5, MaxOfTwo
<1>7. LevelRight' /\ BetweenCuts'
  <2>1. cuts' = CutIndices(checkSize')
    BY <1>1, <1>3, <1>5, <1>6
  <2>2. CutIndices(checkSize)' = CutIndices(checkSize')
    BY <1>2 DEF CutIndices
  <2>3. QED
    BY <1>1, <1>6, <2>1, <2>2 DEF LevelRight, BetweenCuts
<1>8. Chosen' = {}
  BY <1>1, NothingChosen DEF Chosen
<1>9. StackRight'
  <2>1. at' = [index |-> 1, left |-> size, consts |-> 0]
    BY <1>1 DEF Start
  <2>2. k' \in DOMAIN rev' /\ Cardinality(rev'[k']) <= checkSize'
    BY <1>1, <1>2, <1>5, <1>6 DEF size
  <2>3. at' \in [index : Nat \ {0}, left : Nat, consts : Nat]
    BY <1>5, <2>1
  <2>4. QED
    BY <1>1, <2>2, <2>3 DEF StackRight
<1>10. Searching'
  <2>1. mapping' = [g \in Chosen' |-> mapping'[g]]
    BY <1>1, <1>3, <1>8
  <2>2. LeftAre(Chosen)'
    <3>1. left = [i \in DOMAIN gol |-> Cardinality(gol[i])]
      BY <1>3, LeftOfNone
    <3>2. \A i \in DOMAIN gol' : gol'[i] \ {} = gol'[i]
      OBVIOUS
    <3>3. left' = [i \in DOMAIN gol' |-> Cardinality(gol'[i])]
      BY <1>1, <1>2, <3>1
    <3>4. QED
      BY <1>8, <3>2, <3>3 DEF LeftAre
  <2>3. QED
    BY <1>8, <2>1, <2>2 DEF Searching
<1>11. LeftInCut'
  <2>1. at'.left = size
    BY <1>1 DEF Start
  <2>2. rev'[k'] \ {} = rev[k]
    BY <1>1, <1>2
  <2>3. QED
    BY <1>8, <2>1, <2>2 DEF LeftInCut, size
<1>12. PhaseRight'
  <2>1. SUFFICES ASSUME ReadsNoOne(nl), NEW c \in nl.consts
                 PROVE  phase'[c] = (nl.type[c] = "CONST1")
    BY <1>1 DEF PhaseRight
  <2>2. nl \in Netlists /\ phase[c] = (nl.type[c] = "CONST1")
    BY <1>3, <2>1 DEF IInv, PhaseRight, ListsRight
  <2>3. nl.type[c] \in {"CONST0", "CONST1"}
    BY <2>2, Types
  <2>4. CASE c \in GolWalk(nl, Low(2))
    <3>1. nl.type[c] = "CONST0"
      BY <2>1, <2>2, <2>3, <2>4, WalkNoOne
    <3>2. phase'[c] = LevelPhase(nl.type[c])
      BY <1>1, <2>4
    <3>3. QED
      BY <3>1, <3>2 DEF LevelPhase, Inverted
  <2>5. CASE c \notin GolWalk(nl, Low(2))
    BY <1>1, <2>2, <2>5
  <2>6. QED
    BY <2>4, <2>5
<1>13. MatchRight'
  BY <1>1, MatchKept DEF IInv
<1>14. QED
  BY <1>4, <1>7, <1>9, <1>10, <1>11, <1>12, <1>13 DEF IInv

(* The end of a level without a match.                                     *)
LEMMA NoMoreCutsKeeps == ASSUME IInv, NoMoreCuts PROVE IInv'
<1>1. /\ pc' = "end"
      /\ UNCHANGED <<nl, sim, level, minCheckSize, lists, phase, res>>
  BY DEF NoMoreCuts, inputs
<1>2. ListsRight'
  <2>1. minCheckSize' \in Nat
    BY <1>1 DEF IInv, ListsRight
  <2>2. QED
    BY <1>1, <2>1, ListsKept DEF IInv, inputs
<1>3. PhaseRight' /\ MatchRight'
  BY <1>1, PhaseKept, MatchKept DEF IInv
<1>4. LevelRight' /\ BetweenCuts' /\ StackRight' /\ Searching' /\ LeftInCut'
  BY <1>1 DEF LevelRight, BetweenCuts, StackRight, Searching, LeftInCut
<1>5. QED
  BY <1>2, <1>3, <1>4 DEF IInv

(* A match is kept.                                                        *)
LEMMA MatchedKeeps == ASSUME IInv, Matched PROVE IInv'
<1>1. /\ pc = "return" /\ found /\ pc' = "end" /\ minCheckSize' = checkSize
      /\ res' = [pairs |-> [h \in rev[k] |-> mapping[h]], dups |-> dupOf]
      /\ UNCHANGED <<nl, sim, level, lists, phase>>
  BY DEF Matched, inputs
<1>2. ListsRight'
  <2>1. minCheckSize' \in Nat
    BY <1>1 DEF IInv, LevelRight
  <2>2. QED
    BY <1>1, <2>1, ListsKept DEF IInv, inputs
<1>3. PhaseRight'
  BY <1>1, PhaseKept DEF IInv
<1>4. MatchRight'
  <2>1. ReadsNoOne(nl) => Right([h \in rev[k] |-> mapping[h]], dupOf)
    BY <1>1 DEF IInv, MatchRight
  <2>2. res'.pairs = [h \in rev[k] |-> mapping[h]] /\ res'.dups = dupOf
    BY <1>1
  <2>3. QED
    BY <1>1, <2>1, <2>2 DEF MatchRight, Right
<1>5. LevelRight' /\ BetweenCuts' /\ StackRight' /\ Searching' /\ LeftInCut'
  BY <1>1 DEF LevelRight, BetweenCuts, StackRight, Searching, LeftInCut
<1>6. QED
  BY <1>2, <1>3, <1>4, <1>5 DEF IInv

(* After an old cut without a match everything is unselected.              *)
LEMMA NotMatchedKeeps == ASSUME IInv, NotMatched PROVE IInv'
<1>1. /\ pc = "return" /\ stack = <<>> /\ ~found /\ k' = k + 1 /\ pc' = "cut"
      /\ UNCHANGED <<nl, sim, level, minCheckSize, lists, checkSize, search, phase, res>>
  BY DEF NotMatched, inputs
<1>2. /\ UNCHANGED <<rev, gol, known>>
      /\ UNCHANGED <<cuts, left, mapping, found>>
  BY <1>1 DEF lists, search
<1>3. ListsRight'
  <2>1. minCheckSize' \in Nat
    BY <1>1 DEF IInv, ListsRight
  <2>2. QED
    BY <1>1, <2>1, ListsKept DEF IInv, inputs
<1>4. PhaseRight' /\ MatchRight'
  BY <1>1, PhaseKept, MatchKept DEF IInv
<1>5. LevelRight'
  <2>1. checkSize \in Nat /\ (checkSize # 0 => cuts = CutIndices(checkSize))
    BY <1>1 DEF IInv, LevelRight
  <2>2. CutIndices(checkSize)' = CutIndices(checkSize)
    BY <1>1, <1>2 DEF CutIndices
  <2>3. QED
    BY <1>1, <1>2, <2>1, <2>2 DEF LevelRight
<1>6. BetweenCuts'
  <2>1. Chosen = {}
    BY <1>1, NothingChosen DEF Chosen
  <2>2. k \in DOMAIN rev /\ rev \in Seq(SUBSET OldGates)
    BY <1>1 DEF IInv, StackRight, ListsRight
  <2>3. k' \in Nat \ {0}
    BY <1>1, <2>2
  <2>4. mapping = [g \in {} |-> mapping[g]] /\ LeftAre({})
    BY <1>1, <2>1 DEF IInv, Searching
  <2>5. mapping = <<>>
    BY <2>4
  <2>6. LeftAre({})'
    BY <1>1, <1>2, <2>4 DEF LeftAre
  <2>7. QED
    BY <1>2, <2>3, <2>5, <2>6 DEF BetweenCuts
<1>7. StackRight' /\ Searching' /\ LeftInCut'
  BY <1>1 DEF StackRight, Searching, LeftInCut
<1>8. QED
  BY <1>3, <1>4, <1>5, <1>6, <1>7 DEF IInv

(* A level lower the walk goes further, so what it reached it reaches.     *)
LEMMA EndLevelKeeps == ASSUME IInv, EndLevel PROVE IInv'
<1>1. /\ level' = level + 1 /\ pc' \in {"level", "done"}
      /\ UNCHANGED <<nl, sim, minCheckSize, dups, dupOf, rev, gol, known, phase, res>>
  BY DEF EndLevel, inputs, lists
<1>2. PhaseRight' /\ MatchRight'
  BY <1>1, PhaseKept, MatchKept DEF IInv
<1>3. LevelRight' /\ BetweenCuts' /\ StackRight' /\ Searching' /\ LeftInCut'
  BY <1>1 DEF LevelRight, BetweenCuts, StackRight, Searching, LeftInCut
<1>4. ListsRight'
  <2> DEFINE walk == GolWalk(nl, Low(2))
  <2>1. ListsRight /\ nl \in Netlists /\ level \in Nat \ {0}
    BY DEF IInv, ListsRight
  <2>2. Low(2) \in Int /\ Low(2)' = Low(2) - 1
    <3>1. DOMAIN nl.fanin = Gates /\ Ordered(nl.fanin) /\ nl.root[2] \in Gates
      BY <2>1, Netlist, GatesFinite DEF NetRight, Ordered, Gates
    <3>2. Level(nl.fanin)[nl.root[2]] \in Nat
      BY <3>1, LevelType
    <3> DEFINE lv == Level(nl.fanin)[nl.root[2]]
    <3>3. Low(2) = lv - level /\ Low(2)' = lv - level'
      BY <1>1 DEF Low
    <3> HIDE DEF lv
    <3>4. QED
      BY <1>1, <2>1, <3>2, <3>3 DEF lv
  <2>3. walk \subseteq walk'
    BY <1>1, <2>1, <2>2, GolWalkGrows
  <2>4. GoldenKnown \subseteq GoldenKnown'
    BY <1>1, <2>3 DEF GoldenKnown
  <2>5. gol' \in Seq(SUBSET walk')
    <3>1. gol \in Seq(SUBSET walk)
      BY <2>1 DEF ListsRight
    <3> DEFINE A == SUBSET walk
               B == SUBSET walk'
    <3>2. gol \in Seq(A) /\ A \subseteq B
      BY <2>3, <3>1
    <3> HIDE DEF A, B
    <3>3. gol \in Seq(B)
      BY <3>2
    <3>4. QED
      BY <1>1, <3>3 DEF B
  <2>6. \A h \in Range(dups) : dupOf[h] \in walk'
    BY <2>1, <2>3 DEF ListsRight
  <2>7. known' \intersect GolGates \subseteq GoldenKnown'
    BY <1>1, <2>1, <2>4 DEF ListsRight
  <2>8. level' \in Nat \ {0}
    BY <1>1, <2>1
  <2> HIDE DEF walk
  <2>9. QED
    BY <1>1, <2>1, <2>5, <2>6, <2>7, <2>8 DEF ListsRight, walk
<1>5. QED
  BY <1>2, <1>3, <1>4 DEF IInv

-----------------------------------------------------------------------------
(* The recursion.                                                          *)

(* A call keeps the lists, the phases and the list of pairs.               *)
LEMMA CallKeeps ==
  ASSUME IInv, pc \in {"pair", "return"}, pc' \in {"pair", "return"},
         UNCHANGED <<inputs, level, minCheckSize, lists, k, checkSize, cuts, phase, res>>
  PROVE  /\ ListsRight' /\ PhaseRight' /\ LevelRight' /\ BetweenCuts' /\ CandPairs' = CandPairs
<1>1. /\ UNCHANGED <<nl, sim, level, minCheckSize, k, checkSize, cuts, phase, res>>
      /\ UNCHANGED <<dups, rev, gol, known>>
  BY DEF inputs, lists
<1>2. ListsRight'
  <2>1. minCheckSize' \in Nat
    BY <1>1 DEF IInv, ListsRight
  <2>2. QED
    BY <2>1, ListsKept DEF IInv
<1>3. PhaseRight'
  BY <1>1, PhaseKept DEF IInv
<1>4. LevelRight'
  <2>1. checkSize \in Nat /\ (checkSize # 0 => cuts = CutIndices(checkSize))
    BY DEF IInv, LevelRight
  <2>2. CutIndices(checkSize)' = CutIndices(checkSize)
    BY <1>1 DEF CutIndices
  <2>3. QED
    BY <1>1, <2>1, <2>2 DEF LevelRight
<1>5. BetweenCuts'
  BY DEF BetweenCuts
<1>6. CandPairs' = CandPairs
  BY <1>1 DEF CandPairs
<1>7. QED
  BY <1>2, <1>3, <1>4, <1>5, <1>6

(* The pairs are of an old gate and a golden gate that is known.           *)
LEMMA CandidatesRight ==
  ASSUME ListsRight
  PROVE  /\ Len(CandPairs) \in Nat
         /\ \A j \in 1 .. Len(CandPairs) :
              /\ CandPairs[j][1] \in OldGates /\ CandPairs[j][2] \in GolGates
              /\ CandPairs[j][1] \in rev[k] \union Range(dups)
              /\ CandPairs[j][2] \in known /\ CandPairs[j][2] \in GoldenKnown
<1> DEFINE E == OldGates \X GolGates
           old == rev[k] \union Range(dups)
           A == {p \in E : IsCand(p, old, known)}
<1>1. sim \in Seq(E) /\ known \intersect GolGates \subseteq GoldenKnown
  BY CutMatchAssumption DEF ListsRight
<1>2. CandPairs = CandPairList(sim, old, known)
  BY DEF CandPairs
<1>3. \A p \in A : /\ p[1] \in OldGates /\ p[2] \in GolGates /\ p[1] \in old
                   /\ p[2] \in known /\ p[2] \in GoldenKnown
  BY <1>1 DEF IsCand
<1> HIDE DEF E, old
<1>4. CandPairs \in Seq(A)
  BY <1>1, <1>2, CandPairsRight
<1> HIDE DEF A
<1>5. Len(CandPairs) \in Nat /\ \A j \in 1 .. Len(CandPairs) : CandPairs[j] \in A
  BY <1>4
<1>6. QED
  BY <1>3, <1>5 DEF old

(* What a call adds to the gates of the calls before.                      *)
LEMMA OneMoreCall ==
  ASSUME NEW E, NEW calls \in Seq(E), NEW c, NEW list
  PROVE  /\ \A j \in 0 .. Len(calls) : UpTo(list, Append(calls, c), j) = UpTo(list, calls, j)
         /\ UpTo(list, Append(calls, c), Len(Append(calls, c))) =
              UpTo(list, calls, Len(calls)) \union {list[c.index][1], list[c.index][2]}
<1> DEFINE more == Append(calls, c)
           l == Len(calls)
<1>1. l \in Nat /\ Len(more) = l + 1 /\ more[l + 1] = c /\ \A i \in 1 .. l : more[i] = calls[i]
  OBVIOUS
<1> HIDE DEF more, l
<1>2. ASSUME NEW j \in 0 .. l PROVE UpTo(list, more, j) = UpTo(list, calls, j)
  <2>1. \A i \in 1 .. j : more[i] = calls[i]
    BY <1>1
  <2>2. QED
    BY <2>1 DEF UpTo
<1>3. UpTo(list, more, l + 1) = UpTo(list, calls, l) \union {list[c.index][1], list[c.index][2]}
  <2>1. \A i : i \in 1 .. (l + 1) <=> i \in 1 .. l \/ i = l + 1
    BY <1>1
  <2>2. UpTo(list, more, l + 1) = UpTo(list, more, l) \union {list[c.index][1], list[c.index][2]}
    BY <1>1, <2>1 DEF UpTo
  <2>3. l \in 0 .. l
    BY <1>1
  <2>4. QED
    BY <1>2, <2>2, <2>3
<1>4. QED
  BY <1>1, <1>2, <1>3 DEF more, l

(* The gates of the calls are gates.                                       *)
LEMMA ChosenAreGates ==
  ASSUME IInv, pc \in {"pair", "return"}
  PROVE  \A j \in 0 .. Len(stack) : UpTo(CandPairs, stack, j) \subseteq Gates
<1> DEFINE list == CandPairs
           n == Len(list)
           C == [index : 1 .. n, left : Nat, consts : Nat]
<1>1. stack \in Seq(C)
  BY DEF IInv, StackRight
<1>2. \A j \in 1 .. n : list[j][1] \in Gates /\ list[j][2] \in Gates
  BY CandidatesRight DEF IInv, Gates
<1>3. \A c \in C : c.index \in 1 .. n
  OBVIOUS
<1> HIDE DEF C, n, list
<1>4. Len(stack) \in Nat /\ \A i \in 1 .. Len(stack) : stack[i].index \in 1 .. n
  BY <1>1, <1>3
<1>5. ASSUME NEW j \in 0 .. Len(stack) PROVE UpTo(list, stack, j) \subseteq Gates
  <2>1. \A i \in 1 .. j : stack[i].index \in 1 .. n
    BY <1>4
  <2>2. QED
    BY <1>2, <2>1 DEF UpTo
<1>6. QED
  BY <1>5 DEF list

(* One of two gates is in a set of which none was taken.                   *)
LEMMA OneLess ==
  ASSUME NEW S \in SUBSET Gates, NEW X, NEW a, NEW b, a \notin S, b \notin X
  PROVE  /\ Cardinality(S \ X) \in Nat /\ Cardinality(S \ (X \union {a, b})) \in Nat
         /\ Cardinality(S \ (X \union {a, b})) =
              IF b \in S THEN Cardinality(S \ X) - 1 ELSE Cardinality(S \ X)
<1>1. S \ X \in SUBSET Gates /\ S \ (X \union {a, b}) \in SUBSET Gates
  OBVIOUS
<1>2. IsFiniteSet(S \ X) /\ Cardinality(S \ X) \in Nat
      /\ Cardinality(S \ (X \union {a, b})) \in Nat
  BY <1>1, GateSets
<1>3. CASE b \in S
  <2> DEFINE T == S \ X
  <2>1. b \in T /\ S \ (X \union {a, b}) = T \ {b} /\ IsFiniteSet(T)
    BY <1>2, <1>3
  <2> HIDE DEF T
  <2>2. Cardinality(T \ {b}) = Cardinality(T) - 1
    BY <2>1, FS_RemoveElement
  <2>3. QED
    BY <1>2, <1>3, <2>1, <2>2 DEF T
<1>4. CASE b \notin S
  <2>1. S \ (X \union {a, b}) = S \ X
    BY <1>4
  <2>2. QED
    BY <1>2, <1>4, <2>1
<1>5. QED
  BY <1>3, <1>4

(* A call returns when it has no pair left.                                *)
LEMMA NoPairLeftKeeps == ASSUME IInv, NoPairLeft PROVE IInv'
<1>1. /\ pc = "pair" /\ pc' = "return" /\ found' = FALSE
      /\ UNCHANGED <<inputs, level, minCheckSize, lists, k, checkSize, cuts, phase, res>>
      /\ UNCHANGED <<nl, rev, gol, k, checkSize, left, mapping, at, stack, res>>
  BY DEF NoPairLeft, inputs, lists
<1>2. ListsRight' /\ PhaseRight' /\ LevelRight' /\ BetweenCuts' /\ CandPairs' = CandPairs
  BY <1>1, CallKeeps
<1>3. StackRight'
  BY <1>1, <1>2 DEF IInv, StackRight
<1>4. Searching'
  <2>1. Chosen' = Chosen
    BY <1>1, <1>2 DEF Chosen
  <2>2. /\ mapping = [g \in Chosen |-> mapping[g]]
        /\ \A g \in Chosen \intersect OldGates : mapping[g] \in GoldenKnown
        /\ LeftAre(Chosen)
    BY <1>1 DEF IInv, Searching
  <2>3. LeftAre(Chosen)'
    BY <1>1, <2>1, <2>2 DEF LeftAre
  <2>4. GoldenKnown' = GoldenKnown
    BY <1>1 DEF GoldenKnown, Low
  <2>5. QED
    BY <1>1, <2>1, <2>2, <2>3, <2>4 DEF Searching
<1>5. LeftInCut'
  BY <1>1 DEF LeftInCut
<1>6. MatchRight'
  BY <1>1, MatchKept DEF IInv
<1>7. QED
  BY <1>2, <1>3, <1>4, <1>5, <1>6 DEF IInv

(* A call passes over a pair.                                              *)
LEMMA SkipPairKeeps == ASSUME IInv, SkipPair PROVE IInv'
<1>1. /\ pc = "pair" /\ pc' = "pair" /\ at' = [at EXCEPT !.index = @ + 1]
      /\ UNCHANGED <<inputs, level, minCheckSize, lists, k, checkSize, cuts, phase, res>>
      /\ UNCHANGED <<nl, level, rev, gol, k, checkSize, left, mapping, stack, res>>
  BY DEF SkipPair, inputs, lists
<1>2. ListsRight' /\ PhaseRight' /\ LevelRight' /\ BetweenCuts' /\ CandPairs' = CandPairs
  BY <1>1, CallKeeps
<1>3. at \in [index : Nat \ {0}, left : Nat, consts : Nat]
  BY <1>1 DEF IInv, StackRight
<1>4. at' \in [index : Nat \ {0}, left : Nat, consts : Nat] /\ at'.left = at.left
  BY <1>1, <1>3
<1>5. StackRight'
  BY <1>1, <1>2, <1>4 DEF IInv, StackRight
<1>6. Chosen' = Chosen
  BY <1>1, <1>2 DEF Chosen
<1>7. Searching'
  <2>1. /\ mapping = [g \in Chosen |-> mapping[g]]
        /\ \A g \in Chosen \intersect OldGates : mapping[g] \in GoldenKnown
        /\ LeftAre(Chosen)
    BY <1>1 DEF IInv, Searching
  <2>2. LeftAre(Chosen)'
    BY <1>1, <1>6, <2>1 DEF LeftAre
  <2>3. GoldenKnown' = GoldenKnown
    BY <1>1 DEF GoldenKnown, Low
  <2>4. QED
    BY <1>1, <1>6, <2>1, <2>2, <2>3 DEF Searching
<1>8. LeftInCut'
  BY <1>1, <1>4, <1>6 DEF IInv, LeftInCut
<1>9. MatchRight'
  BY <1>1, MatchKept DEF IInv
<1>10. QED
  BY <1>2, <1>5, <1>7, <1>8, <1>9 DEF IInv

(* In the cuts that the indices of a gate name, it is one of the gates.    *)
LEMMA IndicesRight ==
  ASSUME IInv, pc \in {"pair", "return"}, NEW g \in known, NEW i \in DOMAIN gol
  PROVE  i \in cuts[g] <=> g \in gol[i] /\ Cardinality(gol[i]) <= checkSize
<1>1. cuts = CutIndices(checkSize)
  <2>1. /\ k \in DOMAIN rev /\ Cardinality(rev[k]) <= checkSize /\ checkSize \in Nat
        /\ checkSize # 0 => cuts = CutIndices(checkSize)
    BY DEF IInv, StackRight, LevelRight
  <2>2. rev[k] \in SUBSET Gates /\ rev[k] # {}
    BY <2>1, CutsAreGates DEF IInv
  <2>3. Cardinality(rev[k]) \in Nat /\ Cardinality(rev[k]) # 0
    BY <2>2, GateSets
  <2>4. QED
    BY <2>1, <2>3
<1>2. QED
  BY <1>1 DEF CutIndices

(* A call selects a pair: its gates were free, so each count and the       *)
(* number of gates left go down by one where a gate was in the set.        *)
LEMMA SelectPairKeeps == ASSUME IInv, SelectPair PROVE IInv'
<1> DEFINE p == CandPairs[at.index]
           a == p[1]
           b == p[2]
           list == CandPairs
           C == [index : 1 .. Len(list), left : Nat, consts : Nat]
<1>1. /\ pc = "pair" /\ pc' = "pair" /\ at.left # 1 /\ at.index <= Len(list)
      /\ ~Mapped(a) /\ ~Mapped(b)
      /\ mapping' = Joined([g \in {a, b} |-> IF g = a THEN b ELSE a], mapping)
      /\ left' = [i \in DOMAIN left |-> IF i \in cuts[b] THEN left[i] - 1 ELSE left[i]]
      /\ stack' = Append(stack, at)
      /\ at' = [index |-> at.index + 1, left |-> at.left - 1,
                consts |-> IF b \in nl.consts THEN at.consts + 1 ELSE at.consts]
      /\ UNCHANGED <<inputs, level, minCheckSize, lists, k, checkSize, cuts, phase, res>>
      /\ UNCHANGED <<nl, level, rev, gol, k, checkSize, res>>
  BY DEF SelectPair, inputs, lists
<1>2. ListsRight' /\ PhaseRight' /\ LevelRight' /\ BetweenCuts' /\ list' = list
  BY <1>1, CallKeeps
<1>3. /\ stack \in Seq(C) /\ at \in [index : Nat \ {0}, left : Nat, consts : Nat]
      /\ k \in DOMAIN rev
      /\ \A j \in DOMAIN stack :
           /\ stack[j].left = Cardinality(rev[k] \ UpTo(list, stack, j - 1))
           /\ list[stack[j].index][1] \notin UpTo(list, stack, j - 1)
           /\ list[stack[j].index][2] \notin UpTo(list, stack, j - 1)
      /\ Cardinality(rev[k]) <= checkSize
  BY <1>1 DEF IInv, StackRight
<1>4. /\ mapping = [g \in Chosen |-> mapping[g]]
      /\ \A g \in Chosen \intersect OldGates : mapping[g] \in GoldenKnown
      /\ LeftAre(Chosen)
      /\ at.left = Cardinality(rev[k] \ Chosen)
  BY <1>1 DEF IInv, Searching, LeftInCut
<1>5. /\ at.index \in 1 .. Len(list)
      /\ a \in OldGates /\ b \in GolGates /\ b \in known /\ b \in GoldenKnown
      /\ a \in rev[k] \union Range(dups)
  <2>1. at.index \in 1 .. Len(list)
    BY <1>1, <1>3, CandidatesRight DEF IInv
  <2>2. QED
    BY <2>1, CandidatesRight DEF IInv
<1>6. a \notin Chosen /\ b \notin Chosen /\ a \in rev[k]
  BY <1>1, <1>4, <1>5 DEF Mapped
<1> HIDE DEF p, a, b, C
<1>7. rev[k] \in SUBSET Gates /\ rev[k] \subseteq OldGates /\ OldGates \intersect GolGates = {}
  BY <1>3, CutsAreGates DEF IInv
<1>8. /\ Cardinality(rev[k] \ (Chosen \union {b, a})) = at.left - 1
      /\ at.left - 1 \in Nat
  <2> DEFINE S == rev[k]
             X == Chosen
  <2>1. b \notin S /\ S \in SUBSET Gates /\ a \notin X /\ a \in S /\ at.left = Cardinality(S \ X)
    BY <1>4, <1>5, <1>6, <1>7
  <2> HIDE DEF S, X
  <2>2. /\ Cardinality(S \ X) \in Nat /\ Cardinality(S \ (X \union {b, a})) \in Nat
        /\ Cardinality(S \ (X \union {b, a})) = Cardinality(S \ X) - 1
    BY <2>1, OneLess
  <2>3. QED
    BY <2>1, <2>2 DEF S, X
<1>9. /\ \A j \in 0 .. Len(stack) : UpTo(list, stack', j) = UpTo(list, stack, j)
      /\ Chosen' = Chosen \union {a, b}
  <2> DEFINE c == at
  <2>1. stack' = Append(stack, c) /\ list[c.index][1] = a /\ list[c.index][2] = b
    BY <1>1 DEF a, b, p
  <2>2. Chosen' = UpTo(list, stack', Len(stack')) /\ Chosen = UpTo(list, stack, Len(stack))
    BY <1>2 DEF Chosen
  <2> DEFINE l == list
             calls == stack
  <2>3. calls \in Seq(C)
    BY <1>3
  <2> HIDE DEF c, l, calls
  <2>4. /\ \A j \in 0 .. Len(calls) : UpTo(l, Append(calls, c), j) = UpTo(l, calls, j)
        /\ UpTo(l, Append(calls, c), Len(Append(calls, c))) =
             UpTo(l, calls, Len(calls)) \union {l[c.index][1], l[c.index][2]}
    BY <2>3, OneMoreCall
  <2>5. QED
    BY <2>1, <2>2, <2>4 DEF l, calls
<1>10. StackRight'
  <2>1. at \in C
    BY <1>3, <1>5 DEF C
  <2>2. stack' \in Seq(C) /\ Len(stack') = Len(stack) + 1 /\ Len(stack) \in Nat
        /\ stack'[Len(stack) + 1] = at /\ \A j \in 1 .. Len(stack) : stack'[j] = stack[j]
    BY <1>1, <1>3, <2>1
  <2>3. at' \in [index : Nat \ {0}, left : Nat, consts : Nat]
    BY <1>1, <1>3, <1>8
  <2>4. ASSUME NEW j \in DOMAIN stack'
        PROVE  /\ stack'[j].left = Cardinality(rev[k] \ UpTo(list, stack', j - 1))
               /\ list[stack'[j].index][1] \notin UpTo(list, stack', j - 1)
               /\ list[stack'[j].index][2] \notin UpTo(list, stack', j - 1)
    <3>1. j \in 1 .. Len(stack) \/ j = Len(stack) + 1
      BY <2>2
    <3>2. j - 1 \in 0 .. Len(stack)
      BY <2>2, <3>1
    <3>3. UpTo(list, stack', j - 1) = UpTo(list, stack, j - 1)
      BY <1>9, <3>2
    <3>4. CASE j \in 1 .. Len(stack)
      <4>1. j \in DOMAIN stack /\ stack'[j] = stack[j]
        BY <1>3, <2>2, <3>4
      <4>2. QED
        BY <1>3, <3>3, <4>1
    <3>5. CASE j = Len(stack) + 1
      <4>1. UpTo(list, stack, j - 1) = Chosen /\ stack'[j] = at
        BY <2>2, <3>5 DEF Chosen
      <4>2. list[at.index][1] = a /\ list[at.index][2] = b
        BY DEF a, b, p
      <4>3. QED
        BY <1>4, <1>6, <3>3, <4>1, <4>2
    <3>6. QED
      BY <3>1, <3>4, <3>5
  <2>5. QED
    BY <1>1, <1>2, <1>3, <2>2, <2>3, <2>4 DEF StackRight, C
<1>11. Searching'
  <2> DEFINE new == [g \in {a, b} |-> IF g = a THEN b ELSE a]
  <2>1. DOMAIN mapping = Chosen
    BY <1>4
  <2>2. mapping' = [x \in Chosen' |-> IF x \in {a, b} THEN new[x] ELSE mapping[x]]
    <3>1. mapping' = [x \in DOMAIN new \union DOMAIN mapping |->
                        IF x \in DOMAIN new THEN new[x] ELSE mapping[x]]
      BY <1>1 DEF Joined
    <3>2. DOMAIN new = {a, b} /\ DOMAIN new \union DOMAIN mapping = Chosen'
      BY <1>9, <2>1
    <3> HIDE DEF new
    <3>3. QED
      BY <3>1, <3>2
  <2>3. mapping' = [g \in Chosen' |-> mapping'[g]]
    BY <2>2
  <2>4. ASSUME NEW g \in Chosen', g \in OldGates PROVE mapping'[g] \in GoldenKnown
    <3>1. CASE g = a
      BY <1>5, <2>2, <3>1
    <3>2. CASE g # a
      <4>1. g # b /\ g \in Chosen
        BY <1>5, <1>7, <1>9, <2>4, <3>2
      <4>2. mapping'[g] = mapping[g]
        BY <2>2, <3>2, <4>1
      <4>3. QED
        BY <1>4, <2>4, <4>1, <4>2
    <3>3. QED
      BY <3>1, <3>2
  <2>5. GoldenKnown' = GoldenKnown
    BY <1>1 DEF GoldenKnown, Low
  <2>6. LeftAre(Chosen)'
    <3>1. DOMAIN left = DOMAIN gol /\ DOMAIN left' = DOMAIN gol
      BY <1>1, <1>4 DEF LeftAre
    <3>2. ASSUME NEW i \in DOMAIN gol
          PROVE  left'[i] = IF Cardinality(gol[i]) <= checkSize
                            THEN Cardinality(gol[i] \ Chosen') ELSE Cardinality(gol[i])
      <4>1. left[i] = IF Cardinality(gol[i]) <= checkSize
                      THEN Cardinality(gol[i] \ Chosen) ELSE Cardinality(gol[i])
        BY <1>4 DEF LeftAre
      <4>2. i \in cuts[b] <=> b \in gol[i] /\ Cardinality(gol[i]) <= checkSize
        BY <1>1, <1>5, IndicesRight
      <4>3. gol[i] \in SUBSET Gates /\ a \notin gol[i]
        BY <1>5, <1>7, CutsAreGates DEF IInv
      <4>4. Cardinality(gol[i] \ Chosen') = IF b \in gol[i] THEN Cardinality(gol[i] \ Chosen) - 1
                                            ELSE Cardinality(gol[i] \ Chosen)
        BY <1>6, <1>9, <4>3, OneLess
      <4>5. left'[i] = IF i \in cuts[b] THEN left[i] - 1 ELSE left[i]
        BY <1>1, <3>1
      <4>6. QED
        BY <4>1, <4>2, <4>4, <4>5
    <3>3. left' = [i \in DOMAIN gol |-> left'[i]]
      BY <1>1, <3>1
    <3>4. QED
      BY <1>1, <3>2, <3>3 DEF LeftAre
  <2>7. QED
    BY <2>3, <2>4, <2>5, <2>6 DEF Searching
<1>12. LeftInCut'
  <2>1. at'.left = at.left - 1
    BY <1>1
  <2>2. Chosen' = Chosen \union {b, a}
    BY <1>9
  <2>3. QED
    BY <1>1, <1>8, <2>1, <2>2 DEF LeftInCut
<1>13. MatchRight'
  BY <1>1, MatchKept DEF IInv
<1>14. QED
  BY <1>2, <1>10, <1>11, <1>12, <1>13 DEF IInv

(* The calls before the last one.                                          *)
LEMMA OneCallFewer ==
  ASSUME NEW E, NEW calls \in Seq(E), calls # <<>>, NEW list
  PROVE  /\ Front(calls) \in Seq(E) /\ Len(Front(calls)) = Len(calls) - 1
         /\ Len(calls) - 1 \in Nat
         /\ \A i \in 1 .. (Len(calls) - 1) : Front(calls)[i] = calls[i]
         /\ \A j \in 0 .. (Len(calls) - 1) : UpTo(list, Front(calls), j) = UpTo(list, calls, j)
         /\ UpTo(list, calls, Len(calls)) =
              UpTo(list, calls, Len(calls) - 1)
                \union {list[Last(calls).index][1], list[Last(calls).index][2]}
<1> DEFINE l == Len(calls)
           less == Front(calls)
<1>1. l \in Nat /\ l - 1 \in Nat /\ \A i \in 1 .. (l - 1) : i \in 1 .. l
  OBVIOUS
<1>2. less \in Seq(E) /\ Len(less) = l - 1 /\ \A i \in 1 .. (l - 1) : less[i] = calls[i]
  <2>1. less = SubSeq(calls, 1, l - 1)
    BY DEF Front
  <2>2. \A i \in 1 .. l : calls[i] \in E
    OBVIOUS
  <2> HIDE DEF l, less
  <2>3. Len(less) = l - 1 /\ \A i \in 1 .. (l - 1) : less[i] = calls[i]
    BY <1>1, <2>1
  <2>4. less \in Seq(E)
    BY <1>1, <2>1, <2>2
  <2>5. QED
    BY <2>3, <2>4
<1>3. Last(calls) = calls[l]
  BY DEF Last
<1> HIDE DEF l, less
<1>4. ASSUME NEW j \in 0 .. (l - 1) PROVE UpTo(list, less, j) = UpTo(list, calls, j)
  <2>1. \A i \in 1 .. j : less[i] = calls[i]
    BY <1>1, <1>2
  <2>2. QED
    BY <2>1 DEF UpTo
<1>5. UpTo(list, calls, l) =
        UpTo(list, calls, l - 1) \union {list[calls[l].index][1], list[calls[l].index][2]}
  <2>1. \A i : i \in 1 .. l <=> i \in 1 .. (l - 1) \/ i = l
    BY <1>1
  <2>2. QED
    BY <2>1 DEF UpTo
<1>6. QED
  BY <1>1, <1>2, <1>3, <1>4, <1>5 DEF l, less

(* The pair of the call that returned is unselected: the counts go back to *)
(* those of the calls before it.                                           *)
LEMMA UnselectKeeps == ASSUME IInv, Unselect PROVE IInv'
<1> DEFINE call == Last(stack)
           list == CandPairs
           p == list[call.index]
           a == p[1]
           b == p[2]
           C == [index : 1 .. Len(list), left : Nat, consts : Nat]
           l == Len(stack)
           X == UpTo(list, stack, l - 1)
<1>1. /\ pc = "return" /\ stack # <<>>
      /\ left' = [i \in DOMAIN left |-> IF i \in cuts[b] THEN left[i] + 1 ELSE left[i]]
      /\ mapping' = IF found THEN mapping ELSE [g \in DOMAIN mapping \ {a, b} |-> mapping[g]]
      /\ at' = [call EXCEPT !.index = @ + 1]
      /\ pc' = IF found THEN "return" ELSE "pair"
      /\ stack' = Front(stack)
      /\ UNCHANGED <<inputs, level, minCheckSize, lists, k, checkSize, cuts, phase, res>>
      /\ UNCHANGED <<nl, level, rev, gol, k, checkSize, found, dupOf, res>>
  BY DEF Unselect, inputs, lists
<1>2. ListsRight' /\ PhaseRight' /\ LevelRight' /\ BetweenCuts' /\ list' = list
  BY <1>1, CallKeeps
<1>3. /\ stack \in Seq(C) /\ k \in DOMAIN rev
      /\ \A j \in DOMAIN stack :
           /\ stack[j].left = Cardinality(rev[k] \ UpTo(list, stack, j - 1))
           /\ list[stack[j].index][1] \notin UpTo(list, stack, j - 1)
           /\ list[stack[j].index][2] \notin UpTo(list, stack, j - 1)
      /\ Cardinality(rev[k]) <= checkSize
  BY <1>1 DEF IInv, StackRight
<1>4. /\ stack' \in Seq(C) /\ Len(stack') = l - 1 /\ l - 1 \in Nat
      /\ \A i \in 1 .. (l - 1) : stack'[i] = stack[i]
      /\ \A j \in 0 .. (l - 1) : UpTo(list, stack', j) = UpTo(list, stack, j)
      /\ Chosen = X \union {a, b}
  <2> DEFINE t == list
             calls == stack
  <2>1. calls \in Seq(C) /\ calls # <<>>
    BY <1>1, <1>3
  <2> HIDE DEF C, t, calls
  <2>2. /\ Front(calls) \in Seq(C) /\ Len(Front(calls)) = Len(calls) - 1
        /\ Len(calls) - 1 \in Nat
        /\ \A i \in 1 .. (Len(calls) - 1) : Front(calls)[i] = calls[i]
        /\ \A j \in 0 .. (Len(calls) - 1) : UpTo(t, Front(calls), j) = UpTo(t, calls, j)
        /\ UpTo(t, calls, Len(calls)) =
             UpTo(t, calls, Len(calls) - 1) \union {t[Last(calls).index][1], t[Last(calls).index][2]}
    BY <2>1, OneCallFewer
  <2>3. QED
    BY <1>1, <2>2 DEF t, calls, Chosen
<1>5. l \in DOMAIN stack /\ call = stack[l] /\ l - 1 \in 0 .. (l - 1) /\ call \in C
  <2>1. call = stack[l]
    BY DEF Last
  <2> HIDE DEF C, call
  <2>2. l \in DOMAIN stack /\ stack[l] \in C
    BY <1>3, <1>4
  <2> HIDE DEF l
  <2>3. l - 1 \in 0 .. (l - 1)
    BY <1>4
  <2>4. QED
    BY <2>1, <2>2, <2>3
<1>6. /\ call.left = Cardinality(rev[k] \ X) /\ a \notin X /\ b \notin X
      /\ call.index \in 1 .. Len(list)
  BY <1>3, <1>5
<1>7. a \in OldGates /\ b \in GolGates /\ b \in known
  BY <1>6, CandidatesRight DEF IInv
<1>8. OldGates \intersect GolGates = {}
  BY CutMatchAssumption
<1>9. Chosen' = X
  <2>1. Chosen' = UpTo(list, stack', Len(stack'))
    BY <1>2 DEF Chosen
  <2>2. QED
    BY <1>4, <1>5, <2>1
<1>10. at' \in [index : Nat \ {0}, left : Nat, consts : Nat] /\ at'.left = call.left
  <2>1. Len(list) \in Nat
    BY CandidatesRight DEF IInv
  <2> HIDE DEF call, list
  <2>2. QED
    BY <1>1, <1>5, <2>1
<1> HIDE DEF call, p, a, b, l, X, list
<1>11. StackRight'
  <2>1. ASSUME NEW j \in DOMAIN stack'
        PROVE  /\ stack'[j].left = Cardinality(rev[k] \ UpTo(list, stack', j - 1))
               /\ list[stack'[j].index][1] \notin UpTo(list, stack', j - 1)
               /\ list[stack'[j].index][2] \notin UpTo(list, stack', j - 1)
    <3>1. j \in 1 .. (l - 1) /\ j - 1 \in 0 .. (l - 1) /\ j \in DOMAIN stack
      <4>1. stack \in Seq(C) /\ stack' \in Seq(C) /\ Len(stack') = l - 1 /\ Len(stack) = l
        BY <1>3, <1>4 DEF l
      <4> HIDE DEF C
      <4>2. DOMAIN stack' = 1 .. (l - 1) /\ DOMAIN stack = 1 .. l
        BY <4>1
      <4>3. l - 1 \in Nat /\ l \in Nat
        BY <4>1
      <4>4. QED
        BY <4>2, <4>3
    <3>2. stack'[j] = stack[j] /\ UpTo(list, stack', j - 1) = UpTo(list, stack, j - 1)
      BY <1>4, <3>1
    <3>3. QED
      BY <1>3, <3>1, <3>2
  <2>2. QED
    BY <1>1, <1>2, <1>3, <1>4, <1>10, <2>1 DEF StackRight, list
<1>12. Searching'
  <2>1. SUFFICES ASSUME ~found PROVE Searching'
    BY <1>1 DEF Searching
  <2>2. /\ mapping = [g \in Chosen |-> mapping[g]]
        /\ \A g \in Chosen \intersect OldGates : mapping[g] \in GoldenKnown
        /\ LeftAre(Chosen)
    BY <1>1, <2>1 DEF IInv, Searching
  <2>3. mapping' = [g \in X |-> mapping[g]]
    <3>1. DOMAIN mapping \ {a, b} = X
      BY <1>4, <1>6, <2>2
    <3>2. QED
      BY <1>1, <2>1, <3>1
  <2>4. mapping' = [g \in Chosen' |-> mapping'[g]]
    BY <1>9, <2>3
  <2>5. GoldenKnown' = GoldenKnown
    BY <1>1 DEF GoldenKnown, Low
  <2>6. \A g \in Chosen' \intersect OldGates : mapping'[g] \in GoldenKnown
    BY <1>4, <1>9, <2>2, <2>3
  <2>7. LeftAre(Chosen)'
    <3>1. DOMAIN left = DOMAIN gol /\ DOMAIN left' = DOMAIN gol
      BY <1>1, <2>2 DEF LeftAre
    <3>2. ASSUME NEW i \in DOMAIN gol
          PROVE  left'[i] = IF Cardinality(gol[i]) <= checkSize
                            THEN Cardinality(gol[i] \ X) ELSE Cardinality(gol[i])
      <4>1. left[i] = IF Cardinality(gol[i]) <= checkSize
                      THEN Cardinality(gol[i] \ Chosen) ELSE Cardinality(gol[i])
        BY <2>2 DEF LeftAre
      <4>2. i \in cuts[b] <=> b \in gol[i] /\ Cardinality(gol[i]) <= checkSize
        BY <1>1, <1>7, IndicesRight
      <4>3. gol[i] \in SUBSET Gates /\ a \notin gol[i]
        BY <1>7, <1>8, CutsAreGates DEF IInv
      <4>4. /\ Cardinality(gol[i] \ X) \in Nat
            /\ Cardinality(gol[i] \ Chosen) = IF b \in gol[i] THEN Cardinality(gol[i] \ X) - 1
                                              ELSE Cardinality(gol[i] \ X)
        <5> DEFINE S == gol[i]
        <5>1. S \in SUBSET Gates /\ a \notin S /\ b \notin X
          BY <1>6, <4>3
        <5> HIDE DEF S
        <5>2. /\ Cardinality(S \ X) \in Nat /\ Cardinality(S \ (X \union {a, b})) \in Nat
              /\ Cardinality(S \ (X \union {a, b})) =
                   IF b \in S THEN Cardinality(S \ X) - 1 ELSE Cardinality(S \ X)
          BY <5>1, OneLess
        <5>3. QED
          BY <1>4, <5>2 DEF S
      <4>5. left'[i] = IF i \in cuts[b] THEN left[i] + 1 ELSE left[i]
        BY <1>1, <3>1
      <4>6. QED
        BY <4>1, <4>2, <4>4, <4>5
    <3>3. left' = [i \in DOMAIN gol |-> left'[i]]
      BY <1>1, <3>1
    <3>4. QED
      BY <1>1, <1>9, <3>2, <3>3 DEF LeftAre
  <2>8. QED
    BY <2>4, <2>5, <2>6, <2>7 DEF Searching
<1>13. LeftInCut'
  BY <1>1, <1>6, <1>9, <1>10 DEF LeftInCut
<1>14. MatchRight'
  <2>1. CASE found
    <3>1. mapping' = mapping
      BY <1>1, <2>1
    <3>2. QED
      BY <1>1, <2>1, <3>1 DEF IInv, MatchRight, Right
  <2>2. CASE ~found
    BY <1>1, <2>2, MatchKept DEF IInv
  <2>3. QED
    BY <2>1, <2>2
<1>15. QED
  BY <1>2, <1>11, <1>12, <1>13, <1>14 DEF IInv

(* The candidates for the last gate are ones that the walk reaches, or     *)
(* constants.                                                              *)
LEMMA CandidatesGolden ==
  ASSUME IInv, pc = "pair"
  PROVE  Candidates \subseteq GoldenKnown
<1> DEFINE walk == GolWalk(nl, Low(2))
<1>1. /\ mapping = [g \in Chosen |-> mapping[g]] /\ LeftAre(Chosen)
      /\ k \in DOMAIN rev /\ Cardinality(rev[k]) <= checkSize
      /\ at \in [index : Nat \ {0}, left : Nat, consts : Nat] /\ checkSize \in Nat
  BY DEF IInv, Searching, StackRight, LevelRight
<1>2. DOMAIN mapping = Chosen /\ at.consts \in Nat
  BY <1>1
<1>3. ASSUME NEW i \in Allowed, Cardinality(gol[i]) = Cardinality(rev[k]) - at.consts, left[i] = 1
      PROVE  (CHOOSE g \in gol[i] : ~Mapped(g)) \in walk
  <2>1. i \in DOMAIN gol
    BY DEF Allowed
  <2>2. /\ gol[i] \in SUBSET Gates /\ gol[i] \subseteq walk /\ gol[i] \intersect Range(dups) = {}
        /\ rev[k] \in SUBSET Gates
    BY <1>1, <2>1, CutsAreGates DEF IInv
  <2>3. Cardinality(gol[i]) \in Nat /\ Cardinality(rev[k]) \in Nat
    BY <2>2, GateSets
  <2>4. Cardinality(gol[i]) <= checkSize
    BY <1>1, <1>2, <1>3, <2>3
  <2>5. Cardinality(gol[i] \ Chosen) = 1
    BY <1>1, <1>3, <2>1, <2>4 DEF LeftAre
  <2>6. gol[i] \ Chosen # {}
    <3>1. gol[i] \ Chosen \in SUBSET Gates
      BY <2>2
    <3>2. QED
      BY <2>5, <3>1, GateSets
  <2>7. \E g \in gol[i] : ~Mapped(g)
    BY <1>2, <2>2, <2>6 DEF Mapped
  <2>8. (CHOOSE g \in gol[i] : ~Mapped(g)) \in gol[i]
    BY <2>7
  <2>9. QED
    BY <2>2, <2>8
<1> HIDE DEF walk
<1>4. QED
  BY <1>3 DEF Candidates, GoldenKnown, walk

(* The last gate: all others of the old cut have golden partners that the  *)
(* walk reaches, so the answer of the solver is sound.                     *)
LEMMA TryLastGateKeeps == ASSUME IInv, TryLastGate PROVE IInv'
<1> DEFINE h == CHOOSE h \in rev[k] : ~Mapped(h)
           cut == rev[k] \union Range(dups)
           pairs(g) == [r \in cut |-> IF r = h THEN g ELSE IF r \in Range(dups) THEN dupOf[r]
                                      ELSE mapping[r]]
           proved == {g \in Candidates : Unsat(nl, pairs(g), Low(2), phase)}
<1>1. /\ pc = "pair" /\ pc' = "return" /\ at.left = 1
      /\ IF proved = {} THEN found' = FALSE /\ UNCHANGED mapping
         ELSE found' = TRUE /\ \E g \in proved : mapping' = Joined([x \in {h} |-> g], mapping)
      /\ UNCHANGED <<inputs, level, minCheckSize, lists, k, checkSize, cuts, phase, res>>
      /\ UNCHANGED <<nl, level, rev, gol, k, checkSize, left, at, stack, dupOf, res>>
  BY DEF TryLastGate, inputs, lists
<1> HIDE DEF proved
<1>2. ListsRight' /\ PhaseRight' /\ LevelRight' /\ BetweenCuts' /\ CandPairs' = CandPairs
  BY <1>1, CallKeeps
<1>3. StackRight'
  BY <1>1, <1>2 DEF IInv, StackRight
<1>4. LeftInCut'
  BY <1>1 DEF LeftInCut
<1>5. CASE proved = {}
  <2>1. found' = FALSE /\ mapping' = mapping
    BY <1>1, <1>5
  <2>2. Searching'
    <3>1. Chosen' = Chosen /\ GoldenKnown' = GoldenKnown
      BY <1>1, <1>2 DEF Chosen, GoldenKnown, Low
    <3>2. /\ mapping = [g \in Chosen |-> mapping[g]]
          /\ \A g \in Chosen \intersect OldGates : mapping[g] \in GoldenKnown
          /\ LeftAre(Chosen)
      BY <1>1 DEF IInv, Searching
    <3>3. LeftAre(Chosen)'
      BY <1>1, <3>1, <3>2 DEF LeftAre
    <3>4. QED
      BY <2>1, <3>1, <3>2, <3>3 DEF Searching
  <2>3. MatchRight'
    BY <1>1, <2>1, MatchKept DEF IInv
  <2>4. QED
    BY <1>2, <1>3, <1>4, <2>2, <2>3 DEF IInv
<1>6. CASE proved # {}
  <2>1. found'
    BY <1>1, <1>6
  <2>2. PICK g \in proved : mapping' = Joined([x \in {h} |-> g], mapping)
    BY <1>1, <1>6
  <2>3. g \in GoldenKnown /\ Unsat(nl, pairs(g), Low(2), phase)
    BY <1>1, CandidatesGolden DEF proved
  <2>4. /\ mapping = [x \in Chosen |-> mapping[x]]
        /\ \A x \in Chosen \intersect OldGates : mapping[x] \in GoldenKnown
        /\ Cardinality(rev[k] \ Chosen) = 1 /\ k \in DOMAIN rev
    BY <1>1 DEF IInv, Searching, LeftInCut, StackRight
  <2>5. /\ rev[k] \in SUBSET Gates /\ rev[k] \subseteq OldGates
        /\ rev[k] \intersect Range(dups) = {}
    BY <2>4, CutsAreGates DEF IInv
  <2>6. h \in rev[k] /\ \A x \in rev[k] : x = h \/ x \in Chosen
    <3> DEFINE rest == rev[k] \ Chosen
    <3>1. \A x \in rev[k] : Mapped(x) <=> x \in Chosen
      BY <2>4, <2>5 DEF Mapped
    <3>2. IsFiniteSet(rest)
      <4>1. rest \in SUBSET Gates
        BY <2>5
      <4>2. QED
        BY <4>1, GateSets
    <3>3. PICK y : rest = {y}
      <4> HIDE DEF rest
      <4>1. Cardinality(rest) = 1
        BY <2>4 DEF rest
      <4>2. QED
        BY <3>2, <4>1, FS_Singleton
    <3>4. \E x \in rev[k] : ~Mapped(x)
      BY <3>1, <3>3
    <3>5. h \in rev[k] /\ ~Mapped(h)
      BY <3>4
    <3> HIDE DEF h
    <3>6. QED
      BY <3>1, <3>3, <3>5
  <2> HIDE DEF h
  <2>7. mapping' = [x \in {h} \union Chosen |-> IF x = h THEN g ELSE mapping[x]]
    <3>1. DOMAIN mapping = Chosen
      BY <2>4
    <3>2. QED
      BY <2>2, <3>1 DEF Joined
  <2>8. Joined([x \in rev[k] |-> mapping'[x]], dupOf) = pairs(g)
    <3>1. DOMAIN dupOf = Range(dups)
      BY DEF IInv, ListsRight
    <3>2. ASSUME NEW x \in cut
          PROVE  (IF x \in rev[k] THEN mapping'[x] ELSE dupOf[x]) = pairs(g)[x]
      <4>1. CASE x \in rev[k]
        <5>1. mapping'[x] = IF x = h THEN g ELSE mapping[x]
          BY <2>6, <2>7, <4>1
        <5>2. x \notin Range(dups)
          BY <2>5, <4>1
        <5>3. QED
          BY <4>1, <5>1, <5>2
      <4>2. CASE x \notin rev[k]
        BY <2>6, <4>2
      <4>3. QED
        BY <4>1, <4>2
    <3>3. Joined([x \in rev[k] |-> mapping'[x]], dupOf)
            = [x \in cut |-> IF x \in rev[k] THEN mapping'[x] ELSE dupOf[x]]
      BY <3>1 DEF Joined
    <3>4. QED
      BY <3>2, <3>3
  <2>9. ReadsNoOne(nl) => RootsEqual(nl, pairs(g), InputsOf(nl), TrueConst(nl), Function)
    <3> SUFFICES ASSUME ReadsNoOne(nl)
                 PROVE  RootsEqual(nl, pairs(g), InputsOf(nl), TrueConst(nl), Function)
      OBVIOUS
    <3> DEFINE q == pairs(g)
    <3>1. nl \in Netlists /\ \A c \in nl.consts : phase[c] = (nl.type[c] = "CONST1")
      BY DEF IInv, ListsRight, PhaseRight
    <3>2. DOMAIN q = cut /\ Unsat(nl, q, Low(2), phase)
      BY <2>3
    <3>3. ASSUME NEW x \in cut PROVE q[x] \in GolWalk(nl, Low(2)) \union nl.consts
      <4>1. CASE x = h
        BY <2>3, <4>1 DEF GoldenKnown
      <4>2. CASE x # h /\ x \in Range(dups)
        BY <4>2 DEF IInv, ListsRight
      <4>3. CASE x # h /\ x \notin Range(dups)
        <5>1. x \in Chosen \intersect OldGates
          BY <2>5, <2>6, <4>3
        <5>2. q[x] = mapping[x]
          BY <4>3
        <5>3. QED
          BY <2>4, <5>1, <5>2 DEF GoldenKnown
      <4>4. QED
        BY <4>1, <4>2, <4>3
    <3>4. \A y \in Above(nl.fanin, nl.root[1], DOMAIN nl.fanin, cut) : nl.fanin[y] # <<>>
      BY <2>4 DEF IInv, ListsRight, CutRight
    <3> HIDE DEF q, cut
    <3>5. RootsEqual(nl, q, InputsOf(nl), TrueConst(nl), Function)
      BY <3>1, <3>2, <3>3, <3>4, SolverSound
    <3>6. QED
      BY <3>5 DEF q
  <2>10. Searching'
    BY <1>1, <2>1 DEF Searching
  <2>11. MatchRight'
    <3>1. ReadsNoOne(nl) => Right([x \in rev[k] |-> mapping'[x]], dupOf)
      BY <2>8, <2>9 DEF Right
    <3>2. ReadsNoOne(nl) => (res # NoMatch => Right(res.pairs, res.dups))
      BY DEF IInv, MatchRight
    <3>3. QED
      BY <1>1, <3>1, <3>2 DEF MatchRight, Right
  <2>12. QED
    BY <1>2, <1>3, <1>4, <2>10, <2>11 DEF IInv
<1>7. QED
  BY <1>5, <1>6

-----------------------------------------------------------------------------
(* The invariant is inductive.                                             *)
LEMMA IInvStep == ASSUME IInv, [Next]_vars PROVE IInv'
<1>1. CASE NextLevel
  BY <1>1, NextLevelKeeps
<1>2. CASE NextCut
  BY <1>2, NextCutKeeps
<1>3. CASE NoMoreCuts
  BY <1>3, NoMoreCutsKeeps
<1>4. CASE TryLastGate
  BY <1>4, TryLastGateKeeps
<1>5. CASE NoPairLeft
  BY <1>5, NoPairLeftKeeps
<1>6. CASE SkipPair
  BY <1>6, SkipPairKeeps
<1>7. CASE SelectPair
  BY <1>7, SelectPairKeeps
<1>8. CASE Unselect
  BY <1>8, UnselectKeeps
<1>9. CASE Matched
  BY <1>9, MatchedKeeps
<1>10. CASE NotMatched
  BY <1>10, NotMatchedKeeps
<1>11. CASE EndLevel
  BY <1>11, EndLevelKeeps
<1>12. CASE UNCHANGED vars
  <2>1. UNCHANGED <<inputs, level, minCheckSize, lists, k, checkSize, search, phase, res, pc>>
    BY <1>12 DEF vars
  <2>2. /\ UNCHANGED <<nl, sim, level, minCheckSize, dups, dupOf, rev, gol, known, k, checkSize,
                       cuts, left, mapping, at, stack, found, phase, res, pc>>
    BY <2>1 DEF inputs, lists, search
  <2>3. ListsRight'
    <3>1. minCheckSize' \in Nat
      BY <2>2 DEF IInv, ListsRight
    <3>2. QED
      BY <2>1, <3>1, ListsKept DEF IInv
  <2>4. PhaseRight'
    BY <2>2, PhaseKept DEF IInv
  <2>5. CandPairs' = CandPairs /\ Chosen' = Chosen /\ GoldenKnown' = GoldenKnown
        /\ CutIndices(checkSize)' = CutIndices(checkSize)
    BY <2>2 DEF CandPairs, Chosen, GoldenKnown, Low, CutIndices
  <2>6. LevelRight'
    BY <2>2, <2>5 DEF IInv, LevelRight
  <2>7. LeftAre({})' = LeftAre({}) /\ LeftAre(Chosen)' = LeftAre(Chosen)
    BY <2>2, <2>5 DEF LeftAre
  <2>8. BetweenCuts'
    BY <2>2, <2>7 DEF IInv, BetweenCuts
  <2>9. StackRight' /\ LeftInCut'
    BY <2>2, <2>5 DEF IInv, StackRight, LeftInCut
  <2>10. Searching'
    BY <2>2, <2>5, <2>7 DEF IInv, Searching
  <2>11. MatchRight'
    BY <2>2 DEF IInv, MatchRight, Right
  <2>12. QED
    BY <2>3, <2>4, <2>6, <2>8, <2>9, <2>10, <2>11 DEF IInv
<1>13. QED
  BY <1>1, <1>2, <1>3, <1>4, <1>5, <1>6, <1>7, <1>8, <1>9, <1>10, <1>11, <1>12 DEF Next

(* All of this holds in every reachable state (the operations of           *)
(* cutMatching, getGuildedCutCands2 and addPairToFormCut together).        *)
THEOREM Invariant == Spec => []IInv
<1>1. Init => IInv
  BY IInvInit
<1>2. IInv /\ [Next]_vars => IInv'
  BY IInvStep
<1>3. QED
  BY <1>1, <1>2, PTL DEF Spec

(* numGateLeft is right wherever the recursion is: when a pair is to be    *)
(* selected it counts the gates of a cut without a partner, for each cut   *)
(* that is not too large for the old ones so far, and between two old cuts *)
(* nothing is left selected (addPairToFormCut, cutMatching).               *)
THEOREM CountsRight == Spec => []LeftCounts
<1>1. IInv => LeftCounts
  <2>1. ASSUME IInv, pc = "pair", NEW i \in DOMAIN gol, Cardinality(gol[i]) <= checkSize
        PROVE  left[i] = Cardinality(gol[i] \ DOMAIN mapping)
    <3>1. mapping = [g \in Chosen |-> mapping[g]] /\ LeftAre(Chosen)
      BY <2>1 DEF IInv, Searching
    <3>2. DOMAIN mapping = Chosen
      BY <3>1
    <3>3. QED
      BY <2>1, <3>1, <3>2 DEF LeftAre
  <2>2. ASSUME IInv, pc = "cut"
        PROVE  mapping = <<>> /\ \A i \in DOMAIN gol : left[i] = Cardinality(gol[i])
    BY <2>2, LeftOfNone DEF IInv, BetweenCuts
  <2>3. QED
    BY <2>1, <2>2 DEF LeftCounts
<1>2. QED
  BY <1>1, Invariant, PTL

(* Whatever the level and the dups, each gate that a miter names has a     *)
(* variable: the walk that gives the variables reaches it.                 *)
THEOREM EncodesAll == Spec => []AllEncoded
<1>1. IInv => AllEncoded
  <2>1. SUFFICES ASSUME IInv, pc = "pair"
                 PROVE  /\ rev[k] \union Range(dups) \subseteq OldEncoded(nl, rev[k] \union Range(dups))
                        /\ Range(dupOf) \union (UNION Range(gol)) \subseteq GolEncoded(nl, Low(2))
    BY DEF AllEncoded
  <2>2. k \in DOMAIN rev /\ CutRight(nl.fanin, nl.root[1], rev[k], Range(dups))
    BY <2>1 DEF IInv, StackRight, ListsRight
  <2>3. DOMAIN dupOf = Range(dups) /\ \A h \in Range(dups) : dupOf[h] \in GolWalk(nl, Low(2))
    BY <2>1 DEF IInv, ListsRight
  <2>4. Range(dupOf) \subseteq GolWalk(nl, Low(2))
    BY <2>3 DEF Range
  <2>5. UNION Range(gol) \subseteq GolWalk(nl, Low(2))
    BY <2>1, CutsAreGates DEF IInv, Range
  <2>6. QED
    BY <2>2, <2>4, <2>5 DEF CutRight, OldEncoded, GolEncoded
<1>2. QED
  BY <1>1, Invariant, PTL

(* A match is right for all values of the inputs, although the solver was  *)
(* only asked about the gates of some levels and by their clauses, in any  *)
(* netlist whose golden gates do not read the constant one.                *)
THEOREM MatchesSound == Spec => [](ReadsNoOne(nl) => MatchSound)
<1>1. IInv => (ReadsNoOne(nl) => MatchSound)
  <2>1. SUFFICES ASSUME IInv, ReadsNoOne(nl), res # NoMatch PROVE MatchSound
    BY DEF MatchSound
  <2>2. Right(res.pairs, res.dups)
    BY <2>1 DEF IInv, MatchRight
  <2>3. GolInputs = InputsOf(nl)
    BY DEF GolInputs, InputsOf
  <2>4. QED
    BY <2>2, <2>3 DEF MatchSound, Right
<1>2. QED
  BY <1>1, Invariant, PTL

-----------------------------------------------------------------------------
(* Nothing right is passed over: the second inductive invariant.           *)

(* The gates of the cuts are known; the cuts are not too large while there *)
(* is no match.                                                            *)
GatesKnown ==
  /\ nl.consts \subseteq known
  /\ \A j \in DOMAIN rev : rev[j] \subseteq known
  /\ \A i \in DOMAIN gol : gol[i] \subseteq known
SmallCuts ==
  res = NoMatch => \A j \in DOMAIN rev : Cardinality(rev[j]) <= minCheckSize

(* The calls go up in the list of pairs, and know how many constants those *)
(* before them chose; the gates of a call are each other's partners.       *)
CallsRight ==
  pc \in {"pair", "return"} =>
    /\ pc = "pair" => at.consts = Cardinality(Chosen \intersect nl.consts)
    /\ \A j \in DOMAIN stack :
         /\ stack[j].consts = Cardinality(UpTo(CandPairs, stack, j - 1) \intersect nl.consts)
         /\ stack[j].index < at.index
         /\ \A i \in 1 .. (j - 1) : stack[i].index < stack[j].index
PartnersRight ==
  pc = "pair" \/ (pc = "return" /\ ~found) =>
    \A j \in DOMAIN stack :
      mapping[CandPairs[stack[j].index][1]] = CandPairs[stack[j].index][2]

(* A pairing of an old cut that would be right; one of the cut that is     *)
(* being matched, the gate that comes last, and where the list has the     *)
(* pairs of the others.                                                    *)
RightPairing(j, m) ==
  /\ m \in Pairings(rev[j]) /\ Complete(m, j)
  /\ RootsEqual(nl, Joined(m, dupOf), Free(nl, Low(2)), TrueConst(nl), Function)
NoneRight(j) == \A m : ~RightPairing(j, m)

Way(m, h, idx) ==
  /\ RightPairing(k, m) /\ h \in rev[k]
  /\ m[h] \in nl.consts => nl.consts \intersect {m[h2] : h2 \in rev[k] \ {h}} = {}
  /\ idx \in [rev[k] \ {h} -> 1 .. Len(CandPairs)]
  /\ \A x \in rev[k] \ {h} : CandPairs[idx[x]] = <<x, m[x]>>

(* Such a way is still ahead of the call when the calls so far chose pairs *)
(* of it only, and passed over none; or it is what comes after a call has  *)
(* unselected its pair.                                                    *)
Calls(calls, j) == {calls[i].index : i \in 1 .. j}
Ahead(idx) ==
  /\ Calls(stack, Len(stack)) \subseteq Range(idx)
  /\ \A x \in Range(idx) : x < at.index => x \in Calls(stack, Len(stack))
Later(idx) ==
  \E j \in DOMAIN stack :
    /\ Calls(stack, j - 1) \subseteq Range(idx)
    /\ \A x \in Range(idx) : x <= stack[j].index => x \in Calls(stack, j - 1)

WaysAhead ==
  ReadsNoOne(nl) /\ res = NoMatch =>
    \A m, h, idx : Way(m, h, idx) =>
      /\ pc = "pair" => Ahead(idx) \/ Later(idx)
      /\ pc = "return" /\ ~found => Later(idx)
CutsTried ==
  ReadsNoOne(nl) /\ res = NoMatch =>
    \A j \in DOMAIN rev :
      (pc \in {"cut", "pair", "return"} /\ j < k) \/ pc = "end" => NoneRight(j)

TInv == GatesKnown /\ SmallCuts /\ CallsRight /\ PartnersRight /\ WaysAhead /\ CutsTried

(* A pairing of the old cut being matched, and the golden cut it completes.*)
LEMMA PairingOf ==
  ASSUME IInv, TInv, pc \in {"pair", "return"}, NEW m, RightPairing(k, m)
  PROVE  /\ m \in [rev[k] -> GolGates] /\ DOMAIN m = rev[k]
         /\ \A x, y \in rev[k] : m[x] = m[y] => x = y
         /\ \A x \in rev[k] : m[x] \in known
         /\ \E i \in Allowed :
              /\ gol[i] \intersect nl.consts = {}
              /\ gol[i] = {m[x] : x \in rev[k]} \ nl.consts
<1>1. /\ ListsRight /\ k \in DOMAIN rev /\ GatesKnown
  BY DEF IInv, StackRight, TInv
<1>2. m \in Pairings(rev[k]) /\ Complete(m, k)
  BY DEF RightPairing
<1>3. m \in [rev[k] -> (UNION Range(gol)) \union nl.consts] /\ IsInjective(m)
  BY <1>2 DEF Pairings
<1>4. /\ UNION Range(gol) \subseteq GolGates /\ nl.consts \subseteq GolGates
      /\ UNION Range(gol) \subseteq known /\ nl.consts \subseteq known
  <2>1. \A i \in DOMAIN gol : gol[i] \subseteq GolGates /\ gol[i] \subseteq known
    BY <1>1, CutsAreGates DEF GatesKnown
  <2>2. nl.consts \subseteq GolGates /\ nl.consts \subseteq known
    BY <1>1, Types DEF ListsRight, GatesKnown
  <2>3. QED
    BY <2>1, <2>2 DEF Range
<1>5. m \in [rev[k] -> GolGates] /\ DOMAIN m = rev[k] /\ \A x \in rev[k] : m[x] \in known
  BY <1>3, <1>4
<1>6. \A x, y \in rev[k] : m[x] = m[y] => x = y
  BY <1>3, <1>5 DEF IsInjective
<1>7. Range(m) = {m[x] : x \in rev[k]}
  BY <1>5 DEF Range
<1>8. PICK i \in DOMAIN gol : /\ k > oldMax[1] \/ i > oldMax[2]
                              /\ gol[i] \intersect nl.consts = {}
                              /\ Range(m) \ nl.consts = gol[i]
  BY <1>2 DEF Complete
<1>9. i \in Allowed
  BY <1>8 DEF Allowed
<1>10. QED
  BY <1>5, <1>6, <1>7, <1>8, <1>9

(* When a way is ahead, what is chosen is a part of it.                    *)
LEMMA AheadMeans ==
  ASSUME IInv, TInv, pc = "pair", NEW m, NEW h, NEW idx, Way(m, h, idx), Ahead(idx)
  PROVE  /\ \A j \in DOMAIN stack : \E y \in rev[k] \ {h} :
              stack[j].index = idx[y] /\ CandPairs[stack[j].index] = <<y, m[y]>>
         /\ \A y \in rev[k] \ {h} : idx[y] < at.index => y \in Chosen
         /\ \A y \in rev[k] : y \in Chosen => /\ y # h /\ mapping[y] = m[y]
                                              /\ \E j \in DOMAIN stack : stack[j].index = idx[y]
         /\ \A y \in rev[k] : m[y] \in Chosen <=> y \in Chosen
         /\ \A g \in Chosen \ OldGates : \E y \in rev[k] : g = m[y]
<1> DEFINE list == CandPairs
           n == Len(stack)
<1>1. /\ stack \in Seq([index : 1 .. Len(list), left : Nat, consts : Nat])
      /\ k \in DOMAIN rev
      /\ \A j \in DOMAIN stack : mapping[list[stack[j].index][1]] = list[stack[j].index][2]
  BY DEF IInv, StackRight, TInv, PartnersRight
<1>2. DOMAIN stack = 1 .. n
  BY <1>1
<1>3. /\ h \in rev[k] /\ idx \in [rev[k] \ {h} -> 1 .. Len(list)]
      /\ \A x \in rev[k] \ {h} : list[idx[x]] = <<x, m[x]>>
  BY DEF Way
<1>4. /\ m \in [rev[k] -> GolGates] /\ \A x, y \in rev[k] : m[x] = m[y] => x = y
  BY PairingOf DEF Way
<1>5. /\ rev[k] \subseteq OldGates /\ OldGates \intersect GolGates = {}
  BY <1>1, CutsAreGates DEF IInv
<1> HIDE DEF list, n
<1>6. \A x : x \in Range(idx) <=> \E y \in rev[k] \ {h} : x = idx[y]
  BY <1>3 DEF Range
<1>7. ASSUME NEW j \in DOMAIN stack
      PROVE  \E y \in rev[k] \ {h} : stack[j].index = idx[y] /\ list[stack[j].index] = <<y, m[y]>>
  <2>1. stack[j].index \in Range(idx)
    BY <1>2, <1>7 DEF Ahead, Calls, n
  <2>2. QED
    BY <1>3, <1>6, <2>1
<1>8. \A g : g \in Chosen <=> \E j \in DOMAIN stack : \/ g = list[stack[j].index][1]
                                                      \/ g = list[stack[j].index][2]
  BY <1>2 DEF Chosen, UpTo, list, n
<1>9. \A g : g \in Chosen <=>
        \E j \in DOMAIN stack : \E y \in rev[k] \ {h} :
          stack[j].index = idx[y] /\ (g = y \/ g = m[y])
  <2>1. \A j \in DOMAIN stack : \A y \in rev[k] \ {h} :
          stack[j].index = idx[y] => list[stack[j].index][1] = y /\ list[stack[j].index][2] = m[y]
    BY <1>3
  <2>2. QED
    BY <1>7, <1>8, <2>1
<1>10. ASSUME NEW y \in rev[k] \ {h}, idx[y] < at.index PROVE y \in Chosen
  <2>1. idx[y] \in Calls(stack, n)
    BY <1>6, <1>10 DEF Ahead, n
  <2>2. PICK j \in DOMAIN stack : stack[j].index = idx[y]
    BY <1>2, <2>1 DEF Calls
  <2>3. QED
    BY <1>9, <2>2
<1>11. ASSUME NEW y \in rev[k], y \in Chosen
       PROVE  y # h /\ mapping[y] = m[y] /\ \E j \in DOMAIN stack : stack[j].index = idx[y]
  <2>1. PICK j \in DOMAIN stack, x \in rev[k] \ {h} : stack[j].index = idx[x] /\ (y = x \/ y = m[x])
    BY <1>9, <1>11
  <2>2. y = x
    BY <1>4, <1>5, <2>1
  <2>3. mapping[list[idx[x]][1]] = list[idx[x]][2] /\ list[idx[x]] = <<x, m[x]>>
    BY <1>1, <1>3, <2>1
  <2>4. QED
    BY <2>1, <2>2, <2>3
<1>12. ASSUME NEW y \in rev[k] PROVE m[y] \in Chosen <=> y \in Chosen
  <2>1. ASSUME m[y] \in Chosen PROVE y \in Chosen
    <3>1. PICK j \in DOMAIN stack, x \in rev[k] \ {h} :
            stack[j].index = idx[x] /\ (m[y] = x \/ m[y] = m[x])
      BY <1>9, <2>1
    <3>2. y = x
      BY <1>4, <1>5, <3>1
    <3>3. QED
      BY <1>9, <3>1, <3>2
  <2>2. ASSUME y \in Chosen PROVE m[y] \in Chosen
    <3>1. PICK j \in DOMAIN stack, x \in rev[k] \ {h} : stack[j].index = idx[x] /\ (y = x \/ y = m[x])
      BY <1>9, <2>2
    <3>2. y = x
      BY <1>4, <1>5, <3>1
    <3>3. QED
      BY <1>9, <3>1, <3>2
  <2>3. QED
    BY <2>1, <2>2
<1>13. \A g \in Chosen \ OldGates : \E y \in rev[k] : g = m[y]
  BY <1>5, <1>9
<1>14. QED
  BY <1>7, <1>10, <1>11, <1>12, <1>13 DEF list

(* A set of images is no larger than the set it is of, and as large when   *)
(* no two are the same.                                                    *)
LEMMA ImageCount ==
  ASSUME NEW S \in SUBSET Gates, NEW T \in SUBSET Gates, NEW m,
         \A g \in T : \E x \in S : g = m[x]
  PROVE  /\ Cardinality(T) <= Cardinality(S)
         /\ (\A x, y \in S : m[x] = m[y] => x = y) /\ (\A x \in S : m[x] \in T)
              => Cardinality(T) = Cardinality(S)
<1> DEFINE V == {x \in S : m[x] \in T}
           f == [x \in V |-> m[x]]
<1>1. V \in SUBSET S /\ V \in SUBSET Gates
  OBVIOUS
<1>2. f \in Surjection(V, T)
  BY DEF Surjection
<1>3. IsFiniteSet(V) /\ IsFiniteSet(S)
  BY <1>1, GateSets
<1>4. Cardinality(V) <= Cardinality(S)
  BY <1>1, <1>3, FS_Subset
<1>5. /\ Cardinality(V) \in Nat /\ Cardinality(S) \in Nat /\ Cardinality(T) \in Nat
  BY <1>1, GateSets
<1>6. (\A x, y \in S : m[x] = m[y] => x = y) => f \in Injection(V, T)
  BY <1>2 DEF Injection, Surjection, IsInjective
<1>7. (\A x \in S : m[x] \in T) => V = S
  OBVIOUS
<1> HIDE DEF f, V
<1>8. Cardinality(T) <= Cardinality(V) /\ (f \in Injection(V, T) => Cardinality(T) = Cardinality(V))
  BY <1>2, <1>3, FS_Surjection
<1>9. QED
  BY <1>4, <1>5, <1>6, <1>7, <1>8

(* The golden cut of a pairing is no larger than the old one, nor has it   *)
(* more gates left.                                                        *)
LEMMA CutOfWay ==
  ASSUME IInv, TInv, pc = "pair", NEW m, NEW h, NEW idx, Way(m, h, idx), Ahead(idx),
         NEW i \in Allowed, gol[i] = {m[x] : x \in rev[k]} \ nl.consts
  PROVE  /\ i \in DOMAIN gol /\ gol[i] \in SUBSET Gates
         /\ Cardinality(gol[i]) <= checkSize
         /\ left[i] = Cardinality(gol[i] \ Chosen) /\ left[i] \in Nat
         /\ left[i] <= at.left /\ at.left \in Nat
<1>1. /\ k \in DOMAIN rev /\ Cardinality(rev[k]) <= checkSize /\ checkSize \in Nat
      /\ LeftAre(Chosen) /\ at.left = Cardinality(rev[k] \ Chosen)
  BY DEF IInv, StackRight, LevelRight, Searching, LeftInCut
<1>2. i \in DOMAIN gol
  BY DEF Allowed
<1>3. gol[i] \in SUBSET Gates /\ rev[k] \in SUBSET Gates
  BY <1>1, <1>2, CutsAreGates DEF IInv
<1>4. gol[i] \ Chosen \in SUBSET Gates /\ rev[k] \ Chosen \in SUBSET Gates
  BY <1>3
<1>5. Cardinality(gol[i]) <= Cardinality(rev[k])
  <2>1. \A g \in gol[i] : \E x \in rev[k] : g = m[x]
    OBVIOUS
  <2>2. QED
    BY <1>3, <2>1, ImageCount
<1>6. Cardinality(gol[i] \ Chosen) <= Cardinality(rev[k] \ Chosen)
  <2>1. ASSUME NEW g \in gol[i] \ Chosen PROVE \E x \in rev[k] \ Chosen : g = m[x]
    <3>1. PICK x \in rev[k] : g = m[x]
      OBVIOUS
    <3>2. x \notin Chosen
      BY <3>1, AheadMeans
    <3>3. QED
      BY <3>1, <3>2
  <2>2. QED
    BY <1>4, <2>1, ImageCount
<1>7. Cardinality(gol[i]) \in Nat /\ Cardinality(rev[k]) \in Nat
      /\ Cardinality(gol[i] \ Chosen) \in Nat /\ Cardinality(rev[k] \ Chosen) \in Nat
  BY <1>3, <1>4, GateSets
<1>8. Cardinality(gol[i]) <= checkSize
  BY <1>1, <1>5, <1>7
<1>9. left[i] = Cardinality(gol[i] \ Chosen)
  BY <1>1, <1>2, <1>8 DEF LeftAre
<1>10. QED
  BY <1>1, <1>2, <1>3, <1>6, <1>7, <1>8, <1>9

(* A pair that is passed over is none of a way ahead: its gates would be   *)
(* free, and its golden cut can be completed.                              *)
LEMMA SkipsNone ==
  ASSUME IInv, TInv, SkipPair, NEW m, NEW h, NEW idx, Way(m, h, idx), Ahead(idx)
  PROVE  at.index \notin Range(idx)
<1> DEFINE list == CandPairs
<1>1. /\ pc = "pair" /\ at.left # 1 /\ at.index <= Len(list)
      /\ Mapped(list[at.index][1]) \/ Mapped(list[at.index][2]) \/ ~Possible(list[at.index][2])
  BY DEF SkipPair
<1>2. /\ h \in rev[k] /\ idx \in [rev[k] \ {h} -> 1 .. Len(list)]
      /\ \A x \in rev[k] \ {h} : list[idx[x]] = <<x, m[x]>>
      /\ RightPairing(k, m)
  BY DEF Way
<1>3. SUFFICES ASSUME NEW y \in rev[k] \ {h}, idx[y] = at.index PROVE FALSE
  BY <1>2 DEF Range
<1>4. list[at.index] = <<y, m[y]>>
  BY <1>2, <1>3
<1> HIDE DEF list
<1>5. /\ k \in DOMAIN rev /\ DOMAIN mapping = Chosen
      /\ stack \in Seq([index : 1 .. Len(list), left : Nat, consts : Nat])
      /\ at.index \in Nat
  <2>1. at \in [index : Nat \ {0}, left : Nat, consts : Nat]
        /\ mapping = [g \in Chosen |-> mapping[g]]
    BY <1>1 DEF IInv, StackRight, Searching
  <2>2. DOMAIN mapping = Chosen
    BY <2>1
  <2>3. QED
    BY <1>1, <2>1, <2>2 DEF IInv, StackRight, list
<1>6. y \notin Chosen /\ m[y] \notin Chosen
  <2>1. \A j \in DOMAIN stack : stack[j].index < at.index
    BY <1>1 DEF TInv, CallsRight
  <2>2. \A j \in DOMAIN stack : stack[j].index \in Nat
    <3> DEFINE C == [index : 1 .. Len(list), left : Nat, consts : Nat]
    <3>1. Len(list) \in Nat
      BY CandidatesRight DEF IInv, list
    <3>2. stack \in Seq(C) /\ \A c \in C : c.index \in Nat
      BY <1>5, <3>1
    <3> HIDE DEF C
    <3>3. QED
      BY <3>2
  <2>3. y \notin Chosen
    <3>1. SUFFICES ASSUME y \in Chosen PROVE FALSE
      OBVIOUS
    <3>2. PICK j \in DOMAIN stack : stack[j].index = at.index
      BY <1>1, <1>3, <3>1, AheadMeans
    <3>3. QED
      BY <1>5, <2>1, <2>2, <3>2
  <2>4. QED
    BY <1>1, <2>3, AheadMeans
<1>7. /\ rev[k] \subseteq OldGates /\ rev[k] \intersect Range(dups) = {}
      /\ Range(dups) \subseteq OldGates /\ OldGates \intersect GolGates = {}
  BY <1>5, CutsAreGates DEF IInv
<1>8. m[y] \in GolGates /\ m[y] \in known
  BY <1>1, <1>2, PairingOf
<1>9. ~Mapped(y) /\ ~Mapped(m[y])
  BY <1>5, <1>6, <1>7, <1>8 DEF Mapped
<1>10. Possible(m[y])
  <2>1. SUFFICES ASSUME m[y] \notin nl.consts PROVE Possible(m[y])
    BY DEF Possible
  <2>2. pc \in {"pair", "return"} /\ RightPairing(k, m)
    BY <1>1, <1>2
  <2>3. \E i \in Allowed : /\ gol[i] \intersect nl.consts = {}
                           /\ gol[i] = {m[x] : x \in rev[k]} \ nl.consts
    BY <2>2, PairingOf
  <2>4. PICK i \in Allowed : /\ gol[i] \intersect nl.consts = {}
                             /\ gol[i] = {m[x] : x \in rev[k]} \ nl.consts
    BY <2>3
  <2>5. m[y] \in gol[i]
    BY <2>1, <2>4
  <2>6. i \in DOMAIN gol /\ Cardinality(gol[i]) <= checkSize /\ left[i] <= at.left
        /\ left[i] \in Nat /\ at.left \in Nat
    <3>1. pc = "pair" /\ gol[i] = {m[x] : x \in rev[k]} \ nl.consts
      BY <1>1, <2>4
    <3>2. QED
      BY <3>1, CutOfWay
  <2>7. i \in cuts[m[y]] <=> m[y] \in gol[i] /\ Cardinality(gol[i]) <= checkSize
    <3>1. m[y] \in known /\ i \in DOMAIN gol
      BY <1>8, <2>6
    <3>2. QED
      BY <1>1, <2>2, <3>1, IndicesRight
  <2>8. i \in cuts[m[y]]
    BY <2>5, <2>6, <2>7
  <2>9. left[i] - 1 <= at.left - 1
    BY <2>6
  <2>10. QED
    BY <2>8, <2>9 DEF Possible
<1>11. QED
  BY <1>1, <1>4, <1>9, <1>10

(* With no pair left the way would be chosen but for the last gate.        *)
LEMMA NoPairLeftNone ==
  ASSUME IInv, TInv, NoPairLeft, NEW m, NEW h, NEW idx, Way(m, h, idx)
  PROVE  ~Ahead(idx)
<1>1. SUFFICES ASSUME Ahead(idx) PROVE FALSE
  OBVIOUS
<1>2. pc = "pair" /\ at.left # 1 /\ at.index > Len(CandPairs)
  BY DEF NoPairLeft
<1>3. /\ at \in [index : Nat \ {0}, left : Nat, consts : Nat] /\ k \in DOMAIN rev
      /\ at.left = Cardinality(rev[k] \ Chosen)
  BY <1>2 DEF IInv, StackRight, LeftInCut
<1>4. h \in rev[k] /\ idx \in [rev[k] \ {h} -> 1 .. Len(CandPairs)]
  BY DEF Way
<1>5. Len(CandPairs) \in Nat
  BY CandidatesRight DEF IInv
<1>6. \A y \in rev[k] \ {h} : y \in Chosen
  <2>1. ASSUME NEW y \in rev[k] \ {h} PROVE y \in Chosen
    <3>1. idx[y] \in 1 .. Len(CandPairs)
      BY <1>4
    <3>2. at.index \in Nat
      BY <1>3
    <3>3. idx[y] < at.index
      BY <1>2, <1>5, <3>1, <3>2
    <3>4. QED
      BY <1>1, <1>2, <3>3, AheadMeans
  <2>2. QED
    BY <2>1
<1>7. h \notin Chosen
  BY <1>1, <1>2, <1>4, AheadMeans
<1>8. rev[k] \ Chosen = {h}
  BY <1>4, <1>6, <1>7
<1>9. QED
  BY <1>2, <1>3, <1>8, FS_Singleton

(* With one gate left, it is the last gate of each way ahead, and what     *)
(* completes this way is a candidate.                                      *)
LEMMA LastGateOfWay ==
  ASSUME IInv, TInv, TryLastGate, NEW m, NEW h, NEW idx, Way(m, h, idx), Ahead(idx)
  PROVE  /\ h = CHOOSE x \in rev[k] : ~Mapped(x)
         /\ \A x \in rev[k] : x = h \/ mapping[x] = m[x]
         /\ m[h] \in Candidates
<1>1. pc = "pair" /\ at.left = 1
  BY DEF TryLastGate
<1>2. /\ k \in DOMAIN rev /\ at.left = Cardinality(rev[k] \ Chosen)
      /\ mapping = [g \in Chosen |-> mapping[g]]
      /\ at.consts = Cardinality(Chosen \intersect nl.consts)
      /\ nl \in Netlists
  BY <1>1 DEF IInv, StackRight, LeftInCut, Searching, TInv, CallsRight, ListsRight
<1>3. DOMAIN mapping = Chosen
  BY <1>2
<1>4. /\ h \in rev[k] /\ RightPairing(k, m)
      /\ m[h] \in nl.consts => nl.consts \intersect {m[h2] : h2 \in rev[k] \ {h}} = {}
  BY DEF Way
<1>5. /\ rev[k] \in SUBSET Gates /\ rev[k] \subseteq OldGates /\ rev[k] \intersect Range(dups) = {}
      /\ Range(dups) \subseteq OldGates /\ OldGates \intersect GolGates = {}
  BY <1>2, CutsAreGates DEF IInv
<1>6. /\ m \in [rev[k] -> GolGates] /\ \A x, y \in rev[k] : m[x] = m[y] => x = y
  BY <1>1, <1>4, PairingOf
<1>7. nl.consts \subseteq GolGates /\ GolGates \subseteq Gates
  BY <1>2, Types DEF Gates
<1>8. rev[k] \ Chosen = {h}
  <2>1. h \notin Chosen
    BY <1>1, <1>4, AheadMeans
  <2> DEFINE rest == rev[k] \ Chosen
  <2>2. rest \in SUBSET Gates /\ Cardinality(rest) = 1 /\ h \in rest
    BY <1>1, <1>2, <1>4, <1>5, <2>1
  <2> HIDE DEF rest
  <2>3. IsFiniteSet(rest)
    BY <2>2, GateSets
  <2>4. \E y : rest = {y}
    BY <2>2, <2>3, FS_Singleton
  <2>5. QED
    BY <2>2, <2>4 DEF rest
<1>9. \A x \in rev[k] : Mapped(x) <=> x \in Chosen
  BY <1>3, <1>5 DEF Mapped
<1>10. h = CHOOSE x \in rev[k] : ~Mapped(x)
  <2>1. \A x \in rev[k] : ~Mapped(x) <=> x = h
    BY <1>4, <1>8, <1>9
  <2>2. QED
    BY <1>4, <2>1
<1>11. \A x \in rev[k] : x = h \/ (x \in Chosen /\ mapping[x] = m[x])
  BY <1>1, <1>8, AheadMeans
<1>12. \A x \in rev[k] : m[x] \in Chosen <=> x # h
  BY <1>1, <1>8, AheadMeans
<1>13. PICK i \in Allowed : /\ gol[i] \intersect nl.consts = {}
                            /\ gol[i] = {m[x] : x \in rev[k]} \ nl.consts
  <2>1. pc \in {"pair", "return"} /\ RightPairing(k, m)
    BY <1>1, <1>4
  <2>2. QED
    BY <2>1, PairingOf
<1>14. /\ i \in DOMAIN gol /\ gol[i] \in SUBSET Gates
       /\ left[i] = Cardinality(gol[i] \ Chosen)
  BY <1>1, <1>13, CutOfWay
<1>15. CASE m[h] \in nl.consts
  <2>1. Chosen \intersect nl.consts = {}
    <3>1. SUFFICES ASSUME NEW g \in Chosen, g \in nl.consts PROVE FALSE
      OBVIOUS
    <3>2. PICK y \in rev[k] : g = m[y]
      BY <1>1, <1>5, <1>7, <3>1, AheadMeans
    <3>3. y # h
      BY <1>12, <3>1, <3>2
    <3>4. QED
      BY <1>4, <1>15, <3>1, <3>2, <3>3
  <2>2. at.consts = 0
    BY <1>2, <2>1, FS_EmptySet
  <2>3. gol[i] \ Chosen = {}
    BY <1>12, <1>13, <1>15
  <2>4. left[i] = 0
    BY <1>14, <2>3, FS_EmptySet
  <2>5. QED
    BY <1>10, <1>11, <1>13, <1>15, <2>2, <2>4 DEF Candidates
<1>16. CASE m[h] \notin nl.consts
  <2> DEFINE Z == {m[x] : x \in rev[k]}
  <2>1. gol[i] \ Chosen = {m[h]}
    BY <1>4, <1>12, <1>13, <1>16
  <2>2. left[i] = 1
    BY <1>14, <2>1, FS_Singleton
  <2>3. Chosen \intersect nl.consts = Z \intersect nl.consts
    <3>1. ASSUME NEW g \in nl.consts, g \in Chosen PROVE g \in Z
      BY <1>1, <1>5, <1>7, <3>1, AheadMeans
    <3>2. ASSUME NEW g \in nl.consts, g \in Z PROVE g \in Chosen
      <4>1. PICK x \in rev[k] : g = m[x]
        BY <3>2
      <4>2. QED
        BY <1>12, <1>16, <4>1, <3>2
    <3>3. QED
      BY <3>1, <3>2
  <2>4. Cardinality(gol[i]) = Cardinality(rev[k]) - at.consts
    <3>1. Z \in SUBSET Gates
      BY <1>6, <1>7
    <3>2. Cardinality(Z) = Cardinality(rev[k])
      <4>1. (\A g \in Z : \E x \in rev[k] : g = m[x]) /\ \A x \in rev[k] : m[x] \in Z
        OBVIOUS
      <4> HIDE DEF Z
      <4>2. QED
        BY <1>5, <1>6, <3>1, <4>1, ImageCount
    <3>3. gol[i] = Z \ nl.consts
      BY <1>13
    <3> HIDE DEF Z
    <3>4. IsFiniteSet(Z)
      BY <3>1, GateSets
    <3>5. Cardinality(Z \ nl.consts) = Cardinality(Z) - Cardinality(Z \intersect nl.consts)
      BY <3>4, FS_Difference
    <3>6. QED
      BY <1>2, <2>3, <3>2, <3>3, <3>5
  <2>5. ~Mapped(m[h]) /\ \A g \in gol[i] : ~Mapped(g) => g = m[h]
    <3>1. \A g \in gol[i] : g \in GolGates
      BY <1>6, <1>13
    <3>2. QED
      BY <1>3, <1>4, <1>5, <1>6, <2>1, <3>1 DEF Mapped
  <2>6. m[h] = CHOOSE g \in gol[i] : ~Mapped(g)
    BY <2>1, <2>5
  <2>7. m[h] \in Candidates
    BY <2>2, <2>4, <2>6 DEF Candidates
  <2>8. QED
    BY <1>10, <1>11, <2>7
<1>17. QED
  BY <1>15, <1>16

(* So a match is found.                                                    *)
LEMMA LastGateFinds ==
  ASSUME IInv, TInv, TryLastGate, ReadsNoOne(nl),
         NEW m, NEW h, NEW idx, Way(m, h, idx), Ahead(idx)
  PROVE  found'
<1> DEFINE last == CHOOSE x \in rev[k] : ~Mapped(x)
           cut == rev[k] \union Range(dups)
           pairs(g) == [r \in cut |-> IF r = last THEN g ELSE IF r \in Range(dups) THEN dupOf[r]
                                      ELSE mapping[r]]
           proved == {g \in Candidates : Unsat(nl, pairs(g), Low(2), phase)}
<1>1. pc = "pair" /\ (proved # {} => found' = TRUE)
  BY DEF TryLastGate
<1>2. /\ h = last /\ \A x \in rev[k] : x = h \/ mapping[x] = m[x]
      /\ m[h] \in Candidates
  BY LastGateOfWay
<1>3. /\ h \in rev[k] /\ RightPairing(k, m)
  BY DEF Way
<1>4. /\ k \in DOMAIN rev /\ ListsRight /\ DOMAIN dupOf = Range(dups)
      /\ \A r \in Range(dups) : dupOf[r] \in GolWalk(nl, Low(2))
      /\ \A c \in nl.consts : phase[c] = (nl.type[c] = "CONST1")
      /\ CutRight(nl.fanin, nl.root[1], rev[k], Range(dups)) /\ nl \in Netlists
  BY <1>1 DEF IInv, StackRight, ListsRight, PhaseRight
<1>5. rev[k] \intersect Range(dups) = {}
  BY <1>4, CutsAreGates
<1>6. DOMAIN m = rev[k]
  BY <1>1, <1>3, PairingOf
<1> DEFINE q == Joined(m, dupOf)
<1>7. q = pairs(m[h])
  <2> HIDE DEF last
  <2>1. ASSUME NEW x \in cut
        PROVE  (IF x \in rev[k] THEN m[x] ELSE dupOf[x]) = pairs(m[h])[x]
    BY <1>2, <1>3, <1>5
  <2>2. q = [x \in cut |-> IF x \in rev[k] THEN m[x] ELSE dupOf[x]]
    BY <1>4, <1>6 DEF Joined
  <2>3. QED
    BY <2>1, <2>2
<1>8. \A x \in cut : q[x] \in GolWalk(nl, Low(2)) \union nl.consts
  <2>1. DOMAIN q = cut /\ \A x \in cut : q[x] = IF x \in rev[k] THEN m[x] ELSE dupOf[x]
    BY <1>4, <1>6 DEF Joined
  <2>2. \A x \in rev[k] : m[x] \in (UNION Range(gol)) \union nl.consts
    BY <1>3 DEF RightPairing, Pairings
  <2>3. UNION Range(gol) \subseteq GolWalk(nl, Low(2))
    BY <1>4, CutsAreGates DEF Range
  <2> HIDE DEF q
  <2>4. QED
    BY <1>4, <2>1, <2>2, <2>3
<1>9. DOMAIN q = cut
  BY <1>4, <1>6 DEF Joined
<1>10. RootsEqual(nl, q, Free(nl, Low(2)), TrueConst(nl), Function)
  BY <1>3 DEF RightPairing
<1>11. Unsat(nl, q, Low(2), phase)
  <2>1. \A y \in Above(nl.fanin, nl.root[1], DOMAIN nl.fanin, cut) : nl.fanin[y] # <<>>
    BY <1>4 DEF CutRight
  <2> HIDE DEF q, cut
  <2>2. QED
    BY <1>4, <1>8, <1>9, <1>10, <2>1, SolverComplete
<1> HIDE DEF q, pairs
<1>12. m[h] \in proved
  BY <1>2, <1>7, <1>11
<1>13. QED
  BY <1>1, <1>12

(* The pairings of the cuts depend on the lists only.                      *)
LEMMA PairingsKept ==
  ASSUME UNCHANGED <<nl, sim, level, dupOf, rev, gol, oldMax>>, NEW j
  PROVE  /\ \A m : RightPairing(j, m)' <=> RightPairing(j, m)
         /\ NoneRight(j)' <=> NoneRight(j)
<1>1. \A m : RightPairing(j, m)' <=> RightPairing(j, m)
  BY DEF RightPairing, Pairings, Complete, Low
<1>2. QED
  BY <1>1 DEF NoneRight

(* A right pairing is a way: all its pairs but the last are in the list.   *)
LEMMA WayExists ==
  ASSUME IInv, TInv, pc \in {"pair", "return"}, NEW m, RightPairing(k, m)
  PROVE  \E h, idx : Way(m, h, idx)
<1> DEFINE list == CandPairs
<1>1. /\ m \in Pairings(rev[k]) /\ k \in DOMAIN rev /\ sim \in Seq(OldGates \X GolGates)
      /\ ListsRight /\ rev[k] \subseteq known
  BY CutMatchAssumption DEF RightPairing, IInv, StackRight, ListsRight, TInv, GatesKnown
<1>2. PICK h \in rev[k] :
        /\ \A h2 \in rev[k] \ {h} : <<h2, m[h2]>> \in Range(sim)
        /\ m[h] \in nl.consts => nl.consts \intersect {m[h2] : h2 \in rev[k] \ {h}} = {}
  BY <1>1 DEF Pairings
<1>3. \A x \in rev[k] : m[x] \in known
  BY PairingOf
<1>4. ASSUME NEW x \in rev[k] \ {h} PROVE \E j \in 1 .. Len(list) : list[j] = <<x, m[x]>>
  <2> DEFINE p == <<x, m[x]>>
             old == rev[k] \union Range(dups)
             A == {q \in OldGates \X GolGates : IsCand(q, old, known)}
  <2>1. p \in Range(sim) /\ IsCand(p, old, known)
    BY <1>1, <1>2, <1>3 DEF IsCand
  <2> HIDE DEF p, A
  <2>2. /\ CandPairList(sim, old, known) \in Seq(A)
        /\ p \in Range(CandPairList(sim, old, known))
    <3> HIDE DEF old
    <3> DEFINE E == OldGates \X GolGates
    <3>1. sim \in Seq(E)
      BY <1>1
    <3> HIDE DEF E
    <3>2. /\ CandPairList(sim, old, known) \in Seq({q \in E : IsCand(q, old, known)})
          /\ \A q \in Range(sim) :
               IsCand(q, old, known) => q \in Range(CandPairList(sim, old, known))
      BY <3>1, CandPairsRight
    <3>3. QED
      BY <2>1, <3>2 DEF A, E
  <2>3. list \in Seq(A) /\ p \in Range(list)
    BY <2>2 DEF CandPairs
  <2> HIDE DEF list
  <2>4. PICK j \in DOMAIN list : list[j] = p
    BY <2>3 DEF Range
  <2>5. j \in 1 .. Len(list)
    BY <2>3
  <2>6. QED
    BY <2>4, <2>5 DEF p
<1> DEFINE idx == [x \in rev[k] \ {h} |-> CHOOSE j \in 1 .. Len(list) : list[j] = <<x, m[x]>>]
<1> HIDE DEF list
<1>5. \A x \in rev[k] \ {h} : idx[x] \in 1 .. Len(list) /\ list[idx[x]] = <<x, m[x]>>
  BY <1>4
<1>6. idx \in [rev[k] \ {h} -> 1 .. Len(list)]
  BY <1>5
<1> HIDE DEF idx
<1>7. Way(m, h, idx)
  BY <1>2, <1>5, <1>6 DEF Way, list
<1>8. QED
  BY <1>7

(* At the start no list has a cut.                                         *)
LEMMA TInvInit == Init => TInv
<1> SUFFICES ASSUME Init PROVE TInv
  OBVIOUS
<1>1. rev = <<>> /\ gol = <<>> /\ known = nl.consts /\ pc = "level"
  BY DEF Init
<1>2. QED
  BY <1>1 DEF TInv, GatesKnown, SmallCuts, CallsRight, PartnersRight, WaysAhead, CutsTried

-----------------------------------------------------------------------------
(* The steps between the old cuts keep it.                                 *)

(* The gates of the new cuts are known from now on.                        *)
LEMMA NextLevelTries == ASSUME IInv, TInv, IInv', NextLevel PROVE TInv'
<1> DEFINE cone == Mark(2, {}).reached
           twins == {h \in DOMAIN nl.fanin : Partners(h) \intersect cone # {}}
           r == Mark(1, twins)
           partner == [h \in Range(r.dups) |->
                         CHOOSE g \in Partners(h) \intersect cone :
                           \A g2 \in Partners(h) \intersect cone :
                             Level(nl.fanin)[g] >= Level(nl.fanin)[g2]]
           changed == r.dups # dups
           m == Mark(2, Range(partner))
           revNew == CutsAt(r, nl.root[1], changed)
           golNew == CutsAt(m, nl.root[2], changed)
           revOld == IF changed THEN <<>> ELSE rev
           golOld == IF changed THEN <<>> ELSE gol
           revSets == CutsAbove(nl.fanin, nl.root[1], r, minCheckSize, changed)
           golSets == CutsAbove(nl.fanin, nl.root[2], m, minCheckSize, changed)
<1>1. /\ known' = known \union (UNION Range(revNew)) \union (UNION Range(golNew))
      /\ rev' = revOld \o revNew
      /\ gol' = <<{}>> \/ gol' = golOld \o golNew
      /\ UNCHANGED <<nl, minCheckSize, res>>
      /\ pc' \in {"cut", "done"} /\ k' = 1
  BY DEF NextLevel, inputs
<1>2. nl \in Netlists /\ rev \in Seq(SUBSET OldGates) /\ gol \in Seq(SUBSET GolWalk(nl, Low(2)))
  BY DEF IInv, ListsRight
<1>3. r.reached \subseteq Gates /\ m.reached \subseteq Gates
  <2> HIDE DEF twins, partner
  <2>1. MarksOf(r, 1, twins) /\ MarksOf(m, 2, Range(partner))
    BY <1>2, MarkRight
  <2> HIDE DEF r, m
  <2>2. QED
    BY <2>1 DEF MarksOf, SideOf, Gates
<1>4. revNew \in Seq(revSets) /\ golNew \in Seq(golSets)
  <2> HIDE DEF r, m, changed
  <2>1. r.reached \in SUBSET Gates /\ m.reached \in SUBSET Gates
    BY <1>3
  <2>2. revNew \in Seq(revSets)
    BY <2>1, CutsListed
  <2>3. golNew \in Seq(golSets)
    BY <2>1, CutsListed
  <2>4. QED
    BY <2>2, <2>3
<1>5. \A S \in revSets : Cardinality(S) <= minCheckSize
  <2> HIDE DEF r, changed
  <2>1. QED
    BY DEF CutsAbove
<1>6. revOld \in Seq(SUBSET OldGates) /\ golOld \in Seq(SUBSET GolWalk(nl, Low(2)))
      /\ (revOld = <<>> \/ revOld = rev) /\ (golOld = <<>> \/ golOld = gol)
  BY <1>2
<1> HIDE DEF revOld, golOld, revNew, golNew, revSets, golSets
<1>7. \A j \in DOMAIN rev' : \/ j \in DOMAIN rev /\ rev'[j] = rev[j]
                             \/ \E i \in DOMAIN revNew : rev'[j] = revNew[i]
  <2>1. SUFFICES ASSUME NEW j \in DOMAIN rev'
                 PROVE  \/ j \in DOMAIN rev /\ rev'[j] = rev[j]
                        \/ \E i \in DOMAIN revNew : rev'[j] = revNew[i]
    OBVIOUS
  <2>2. \/ j \in DOMAIN revOld /\ rev'[j] = revOld[j]
        \/ j - Len(revOld) \in DOMAIN revNew /\ rev'[j] = revNew[j - Len(revOld)]
    BY <1>1, <1>4, <1>6
  <2>3. QED
    BY <1>6, <2>2
<1>8. \A i \in DOMAIN gol' : \/ gol'[i] = {}
                             \/ i \in DOMAIN gol /\ gol'[i] = gol[i]
                             \/ \E j \in DOMAIN golNew : gol'[i] = golNew[j]
  <2>1. CASE gol' = <<{}>>
    BY <2>1
  <2>2. CASE gol' = golOld \o golNew
    <3>1. SUFFICES ASSUME NEW i \in DOMAIN gol'
                   PROVE  \/ i \in DOMAIN gol /\ gol'[i] = gol[i]
                          \/ \E j \in DOMAIN golNew : gol'[i] = golNew[j]
      OBVIOUS
    <3>2. \/ i \in DOMAIN golOld /\ gol'[i] = golOld[i]
          \/ i - Len(golOld) \in DOMAIN golNew /\ gol'[i] = golNew[i - Len(golOld)]
      BY <1>4, <1>6, <2>2
    <3>3. QED
      BY <1>6, <3>2
  <2>3. QED
    BY <1>1, <2>1, <2>2
<1>9. GatesKnown'
  <2>1. /\ \A i \in DOMAIN revNew : revNew[i] \subseteq known'
        /\ \A i \in DOMAIN golNew : golNew[i] \subseteq known'
        /\ known \subseteq known'
    BY <1>1 DEF Range
  <2>2. QED
    BY <1>1, <1>7, <1>8, <2>1 DEF TInv, GatesKnown
<1>10. SmallCuts'
  <2>1. SUFFICES ASSUME res = NoMatch, NEW j \in DOMAIN rev'
                 PROVE  Cardinality(rev'[j]) <= minCheckSize
    BY <1>1 DEF SmallCuts
  <2>2. \A i \in DOMAIN revNew : revNew[i] \in revSets
    BY <1>4
  <2>3. \A i \in DOMAIN rev : Cardinality(rev[i]) <= minCheckSize
    BY <2>1 DEF TInv, SmallCuts
  <2>4. QED
    BY <1>5, <1>7, <2>2, <2>3
<1>11. CutsTried'
  <2>1. rev' \in Seq(SUBSET OldGates)
    BY DEF IInv, ListsRight
  <2>2. \A j \in DOMAIN rev' : ~(j < k')
    BY <1>1, <2>1
  <2>3. QED
    BY <1>1, <2>2 DEF CutsTried
<1>12. QED
  BY <1>1, <1>9, <1>10, <1>11 DEF TInv, CallsRight, PartnersRight, WaysAhead

(* What does not change while the lists stay.                              *)
LEMMA CutsKept ==
  ASSUME TInv, UNCHANGED <<inputs, level, minCheckSize, lists, res>>
  PROVE  /\ GatesKnown' /\ SmallCuts'
         /\ UNCHANGED <<nl, sim, level, dupOf, rev, gol, oldMax>>
<1>1. UNCHANGED <<nl, sim, level, minCheckSize, dups, dupOf, rev, gol, oldMax, known, res>>
  BY DEF inputs, lists
<1>2. QED
  BY <1>1 DEF TInv, GatesKnown, SmallCuts

(* At the first pair each way is ahead.                                    *)
LEMMA NextCutTries == ASSUME IInv, TInv, IInv', NextCut PROVE TInv'
<1>1. /\ pc = "cut" /\ pc' = "pair" /\ stack' = <<>>
      /\ at' = [Start EXCEPT !.left = Cardinality(rev[k])]
      /\ UNCHANGED <<inputs, level, minCheckSize, lists, res>> /\ k' = k
  BY DEF NextCut
<1>2. /\ GatesKnown' /\ SmallCuts'
      /\ UNCHANGED <<nl, sim, level, dupOf, rev, gol, oldMax>> /\ res' = res
  BY <1>1, CutsKept
<1>3. at'.index = 1 /\ at'.consts = 0
  BY <1>1 DEF Start
<1>4. Chosen' = {} /\ DOMAIN stack' = {} /\ Len(stack') = 0
  BY <1>1, NothingChosen DEF Chosen
<1>5. CallsRight' /\ PartnersRight'
  <2>1. Chosen' \intersect nl'.consts = {}
    BY <1>4
  <2>2. QED
    BY <1>1, <1>3, <1>4, <2>1, FS_EmptySet DEF CallsRight, PartnersRight
<1>6. WaysAhead'
  <2>1. ASSUME NEW m, NEW h, NEW idx, Way(m, h, idx)' PROVE Ahead(idx)'
    <3>1. idx \in [rev'[k'] \ {h} -> 1 .. Len(CandPairs')]
      BY <2>1 DEF Way
    <3>2. \A x \in Range(idx) : ~(x < at'.index)
      BY <1>3, <3>1 DEF Range
    <3>3. Calls(stack', Len(stack')) = {}
      BY <1>4 DEF Calls
    <3>4. QED
      BY <3>2, <3>3 DEF Ahead
  <2>2. QED
    BY <1>1, <2>1 DEF WaysAhead
<1>7. CutsTried'
  <2>1. \A j : NoneRight(j)' <=> NoneRight(j)
    BY <1>2, PairingsKept
  <2>2. QED
    BY <1>1, <1>2, <2>1 DEF TInv, CutsTried
<1>8. QED
  BY <1>2, <1>5, <1>6, <1>7 DEF TInv

(* No cut is left: none is too large for the first minCheckSize.           *)
LEMMA NoMoreCutsTries == ASSUME IInv, TInv, NoMoreCuts PROVE TInv'
<1>1. /\ pc = "cut" /\ pc' = "end"
      /\ k <= Len(rev) => Cardinality(rev[k]) > Max({checkSize, minCheckSize})
      /\ UNCHANGED <<inputs, level, minCheckSize, lists, res>>
  BY DEF NoMoreCuts
<1>2. /\ GatesKnown' /\ SmallCuts'
      /\ UNCHANGED <<nl, sim, level, dupOf, rev, gol, oldMax>> /\ res' = res
  BY <1>1, CutsKept
<1>3. /\ ListsRight /\ k \in Nat \ {0} /\ checkSize \in Nat /\ minCheckSize \in Nat
      /\ rev \in Seq(SUBSET OldGates)
  BY <1>1 DEF IInv, ListsRight, BetweenCuts, LevelRight
<1>4. ASSUME res = NoMatch, NEW j \in DOMAIN rev PROVE j < k
  <2>1. j \in Nat /\ j <= Len(rev) /\ Len(rev) \in Nat
    BY <1>3
  <2>2. SUFFICES ASSUME k <= Len(rev) PROVE FALSE
    BY <1>3, <2>1
  <2>3. k \in DOMAIN rev
    BY <1>3, <2>1, <2>2
  <2>4. Cardinality(rev[k]) <= minCheckSize
    BY <1>4, <2>3 DEF TInv, SmallCuts
  <2>5. Cardinality(rev[k]) \in Nat
    <3>1. rev[k] \in SUBSET Gates
      BY <1>3, <2>3, CutsAreGates
    <3>2. QED
      BY <3>1, GateSets
  <2>6. /\ Max({checkSize, minCheckSize}) \in Nat
        /\ Max({checkSize, minCheckSize}) = IF checkSize > minCheckSize THEN checkSize
                                            ELSE minCheckSize
    BY <1>3, MaxOfTwo
  <2>7. Cardinality(rev[k]) > Max({checkSize, minCheckSize})
    BY <1>1, <2>2
  <2>8. QED
    BY <1>3, <2>4, <2>5, <2>6, <2>7
<1>5. CutsTried'
  <2>1. \A j : NoneRight(j)' <=> NoneRight(j)
    BY <1>2, PairingsKept
  <2>2. QED
    BY <1>1, <1>2, <1>4, <2>1 DEF TInv, CutsTried
<1>6. QED
  BY <1>1, <1>2, <1>5 DEF TInv, CallsRight, PartnersRight, WaysAhead

(* A match ends it.                                                        *)
LEMMA MatchedTries == ASSUME IInv, TInv, Matched PROVE TInv'
<1>1. /\ pc = "return" /\ pc' = "end"
      /\ res' = [pairs |-> [h \in rev[k] |-> mapping[h]], dups |-> dupOf]
      /\ UNCHANGED <<nl, rev, gol, known>>
  BY DEF Matched, inputs, lists
<1>2. res' # NoMatch
  <2>1. k \in DOMAIN rev
    BY <1>1 DEF IInv, StackRight
  <2>2. rev[k] # {}
    BY <2>1, CutsAreGates DEF IInv
  <2> DEFINE q == [h \in rev[k] |-> mapping[h]]
  <2>3. DOMAIN q = rev[k] /\ res'.pairs = q
    BY <1>1
  <2> HIDE DEF q
  <2>4. q # <<>>
    BY <2>2, <2>3
  <2>5. NoMatch.pairs = <<>>
    BY DEF NoMatch
  <2>6. QED
    BY <2>3, <2>4, <2>5
<1>3. GatesKnown'
  BY <1>1 DEF TInv, GatesKnown
<1>4. QED
  BY <1>1, <1>2, <1>3
     DEF TInv, SmallCuts, CallsRight, PartnersRight, WaysAhead, CutsTried

(* After the first call returned no way is left.                           *)
LEMMA NotMatchedTries == ASSUME IInv, TInv, NotMatched PROVE TInv'
<1>1. /\ pc = "return" /\ stack = <<>> /\ ~found /\ k' = k + 1 /\ pc' = "cut"
      /\ UNCHANGED <<inputs, level, minCheckSize, lists, res>>
  BY DEF NotMatched
<1>2. /\ GatesKnown' /\ SmallCuts'
      /\ UNCHANGED <<nl, sim, level, dupOf, rev, gol, oldMax>> /\ res' = res
  BY <1>1, CutsKept
<1>3. k \in DOMAIN rev /\ rev \in Seq(SUBSET OldGates)
  BY <1>1 DEF IInv, StackRight, ListsRight
<1>4. ASSUME ReadsNoOne(nl), res = NoMatch PROVE NoneRight(k)
  <2>1. SUFFICES ASSUME NEW m, RightPairing(k, m) PROVE FALSE
    BY DEF NoneRight
  <2>2. PICK h, idx : Way(m, h, idx)
    BY <1>1, <2>1, WayExists
  <2>3. Later(idx)
    BY <1>1, <1>4, <2>2 DEF TInv, WaysAhead
  <2>4. DOMAIN stack = {}
    BY <1>1
  <2>5. QED
    BY <2>3, <2>4 DEF Later
<1>5. \A j \in DOMAIN rev : j < k' => j < k \/ j = k
  BY <1>1, <1>3
<1>6. CutsTried'
  <2>1. \A j : NoneRight(j)' <=> NoneRight(j)
    BY <1>2, PairingsKept
  <2>2. QED
    BY <1>1, <1>2, <1>4, <1>5, <2>1 DEF TInv, CutsTried
<1>7. QED
  BY <1>1, <1>2, <1>6 DEF TInv, CallsRight, PartnersRight, WaysAhead

(* Between two levels nothing is promised.                                 *)
LEMMA EndLevelTries == ASSUME TInv, EndLevel PROVE TInv'
<1>1. /\ pc' \in {"level", "done"} /\ UNCHANGED <<nl, minCheckSize, rev, gol, known, res>>
  BY DEF EndLevel, inputs, lists
<1>2. QED
  BY <1>1 DEF TInv, GatesKnown, SmallCuts, CallsRight, PartnersRight, WaysAhead, CutsTried

-----------------------------------------------------------------------------
(* So do those of the recursion.                                           *)

(* A call keeps the ways, and what was found of the other cuts.            *)
LEMMA CallTries ==
  ASSUME IInv, TInv, pc \in {"pair", "return"}, pc' \in {"pair", "return"},
         UNCHANGED <<inputs, level, minCheckSize, lists, k, checkSize, cuts, phase, res>>
  PROVE  /\ GatesKnown' /\ SmallCuts' /\ CutsTried' /\ CandPairs' = CandPairs
         /\ nl' = nl /\ res' = res
         /\ \A m, h, idx : Way(m, h, idx)' <=> Way(m, h, idx)
<1>1. /\ GatesKnown' /\ SmallCuts'
      /\ UNCHANGED <<nl, sim, level, dupOf, rev, gol, oldMax>> /\ res' = res /\ k' = k
  BY CutsKept
<1>2. CandPairs' = CandPairs
  BY CallKeeps
<1>3. CutsTried'
  <2>1. \A j : NoneRight(j)' <=> NoneRight(j)
    BY <1>1, PairingsKept
  <2>2. QED
    BY <1>1, <2>1 DEF TInv, CutsTried
<1>4. ASSUME NEW m, NEW h, NEW idx PROVE Way(m, h, idx)' <=> Way(m, h, idx)
  <2>1. RightPairing(k, m)' <=> RightPairing(k, m)
    BY <1>1 DEF RightPairing, Pairings, Complete, Low
  <2>2. QED
    BY <1>1, <1>2, <2>1 DEF Way
<1>5. QED
  BY <1>1, <1>2, <1>3, <1>4

(* The calls made so far, when they stay.                                  *)
LEMMA CallsKept ==
  ASSUME TInv, pc \in {"pair", "return"}, stack' = stack, CandPairs' = CandPairs, nl' = nl,
         at'.consts = at.consts,
         at.index \in Nat, at'.index \in Nat, at.index <= at'.index,
         pc' = "return" \/ pc = "pair",
         \A j \in DOMAIN stack : stack[j].index \in Nat
  PROVE  CallsRight'
<1>1. Chosen' = Chosen /\ \A j : UpTo(CandPairs, stack, j)' = UpTo(CandPairs, stack, j)
  BY DEF Chosen, UpTo
<1>2. /\ pc = "pair" => at.consts = Cardinality(Chosen \intersect nl.consts)
      /\ \A j \in DOMAIN stack :
           /\ stack[j].consts = Cardinality(UpTo(CandPairs, stack, j - 1) \intersect nl.consts)
           /\ stack[j].index < at.index
           /\ \A i \in 1 .. (j - 1) : stack[i].index < stack[j].index
  BY DEF TInv, CallsRight
<1>3. ASSUME NEW j \in DOMAIN stack PROVE stack[j].index < at'.index
  <2>1. stack[j].index < at.index /\ stack[j].index \in Nat
    BY <1>2
  <2>2. QED
    BY <2>1
<1>4. ASSUME NEW j \in DOMAIN stack
      PROVE  /\ stack[j].consts = Cardinality(UpTo(CandPairs, stack, j - 1)' \intersect nl.consts)
             /\ \A i \in 1 .. (j - 1) : stack[i].index < stack[j].index
  BY <1>1, <1>2
<1>5. QED
  BY <1>1, <1>2, <1>3, <1>4 DEF CallsRight

(* What the calls are.                                                     *)
LEMMA CallTypes ==
  ASSUME IInv, pc \in {"pair", "return"}
  PROVE  /\ \A j \in DOMAIN stack : /\ stack[j].index \in Nat
                                    /\ stack[j].index \in 1 .. Len(CandPairs)
         /\ DOMAIN stack = 1 .. Len(stack) /\ Len(stack) \in Nat
         /\ at.index \in Nat /\ at.consts \in Nat /\ at.left \in Nat
<1> DEFINE C == [index : 1 .. Len(CandPairs), left : Nat, consts : Nat]
<1>1. stack \in Seq(C) /\ at \in [index : Nat \ {0}, left : Nat, consts : Nat]
  BY DEF IInv, StackRight
<1>2. Len(CandPairs) \in Nat
  BY CandidatesRight DEF IInv
<1>3. at.index \in Nat /\ at.consts \in Nat /\ at.left \in Nat
  BY <1>1
<1>4. \A c \in C : c.index \in Nat /\ c.index \in 1 .. Len(CandPairs)
  BY <1>2
<1> HIDE DEF C
<1>5. QED
  BY <1>1, <1>3, <1>4

(* The last gate: when it is found nowhere, no way was ahead.              *)
LEMMA TryLastGateTries == ASSUME IInv, TInv, TryLastGate PROVE TInv'
<1>1. /\ pc = "pair" /\ pc' = "return"
      /\ (~found') => mapping' = mapping
      /\ UNCHANGED <<inputs, level, minCheckSize, lists, k, checkSize, cuts, phase, res>>
      /\ UNCHANGED <<at, stack>>
  BY DEF TryLastGate
<1>2. /\ GatesKnown' /\ SmallCuts' /\ CutsTried' /\ CandPairs' = CandPairs
      /\ nl' = nl /\ res' = res
      /\ \A m, h, idx : Way(m, h, idx)' <=> Way(m, h, idx)
  BY <1>1, CallTries
<1>3. CallsRight'
  <2>1. at.index \in Nat /\ \A j \in DOMAIN stack : stack[j].index \in Nat
    BY <1>1, CallTypes
  <2>2. at.index <= at'.index /\ at'.index \in Nat /\ at'.consts = at.consts
    BY <1>1, <2>1
  <2>3. QED
    BY <1>1, <1>2, <2>1, <2>2, CallsKept
<1>4. PartnersRight'
  BY <1>1, <1>2 DEF TInv, PartnersRight
<1>5. WaysAhead'
  <2>1. ASSUME ReadsNoOne(nl), res = NoMatch, ~found', NEW m, NEW h, NEW idx, Way(m, h, idx)
        PROVE  Later(idx)
    <3>1. Ahead(idx) \/ Later(idx)
      BY <1>1, <2>1 DEF TInv, WaysAhead
    <3>2. ~Ahead(idx)
      BY <2>1, LastGateFinds
    <3>3. QED
      BY <3>1, <3>2
  <2>2. \A idx : Later(idx)' <=> Later(idx)
    BY <1>1 DEF Later, Calls
  <2>3. ReadsNoOne(nl)' <=> ReadsNoOne(nl)
    BY <1>2
  <2>4. QED
    BY <1>1, <1>2, <2>1, <2>2, <2>3 DEF WaysAhead
<1>6. QED
  BY <1>2, <1>3, <1>4, <1>5 DEF TInv

(* No pair left: no way was ahead.                                         *)
LEMMA NoPairLeftTries == ASSUME IInv, TInv, NoPairLeft PROVE TInv'
<1>1. /\ pc = "pair" /\ pc' = "return" /\ mapping' = mapping
      /\ UNCHANGED <<inputs, level, minCheckSize, lists, k, checkSize, cuts, phase, res>>
      /\ UNCHANGED <<at, stack>>
  BY DEF NoPairLeft
<1>2. /\ GatesKnown' /\ SmallCuts' /\ CutsTried' /\ CandPairs' = CandPairs
      /\ nl' = nl /\ res' = res
      /\ \A m, h, idx : Way(m, h, idx)' <=> Way(m, h, idx)
  BY <1>1, CallTries
<1>3. CallsRight'
  <2>1. at.index \in Nat /\ \A j \in DOMAIN stack : stack[j].index \in Nat
    BY <1>1, CallTypes
  <2>2. at.index <= at'.index /\ at'.index \in Nat /\ at'.consts = at.consts
    BY <1>1, <2>1
  <2>3. QED
    BY <1>1, <1>2, <2>1, <2>2, CallsKept
<1>4. PartnersRight'
  BY <1>1, <1>2 DEF TInv, PartnersRight
<1>5. WaysAhead'
  <2>1. ASSUME ReadsNoOne(nl), res = NoMatch, NEW m, NEW h, NEW idx, Way(m, h, idx)
        PROVE  Later(idx)
    BY <1>1, <2>1, NoPairLeftNone DEF TInv, WaysAhead
  <2>2. \A idx : Later(idx)' <=> Later(idx)
    BY <1>1 DEF Later, Calls
  <2>3. ReadsNoOne(nl)' <=> ReadsNoOne(nl)
    BY <1>2
  <2>4. QED
    BY <1>1, <1>2, <2>1, <2>2, <2>3 DEF WaysAhead
<1>6. QED
  BY <1>2, <1>3, <1>4, <1>5 DEF TInv

(* A pair passed over is none of a way ahead.                              *)
LEMMA SkipPairTries == ASSUME IInv, TInv, SkipPair PROVE TInv'
<1>1. /\ pc = "pair" /\ pc' = "pair" /\ mapping' = mapping /\ stack' = stack
      /\ at' = [at EXCEPT !.index = @ + 1]
      /\ UNCHANGED <<inputs, level, minCheckSize, lists, k, checkSize, cuts, phase, res>>
  BY DEF SkipPair
<1>2. /\ GatesKnown' /\ SmallCuts' /\ CutsTried' /\ CandPairs' = CandPairs
      /\ nl' = nl /\ res' = res
      /\ \A m, h, idx : Way(m, h, idx)' <=> Way(m, h, idx)
  BY <1>1, CallTries
<1>3. /\ at.index \in Nat /\ \A j \in DOMAIN stack : stack[j].index \in Nat
      /\ at'.index = at.index + 1 /\ at'.consts = at.consts
  <2>1. at \in [index : Nat \ {0}, left : Nat, consts : Nat]
    BY <1>1 DEF IInv, StackRight
  <2>2. QED
    BY <1>1, <2>1, CallTypes
<1>4. CallsRight'
  <2>1. at.index <= at'.index /\ at'.index \in Nat
    BY <1>3
  <2>2. QED
    BY <1>1, <1>2, <1>3, <2>1, CallsKept
<1>5. PartnersRight'
  BY <1>1, <1>2 DEF TInv, PartnersRight
<1>6. WaysAhead'
  <2>1. ASSUME ReadsNoOne(nl), res = NoMatch, NEW m, NEW h, NEW idx, Way(m, h, idx)
        PROVE  Ahead(idx)' \/ Later(idx)'
    <3>1. Ahead(idx) \/ Later(idx)
      BY <1>1, <2>1 DEF TInv, WaysAhead
    <3>2. Later(idx) => Later(idx)'
      BY <1>1 DEF Later, Calls
    <3>3. ASSUME Ahead(idx) PROVE Ahead(idx)'
      <4>1. at.index \notin Range(idx)
        BY <2>1, <3>3, SkipsNone
      <4>2. Range(idx) \subseteq Nat
        <5>1. idx \in [rev[k] \ {h} -> 1 .. Len(CandPairs)] /\ Len(CandPairs) \in Nat
          BY <2>1, CandidatesRight DEF Way, IInv
        <5>2. QED
          BY <5>1 DEF Range
      <4>3. \A x \in Range(idx) : x < at'.index => x < at.index
        BY <1>3, <4>1, <4>2
      <4>4. Calls(stack', Len(stack')) = Calls(stack, Len(stack))
        BY <1>1 DEF Calls
      <4>5. QED
        BY <3>3, <4>3, <4>4 DEF Ahead
    <3>4. QED
      BY <3>1, <3>2, <3>3
  <2>2. ReadsNoOne(nl)' <=> ReadsNoOne(nl)
    BY <1>2
  <2>3. QED
    BY <1>1, <1>2, <2>1, <2>2 DEF WaysAhead
<1>7. QED
  BY <1>2, <1>4, <1>5, <1>6 DEF TInv

(* A pair selected: a way with it stays ahead, one without it comes after  *)
(* the call has unselected it.                                             *)
LEMMA SelectPairTries == ASSUME IInv, TInv, SelectPair PROVE TInv'
<1> DEFINE list == CandPairs
           a == list[at.index][1]
           b == list[at.index][2]
           n == Len(stack)
           C == [index : 1 .. Len(list), left : Nat, consts : Nat]
<1>1. /\ pc = "pair" /\ pc' = "pair" /\ at.index <= Len(list)
      /\ ~Mapped(a) /\ ~Mapped(b)
      /\ mapping' = Joined([g \in {a, b} |-> IF g = a THEN b ELSE a], mapping)
      /\ stack' = Append(stack, at)
      /\ at' = [index |-> at.index + 1, left |-> at.left - 1,
                consts |-> IF b \in nl.consts THEN at.consts + 1 ELSE at.consts]
      /\ UNCHANGED <<inputs, level, minCheckSize, lists, k, checkSize, cuts, phase, res>>
  BY DEF SelectPair
<1>2. /\ GatesKnown' /\ SmallCuts' /\ CutsTried' /\ list' = list
      /\ nl' = nl /\ res' = res
      /\ \A m, h, idx : Way(m, h, idx)' <=> Way(m, h, idx)
  BY <1>1, CallTries
<1>3. /\ \A j \in DOMAIN stack : stack[j].index \in Nat /\ stack[j].index \in 1 .. Len(list)
      /\ DOMAIN stack = 1 .. n /\ n \in Nat
      /\ at.index \in Nat /\ at.consts \in Nat
  BY <1>1, CallTypes
<1>4. /\ stack \in Seq(C) /\ at.index \in Nat \ {0} /\ nl \in Netlists
      /\ mapping = [g \in Chosen |-> mapping[g]]
      /\ Len(list) \in Nat
  <2>1. at \in [index : Nat \ {0}, left : Nat, consts : Nat]
    BY <1>1 DEF IInv, StackRight
  <2>2. QED
    BY <1>1, <2>1, CandidatesRight DEF IInv, StackRight, Searching, ListsRight
<1>5. at.index \in 1 .. Len(list)
  BY <1>1, <1>4
<1>6. /\ a \in OldGates /\ b \in GolGates /\ OldGates \intersect GolGates = {}
      /\ nl.consts \subseteq GolGates /\ GolGates \subseteq Gates
  BY <1>4, <1>5, CandidatesRight, CutMatchAssumption, Types DEF IInv, Gates
<1>7. DOMAIN mapping = Chosen /\ a \notin Chosen /\ b \notin Chosen
  <2>1. DOMAIN mapping = Chosen
    BY <1>4
  <2>2. QED
    BY <1>1, <2>1 DEF Mapped
<1>8. /\ \A j \in 0 .. n : UpTo(list, stack', j) = UpTo(list, stack, j)
      /\ Chosen' = Chosen \union {a, b} /\ Chosen = UpTo(list, stack, n)
  <2> DEFINE c == at
             l == list
             calls == stack
  <2>1. stack' = Append(calls, c) /\ l[c.index][1] = a /\ l[c.index][2] = b
    BY <1>1
  <2>2. Chosen' = UpTo(l, stack', Len(stack')) /\ Chosen = UpTo(l, stack, Len(stack))
    BY <1>2 DEF Chosen
  <2>3. calls \in Seq(C)
    BY <1>4
  <2> HIDE DEF c, l, calls, C
  <2>4. /\ \A j \in 0 .. Len(calls) : UpTo(l, Append(calls, c), j) = UpTo(l, calls, j)
        /\ UpTo(l, Append(calls, c), Len(Append(calls, c))) =
             UpTo(l, calls, Len(calls)) \union {l[c.index][1], l[c.index][2]}
    BY <2>3, OneMoreCall
  <2>5. QED
    BY <2>1, <2>2, <2>4 DEF l, calls
<1>9. /\ DOMAIN stack' = 1 .. (n + 1) /\ Len(stack') = n + 1 /\ stack'[n + 1] = at
      /\ \A j \in 1 .. n : stack'[j] = stack[j]
  BY <1>1, <1>4
<1>10. /\ at'.index = at.index + 1
       /\ at'.consts = IF b \in nl.consts THEN at.consts + 1 ELSE at.consts
  BY <1>1
<1>11. /\ at.consts = Cardinality(Chosen \intersect nl.consts)
       /\ \A j \in DOMAIN stack :
            /\ stack[j].consts = Cardinality(UpTo(list, stack, j - 1) \intersect nl.consts)
            /\ stack[j].index < at.index
            /\ \A i \in 1 .. (j - 1) : stack[i].index < stack[j].index
  BY <1>1 DEF TInv, CallsRight
<1>12. \A j \in DOMAIN stack : list[stack[j].index][1] \in Chosen
  BY <1>3, <1>8 DEF UpTo
<1> HIDE DEF a, b, list, n, C
<1>13. at'.consts = Cardinality(Chosen' \intersect nl.consts)
  <2> DEFINE S == Chosen \intersect nl.consts
  <2>1. S \in SUBSET Gates /\ b \notin S
    BY <1>6, <1>7
  <2>2. Chosen' \intersect nl.consts = IF b \in nl.consts THEN S \union {b} ELSE S
    BY <1>6, <1>8
  <2> HIDE DEF S
  <2>3. Cardinality(S \union {b}) = Cardinality(S) + 1
    BY <2>1, GateSets, FS_AddElement
  <2>4. QED
    BY <1>10, <1>11, <2>2, <2>3 DEF S
<1>14. CallsRight'
  <2>1. ASSUME NEW j \in DOMAIN stack'
        PROVE  /\ stack'[j].consts = Cardinality(UpTo(list, stack', j - 1) \intersect nl.consts)
               /\ stack'[j].index < at'.index
               /\ \A i \in 1 .. (j - 1) : stack'[i].index < stack'[j].index
    <3>1. j - 1 \in 0 .. n /\ (j \in 1 .. n \/ j = n + 1)
      BY <1>3, <1>9
    <3>2. UpTo(list, stack', j - 1) = UpTo(list, stack, j - 1)
      BY <1>8, <3>1
    <3>3. \A i \in 1 .. (j - 1) : i \in 1 .. n /\ stack'[i] = stack[i]
      BY <1>3, <1>9, <3>1
    <3>4. CASE j \in 1 .. n
      <4>1. stack'[j] = stack[j] /\ j \in DOMAIN stack /\ stack[j].index \in Nat
        BY <1>3, <1>9, <3>4
      <4>2. stack[j].index < at.index
        BY <1>11, <4>1
      <4>3. stack'[j].index < at'.index
        BY <1>3, <1>10, <4>1, <4>2
      <4>4. QED
        BY <1>11, <3>2, <3>3, <4>1, <4>3
    <3>5. CASE j = n + 1
      <4>1. stack'[j] = at /\ j - 1 = n
        BY <1>3, <1>9, <3>5
      <4>2. at.index < at'.index
        BY <1>3, <1>10
      <4>3. \A i \in 1 .. n : stack'[i].index < at.index
        BY <1>3, <1>9, <1>11
      <4>4. QED
        BY <1>8, <1>11, <3>2, <4>1, <4>2, <4>3
    <3>6. QED
      BY <3>1, <3>4, <3>5
  <2>2. QED
    BY <1>2, <1>13, <2>1 DEF CallsRight, list
<1>15. PartnersRight'
  <2> DEFINE new == [g \in {a, b} |-> IF g = a THEN b ELSE a]
  <2>1. \A x \in {a} \union Chosen : mapping'[x] = IF x = a THEN b ELSE mapping[x]
    <3>1. mapping' = [x \in DOMAIN new \union DOMAIN mapping |->
                        IF x \in DOMAIN new THEN new[x] ELSE mapping[x]]
      BY <1>1 DEF Joined
    <3>2. DOMAIN new = {a, b} /\ new[a] = b
      OBVIOUS
    <3> HIDE DEF new
    <3>3. QED
      BY <1>7, <3>1, <3>2
  <2>2. ASSUME NEW j \in DOMAIN stack'
        PROVE  mapping'[list[stack'[j].index][1]] = list[stack'[j].index][2]
    <3>1. j \in 1 .. n \/ j = n + 1
      BY <1>3, <1>9
    <3>2. CASE j \in 1 .. n
      <4>1. stack'[j] = stack[j] /\ j \in DOMAIN stack
        BY <1>3, <1>9, <3>2
      <4>2. list[stack[j].index][1] \in Chosen
        BY <1>12, <4>1
      <4>3. mapping[list[stack[j].index][1]] = list[stack[j].index][2]
        BY <1>1, <4>1 DEF TInv, PartnersRight, list
      <4>4. QED
        BY <1>7, <2>1, <4>1, <4>2, <4>3
    <3>3. CASE j = n + 1
      <4>1. stack'[j] = at
        BY <1>9, <3>3
      <4>2. QED
        BY <2>1, <4>1 DEF a, b
    <3>4. QED
      BY <3>1, <3>2, <3>3
  <2>3. QED
    BY <1>2, <2>2 DEF PartnersRight, list
<1>16. WaysAhead'
  <2>1. ASSUME ReadsNoOne(nl), res = NoMatch, NEW m, NEW h, NEW idx, Way(m, h, idx)
        PROVE  Ahead(idx)' \/ Later(idx)'
    <3>1. Ahead(idx) \/ Later(idx)
      BY <1>1, <2>1 DEF TInv, WaysAhead
    <3>2. \A j \in 0 .. n : Calls(stack', j) = Calls(stack, j)
      <4>1. \A j \in 0 .. n : \A i \in 1 .. j : stack'[i] = stack[i]
        BY <1>3, <1>9
      <4>2. QED
        BY <4>1, Zenon DEF Calls
    <3>3. Calls(stack', n + 1) = Calls(stack, n) \union {at.index}
      <4>1. \A i : i \in 1 .. (n + 1) <=> i \in 1 .. n \/ i = n + 1
        BY <1>3
      <4>2. QED
        BY <1>9, <4>1 DEF Calls
    <3>4. Range(idx) \subseteq Nat
      <4>1. idx \in [rev[k] \ {h} -> 1 .. Len(list)]
        BY <2>1 DEF Way, list
      <4>2. QED
        BY <1>4, <4>1 DEF Range
    <3>5. ASSUME Later(idx) PROVE Later(idx)'
      <4>1. PICK j \in DOMAIN stack :
              /\ Calls(stack, j - 1) \subseteq Range(idx)
              /\ \A x \in Range(idx) : x <= stack[j].index => x \in Calls(stack, j - 1)
        BY <3>5 DEF Later
      <4>2. j \in DOMAIN stack' /\ stack'[j] = stack[j] /\ j - 1 \in 0 .. n
        BY <1>3, <1>9
      <4>3. Calls(stack', j - 1) = Calls(stack, j - 1)
        BY <3>2, <4>2 DEF Calls
      <4>4. QED
        BY <4>1, <4>2, <4>3 DEF Later
    <3>6. ASSUME Ahead(idx), at.index \in Range(idx) PROVE Ahead(idx)'
      <4>1. Calls(stack', Len(stack')) = Calls(stack, n) \union {at.index}
        BY <1>9, <3>3 DEF Calls
      <4>2. /\ Calls(stack, n) \subseteq Range(idx)
            /\ \A x \in Range(idx) : x < at.index => x \in Calls(stack, n)
        BY <3>6 DEF Ahead, n
      <4>3. \A x \in Range(idx) : x < at'.index => x < at.index \/ x = at.index
        BY <1>3, <1>10, <3>4
      <4>4. QED
        BY <3>6, <4>1, <4>2, <4>3 DEF Ahead
    <3>7. ASSUME Ahead(idx), at.index \notin Range(idx) PROVE Later(idx)'
      <4>1. /\ Calls(stack, n) \subseteq Range(idx)
            /\ \A x \in Range(idx) : x < at.index => x \in Calls(stack, n)
        BY <3>7 DEF Ahead, n
      <4>2. n + 1 \in DOMAIN stack' /\ stack'[n + 1].index = at.index /\ (n + 1) - 1 = n
        BY <1>3, <1>9
      <4>3. \A x \in Range(idx) : x <= at.index => x < at.index
        BY <1>3, <3>4, <3>7
      <4>4. Calls(stack', n) = Calls(stack, n)
        BY <1>3, <3>2
      <4>5. PICK j \in DOMAIN stack' : j = n + 1
        BY <4>2
      <4>6. Calls(stack', j - 1) = Calls(stack, n)
        BY <4>2, <4>4, <4>5 DEF Calls
      <4>7. QED
        BY <4>1, <4>2, <4>3, <4>5, <4>6 DEF Later
    <3>8. QED
      BY <3>1, <3>5, <3>6, <3>7
  <2>2. ReadsNoOne(nl)' <=> ReadsNoOne(nl)
    BY <1>2
  <2>3. QED
    BY <1>1, <1>2, <2>1, <2>2 DEF WaysAhead
<1>17. QED
  BY <1>2, <1>14, <1>15, <1>16 DEF TInv

(* A pair unselected: a way without it, that has those of the calls        *)
(* before, is ahead again.                                                 *)
LEMMA UnselectTries == ASSUME IInv, TInv, Unselect PROVE TInv'
<1> DEFINE list == CandPairs
           call == Last(stack)
           a == list[call.index][1]
           b == list[call.index][2]
           n == Len(stack)
           X == UpTo(list, stack, n - 1)
           C == [index : 1 .. Len(list), left : Nat, consts : Nat]
<1>1. /\ pc = "return" /\ stack # <<>>
      /\ mapping' = IF found THEN mapping ELSE [g \in DOMAIN mapping \ {a, b} |-> mapping[g]]
      /\ at' = [call EXCEPT !.index = @ + 1]
      /\ pc' = IF found THEN "return" ELSE "pair"
      /\ stack' = Front(stack) /\ found' = found
      /\ UNCHANGED <<inputs, level, minCheckSize, lists, k, checkSize, cuts, phase, res>>
  BY DEF Unselect
<1>2. /\ GatesKnown' /\ SmallCuts' /\ CutsTried' /\ list' = list
      /\ nl' = nl /\ res' = res
      /\ \A m, h, idx : Way(m, h, idx)' <=> Way(m, h, idx)
  BY <1>1, CallTries
<1>3. /\ \A j \in DOMAIN stack : stack[j].index \in Nat /\ stack[j].index \in 1 .. Len(list)
      /\ DOMAIN stack = 1 .. n /\ n \in Nat
  BY <1>1, CallTypes
<1>4. /\ stack \in Seq(C) /\ Len(list) \in Nat
      /\ ~found => mapping = [g \in Chosen |-> mapping[g]]
      /\ \A j \in DOMAIN stack :
           /\ list[stack[j].index][1] \notin UpTo(list, stack, j - 1)
           /\ list[stack[j].index][2] \notin UpTo(list, stack, j - 1)
  BY <1>1, CandidatesRight DEF IInv, StackRight, Searching
<1>5. /\ Len(stack') = n - 1 /\ n - 1 \in Nat /\ DOMAIN stack' = 1 .. (n - 1)
      /\ \A i \in 1 .. (n - 1) : stack'[i] = stack[i]
      /\ \A j \in 0 .. (n - 1) : UpTo(list, stack', j) = UpTo(list, stack, j)
      /\ Chosen = X \union {a, b}
  <2> DEFINE t == list
             calls == stack
  <2>1. calls \in Seq(C) /\ calls # <<>>
    BY <1>1, <1>4
  <2> HIDE DEF C, t, calls
  <2>2. /\ Front(calls) \in Seq(C) /\ Len(Front(calls)) = Len(calls) - 1
        /\ Len(calls) - 1 \in Nat
        /\ \A i \in 1 .. (Len(calls) - 1) : Front(calls)[i] = calls[i]
        /\ \A j \in 0 .. (Len(calls) - 1) : UpTo(t, Front(calls), j) = UpTo(t, calls, j)
        /\ UpTo(t, calls, Len(calls)) =
             UpTo(t, calls, Len(calls) - 1) \union {t[Last(calls).index][1], t[Last(calls).index][2]}
    BY <2>1, OneCallFewer
  <2>3. DOMAIN Front(calls) = 1 .. (Len(calls) - 1)
    BY <2>2
  <2>4. QED
    BY <1>1, <2>2, <2>3 DEF t, calls, Chosen
<1>6. n \in DOMAIN stack /\ call = stack[n] /\ n - 1 \in 0 .. (n - 1)
  <2>1. call = stack[n]
    BY DEF Last
  <2> HIDE DEF call, n
  <2>2. QED
    BY <1>3, <1>5, <2>1
<1>7. Chosen' = X
  <2>1. Chosen' = UpTo(list, stack', Len(stack'))
    BY <1>2 DEF Chosen
  <2>2. QED
    BY <1>5, <1>6, <2>1
<1>8. at'.index = call.index + 1 /\ at'.consts = call.consts /\ call.index \in Nat
  <2>1. call \in C
    <3> HIDE DEF C, call
    <3>1. stack[n] \in C
      BY <1>4, <1>6
    <3>2. QED
      BY <1>6, <3>1
  <2> HIDE DEF call, list
  <2>2. QED
    BY <1>1, <1>4, <2>1 DEF list
<1>9. \A j \in DOMAIN stack :
        /\ stack[j].consts = Cardinality(UpTo(list, stack, j - 1) \intersect nl.consts)
        /\ stack[j].index < at.index
        /\ \A i \in 1 .. (j - 1) : stack[i].index < stack[j].index
  BY <1>1 DEF TInv, CallsRight
<1>10. \A j \in 1 .. (n - 1) : list[stack[j].index][1] \in X
  BY DEF UpTo
<1>11. a \notin X /\ b \notin X
  BY <1>4, <1>6
<1> HIDE DEF a, b, list, n, C, X, call
<1>12. CallsRight'
  <2>1. at'.consts = Cardinality(Chosen' \intersect nl.consts)
    BY <1>6, <1>7, <1>8, <1>9 DEF X
  <2>2. ASSUME NEW j \in DOMAIN stack'
        PROVE  /\ stack'[j].consts = Cardinality(UpTo(list, stack', j - 1) \intersect nl.consts)
               /\ stack'[j].index < at'.index
               /\ \A i \in 1 .. (j - 1) : stack'[i].index < stack'[j].index
    <3>1. j \in 1 .. (n - 1) /\ j - 1 \in 0 .. (n - 1) /\ j \in DOMAIN stack /\ stack'[j] = stack[j]
      BY <1>3, <1>5
    <3>2. UpTo(list, stack', j - 1) = UpTo(list, stack, j - 1)
      BY <1>5, <3>1
    <3>3. \A i \in 1 .. (j - 1) : stack'[i] = stack[i]
      BY <1>5, <3>1
    <3>4. stack[j].index < call.index
      BY <1>6, <1>9, <3>1
    <3>5. stack'[j].index < at'.index
      BY <1>3, <1>8, <3>1, <3>4
    <3>6. QED
      BY <1>9, <3>1, <3>2, <3>3, <3>5
  <2>3. QED
    BY <1>2, <2>1, <2>2 DEF CallsRight, list
<1>13. PartnersRight'
  <2>1. SUFFICES ASSUME ~found, NEW j \in DOMAIN stack'
                 PROVE  mapping'[list[stack'[j].index][1]] = list[stack'[j].index][2]
    BY <1>1, <1>2 DEF PartnersRight, list
  <2>2. j \in 1 .. (n - 1) /\ j \in DOMAIN stack /\ stack'[j] = stack[j]
    BY <1>3, <1>5
  <2>3. list[stack[j].index][1] \in X
    BY <1>10, <2>2
  <2>4. mapping[list[stack[j].index][1]] = list[stack[j].index][2]
    BY <1>1, <2>1, <2>2 DEF TInv, PartnersRight, list
  <2>5. DOMAIN mapping = Chosen
    BY <1>4, <2>1
  <2>6. \A x \in X : mapping'[x] = mapping[x]
    BY <1>1, <1>5, <1>11, <2>1, <2>5
  <2>7. QED
    BY <2>2, <2>3, <2>4, <2>6
<1>14. WaysAhead'
  <2>1. ASSUME ReadsNoOne(nl), res = NoMatch, ~found, NEW m, NEW h, NEW idx, Way(m, h, idx)
        PROVE  Ahead(idx)' \/ Later(idx)'
    <3>1. PICK j \in DOMAIN stack :
            /\ Calls(stack, j - 1) \subseteq Range(idx)
            /\ \A x \in Range(idx) : x <= stack[j].index => x \in Calls(stack, j - 1)
      BY <1>1, <2>1 DEF TInv, WaysAhead, Later
    <3>2. \A i \in 0 .. (n - 1) : Calls(stack', i) = Calls(stack, i)
      BY <1>5 DEF Calls
    <3>3. Range(idx) \subseteq Nat
      <4>1. idx \in [rev[k] \ {h} -> 1 .. Len(list)]
        BY <2>1 DEF Way, list
      <4>2. QED
        BY <1>4, <4>1 DEF Range
    <3>4. j \in 1 .. (n - 1) \/ j = n
      BY <1>3
    <3>5. CASE j \in 1 .. (n - 1)
      <4>1. j \in DOMAIN stack' /\ stack'[j] = stack[j] /\ j - 1 \in 0 .. (n - 1)
        BY <1>5, <3>5
      <4>2. Calls(stack', j - 1) = Calls(stack, j - 1)
        BY <3>2, <4>1 DEF Calls
      <4>3. QED
        BY <3>1, <4>1, <4>2 DEF Later
    <3>6. CASE j = n
      <4>1. Calls(stack', Len(stack')) = Calls(stack, n - 1)
        <5>1. Calls(stack', n - 1) = Calls(stack, n - 1)
          BY <1>5 DEF Calls
        <5>2. QED
          BY <1>5 DEF Calls
      <4>2. \A x \in Range(idx) : x < at'.index => x <= stack[j].index
        BY <1>6, <1>8, <3>3, <3>6
      <4>3. QED
        BY <3>1, <3>6, <4>1, <4>2 DEF Ahead
    <3>7. QED
      BY <3>4, <3>5, <3>6
  <2>2. ReadsNoOne(nl)' <=> ReadsNoOne(nl)
    BY <1>2
  <2>3. QED
    BY <1>1, <1>2, <2>1, <2>2 DEF WaysAhead
<1>15. QED
  BY <1>2, <1>12, <1>13, <1>14 DEF TInv

-----------------------------------------------------------------------------
(* The second invariant is inductive, given the first.                     *)
LEMMA TInvStep == ASSUME IInv, TInv, IInv', [Next]_vars PROVE TInv'
<1>1. CASE NextLevel
  BY <1>1, NextLevelTries
<1>2. CASE NextCut
  BY <1>2, NextCutTries
<1>3. CASE NoMoreCuts
  BY <1>3, NoMoreCutsTries
<1>4. CASE TryLastGate
  BY <1>4, TryLastGateTries
<1>5. CASE NoPairLeft
  BY <1>5, NoPairLeftTries
<1>6. CASE SkipPair
  BY <1>6, SkipPairTries
<1>7. CASE SelectPair
  BY <1>7, SelectPairTries
<1>8. CASE Unselect
  BY <1>8, UnselectTries
<1>9. CASE Matched
  BY <1>9, MatchedTries
<1>10. CASE NotMatched
  BY <1>10, NotMatchedTries
<1>11. CASE EndLevel
  BY <1>11, EndLevelTries
<1>12. CASE UNCHANGED vars
  <2>1. UNCHANGED <<inputs, level, minCheckSize, lists, res>>
        /\ UNCHANGED <<nl, rev, gol, known, k, dups, sim, mapping, at, stack, found, pc>>
    BY <1>12 DEF vars, inputs, lists, search
  <2>2. /\ GatesKnown' /\ SmallCuts'
        /\ UNCHANGED <<nl, sim, level, dupOf, rev, gol, oldMax>> /\ res' = res
    BY <2>1, CutsKept
  <2>3. \A j : NoneRight(j)' <=> NoneRight(j)
    BY <2>2, PairingsKept
  <2>4. CutsTried'
    BY <2>1, <2>2, <2>3 DEF TInv, CutsTried
  <2>5. CandPairs' = CandPairs
    BY <2>1 DEF CandPairs
  <2>6. Chosen' = Chosen /\ \A j : UpTo(CandPairs, stack, j)' = UpTo(CandPairs, stack, j)
    BY <2>1, <2>5 DEF Chosen, UpTo
  <2>7. CallsRight' /\ PartnersRight'
    BY <2>1, <2>5, <2>6 DEF TInv, CallsRight, PartnersRight, UpTo
  <2>8. WaysAhead'
    <3>1. \A m, h, idx : Way(m, h, idx)' <=> Way(m, h, idx)
      BY <2>1, <2>2, <2>5 DEF Way, RightPairing, Pairings, Complete, Low
    <3>2. \A idx : (Ahead(idx)' <=> Ahead(idx)) /\ (Later(idx)' <=> Later(idx))
      BY <2>1 DEF Ahead, Later, Calls
    <3>3. QED
      BY <2>1, <3>1, <3>2 DEF TInv, WaysAhead
  <2>9. QED
    BY <2>2, <2>4, <2>7, <2>8 DEF TInv
<1>13. QED
  BY <1>1, <1>2, <1>3, <1>4, <1>5, <1>6, <1>7, <1>8, <1>9, <1>10, <1>11, <1>12 DEF Next

(* The search gives up no old cut that could be matched: when a level ends *)
(* without a match, no pairing that the similar pairs allow is right (the  *)
(* guards and the recursion of addPairToFormCut, and the order in which    *)
(* cutMatching takes the old cuts), in any netlist whose golden gates do   *)
(* not read the constant one.                                              *)
THEOREM AllPairsTried == Spec => [](ReadsNoOne(nl) => AllTried)
<1>1. Init => IInv /\ TInv
  BY IInvInit, TInvInit
<1>2. IInv /\ TInv /\ [Next]_vars => (IInv /\ TInv)'
  BY IInvStep, TInvStep
<1>3. TInv => (ReadsNoOne(nl) => AllTried)
  BY DEF TInv, CutsTried, NoneRight, RightPairing, AllTried
<1>4. QED
  BY <1>1, <1>2, <1>3, PTL DEF Spec
=============================================================================
