----------------------------- MODULE FoldLemmas ------------------------------
(***************************************************************************)
(* Induction over finite sets and over intervals, and what the folds of    *)
(* the community modules compute.  A loop of the code over a list is a     *)
(* fold with an operator Op(s, e), the effect of the loop's body on the    *)
(* state s for the element e; a module that proves something about such a  *)
(* loop instantiates this one for its operator.  Recursive functions come  *)
(* last: there Op(v, e) is a value, from the values v of lower rank.       *)
(***************************************************************************)
EXTENDS Sequences, Folds, FiniteSetTheorems, TLAPS

CONSTANT Op(_, _)

-----------------------------------------------------------------------------
(* Induction                                                               *)

(* A nonempty set of subsets of a finite set has a minimal element.        *)
LEMMA MinimalSubset ==
  ASSUME NEW S, IsFiniteSet(S), NEW D \in SUBSET (SUBSET S), D # {}
  PROVE  \E T \in D : \A U \in D : U \subseteq T => U = T
<1>1. FiniteSubsetsOf(S) = SUBSET S
  BY FS_FiniteSubsetsOfFinite
<1>2. IsWellFoundedOn(StrictSubsetOrdering(S), SUBSET S)
  BY <1>1, FS_StrictSubsetOrderingWellFounded
<1>3. \E T \in D : \A U \in D : ~ (<<U, T>> \in StrictSubsetOrdering(S))
  BY <1>2, WFMin
<1>4. QED
  BY <1>3 DEF StrictSubsetOrdering

(* What holds of the empty set, and of a set when it holds of its proper   *)
(* subsets, holds of every finite set; G is the set of those it holds of.  *)
LEMMA StrongSetInduction ==
  ASSUME NEW S, IsFiniteSet(S), NEW G,
         \A T \in SUBSET S : (\A U \in SUBSET T : U # T => U \in G) => T \in G
  PROVE  \A T \in SUBSET S : T \in G
<1> DEFINE D == (SUBSET S) \ G
<1>1. SUFFICES ASSUME D # {} PROVE FALSE
  OBVIOUS
<1>2. D \in SUBSET (SUBSET S)
  OBVIOUS
<1> HIDE DEF D
<1>3. PICK T \in D : \A U \in D : U \subseteq T => U = T
  BY <1>1, <1>2, MinimalSubset
<1>4. T \in SUBSET S /\ T \notin G
  BY <1>3 DEF D
<1>5. ASSUME NEW U \in SUBSET T, U # T PROVE U \in G
  BY <1>3, <1>4, <1>5 DEF D
<1>6. QED
  BY <1>4, <1>5

(* The same, one element at a time.                                        *)
LEMMA SetInduction ==
  ASSUME NEW S, IsFiniteSet(S), NEW G, {} \in G,
         \A T \in SUBSET S : \A x \in T : T \ {x} \in G => T \in G
  PROVE  \A T \in SUBSET S : T \in G
<1>1. SUFFICES ASSUME NEW T \in SUBSET S, \A U \in SUBSET T : U # T => U \in G
               PROVE  T \in G
  BY StrongSetInduction
<1>2. CASE T = {}
  BY <1>2
<1>3. CASE T # {}
  <2>1. PICK x \in T : TRUE
    BY <1>3
  <2>2. T \ {x} \in SUBSET T /\ T \ {x} # T
    BY <2>1
  <2>3. QED
    BY <1>1, <2>1, <2>2
<1>4. QED
  BY <1>2, <1>3

(* Induction over 0 .. n.                                                  *)
LEMMA IntervalInduction ==
  ASSUME NEW n \in Nat, NEW G, 0 \in G, \A i \in 1 .. n : i - 1 \in G => i \in G
  PROVE  \A i \in 0 .. n : i \in G
<1> DEFINE I == 0 .. n
<1> DEFINE D == {0 .. i : i \in I \ G}
<1>1. SUFFICES ASSUME NEW j \in 0 .. n, j \notin G PROVE FALSE
  OBVIOUS
<1>2. D \in SUBSET (SUBSET I) /\ D # {}
  BY <1>1
<1>3. IsFiniteSet(I)
  BY FS_Interval
<1> HIDE DEF D, I
<1>4. PICK T \in D : \A U \in D : U \subseteq T => U = T
  BY <1>2, <1>3, MinimalSubset
<1>5. PICK i \in (0 .. n) \ G : T = 0 .. i
  BY <1>4 DEF D, I
<1>6. i \in 1 .. n
  BY <1>5
<1>7. i - 1 \in (0 .. n) \ G
  BY <1>5, <1>6
<1>8. 0 .. (i - 1) \in D
  BY <1>7 DEF D, I
<1>9. 0 .. (i - 1) \subseteq T /\ i \in T /\ i \notin 0 .. (i - 1)
  BY <1>5, <1>6
<1>10. QED
  BY <1>4, <1>8, <1>9

Largest(S) == CHOOSE x \in S : \A y \in S : x >= y

(* A nonempty finite set of integers has a largest element.                *)
LEMMA MaxExists ==
  ASSUME NEW S \in SUBSET Int, IsFiniteSet(S), S # {}
  PROVE  Largest(S) \in S /\ \A y \in S : Largest(S) >= y
<1> DEFINE G == {T \in SUBSET S : T # {} => \E x \in T : \A y \in T : x >= y}
<1>1. {} \in G
  OBVIOUS
<1>2. ASSUME NEW T \in SUBSET S, NEW e \in T, T \ {e} \in G PROVE T \in G
  <2>1. CASE T \ {e} = {}
    BY <2>1
  <2>2. CASE T \ {e} # {}
    <3>1. PICK x \in T \ {e} : \A y \in T \ {e} : x >= y
      BY <1>2, <2>2
    <3>2. x \in Int /\ e \in Int /\ \A y \in T : y \in Int
      OBVIOUS
    <3>3. CASE x >= e
      BY <3>1, <3>3
    <3>4. CASE e >= x
      BY <3>1, <3>2, <3>4
    <3>5. QED
      BY <3>2, <3>3, <3>4
  <2>3. QED
    BY <2>1, <2>2
<1>3. S \in G
  <2> HIDE DEF G
  <2> QED
    BY <1>1, <1>2, SetInduction
<1>4. QED
  BY <1>3 DEF Largest

(* And a least one.                                                        *)
LEMMA MinExists ==
  ASSUME NEW S \in SUBSET Int, IsFiniteSet(S), S # {}
  PROVE  \E x \in S : \A y \in S : x <= y
<1> DEFINE G == {T \in SUBSET S : T # {} => \E x \in T : \A y \in T : x <= y}
<1>1. {} \in G
  OBVIOUS
<1>2. ASSUME NEW T \in SUBSET S, NEW e \in T, T \ {e} \in G PROVE T \in G
  <2>1. CASE T \ {e} = {}
    BY <2>1
  <2>2. CASE T \ {e} # {}
    <3>1. PICK x \in T \ {e} : \A y \in T \ {e} : x <= y
      BY <1>2, <2>2
    <3>2. x \in Int /\ e \in Int /\ \A y \in T : y \in Int
      OBVIOUS
    <3>3. CASE x <= e
      BY <3>1, <3>3
    <3>4. CASE e <= x
      BY <3>1, <3>2, <3>4
    <3>5. QED
      BY <3>2, <3>3, <3>4
  <2>3. QED
    BY <2>1, <2>2
<1>3. S \in G
  <2> HIDE DEF G
  <2> QED
    BY <1>1, <1>2, SetInduction
<1>4. QED
  BY <1>3

-----------------------------------------------------------------------------
(* The recursive function under a fold over a set: base for the empty set, *)
(* and otherwise one more application of Op, for the element ch[s].        *)

Unfolds(f, S, base, ch, val) ==
  f = [s \in SUBSET S |-> IF s = {} THEN base ELSE Op(f[s \ {ch[s]}], val[ch[s]])]

Chooses(ch, S) == \A s \in SUBSET S : s # {} => ch[s] \in s

(* Two such functions agree on the sets both are defined for.              *)
LEMMA UnfoldsAgree ==
  ASSUME NEW S, IsFiniteSet(S), NEW base, NEW ch, NEW val, Chooses(ch, S),
         NEW T \in SUBSET S, NEW U \in SUBSET S, NEW f, NEW g,
         Unfolds(f, T, base, ch, val), Unfolds(g, U, base, ch, val)
  PROVE  \A s \in SUBSET (T \intersect U) : f[s] = g[s]
<1> DEFINE R == T \intersect U
<1> DEFINE G == {s \in SUBSET R : f[s] = g[s]}
<1>1. IsFiniteSet(R)
  BY FS_Subset
<1>2. ASSUME NEW s \in SUBSET R, \A r \in SUBSET s : r # s => r \in G PROVE s \in G
  <2>1. CASE s = {}
    BY <2>1 DEF Unfolds
  <2>2. CASE s # {}
    <3>1. ch[s] \in s
      BY <2>2 DEF Chooses
    <3>2. s \ {ch[s]} \in SUBSET s /\ s \ {ch[s]} # s
      BY <3>1
    <3>3. f[s \ {ch[s]}] = g[s \ {ch[s]}]
      BY <1>2, <3>2
    <3>4. f[s] = Op(f[s \ {ch[s]}], val[ch[s]]) /\ g[s] = Op(g[s \ {ch[s]}], val[ch[s]])
      BY <2>2 DEF Unfolds
    <3>5. QED
      BY <3>3, <3>4
  <2>3. QED
    BY <2>1, <2>2
<1>3. \A s \in SUBSET R : s \in G
  <2> HIDE DEF G, R
  <2> QED
    BY <1>1, <1>2, StrongSetInduction
<1>4. QED
  BY <1>3

(* There is such a function, so the CHOOSE in the fold finds it.           *)
LEMMA UnfoldsExists ==
  ASSUME NEW S, IsFiniteSet(S), NEW base, NEW ch, NEW val, Chooses(ch, S)
  PROVE  \E f : Unfolds(f, S, base, ch, val)
<1> DEFINE U(f, T) == Unfolds(f, T, base, ch, val)
<1> DEFINE the(T) == CHOOSE f : U(f, T)
<1> DEFINE G == {T \in SUBSET S : \E f : U(f, T)}
<1>1. ASSUME NEW T \in SUBSET S, \A R \in SUBSET T : R # T => R \in G PROVE T \in G
  <2> DEFINE step(s) == IF s = {} THEN base ELSE Op(the(s \ {ch[s]})[s \ {ch[s]}], val[ch[s]])
  <2> DEFINE f == [s \in SUBSET T |-> step(s)]
  <2>1. ASSUME NEW R \in SUBSET T, R # T PROVE U(the(R), R)
    <3>1. \E g : U(g, R)
      BY <1>1, <2>1
    <3> HIDE DEF U
    <3>2. QED
      BY <3>1
  <2>2. ASSUME NEW R \in SUBSET T, R # T PROVE f[R] = the(R)[R]
    <3>1. CASE R = {}
      <4>1. the(R)[R] = base
        <5>1. U(the(R), R)
          BY <2>1, <2>2
        <5> HIDE DEF the
        <5>2. QED
          BY <3>1, <5>1 DEF Unfolds
      <4>2. QED
        BY <3>1, <4>1
    <3>2. CASE R # {}
      <4> DEFINE Q == R \ {ch[R]}
      <4>1. ch[R] \in R
        BY <3>2 DEF Chooses
      <4>2. Q \in SUBSET R /\ Q # R /\ Q \in SUBSET T /\ Q # T
        BY <2>2, <4>1
      <4>3. U(the(R), R) /\ U(the(Q), Q)
        BY <2>1, <2>2, <4>2
      <4>4. the(R)[Q] = the(Q)[Q]
        <5> HIDE DEF the, Q
        <5>1. R \in SUBSET S /\ Q \in SUBSET S /\ Q \in SUBSET (R \intersect Q)
          BY <4>2
        <5>2. QED
          BY <4>3, <5>1, UnfoldsAgree
      <4>5. the(R)[R] = Op(the(R)[Q], val[ch[R]])
        <5> HIDE DEF the
        <5>1. QED
          BY <3>2, <4>3 DEF Unfolds
      <4>6. f[R] = Op(the(Q)[Q], val[ch[R]])
        BY <3>2
      <4>7. QED
        BY <4>4, <4>5, <4>6
    <3>3. QED
      BY <3>1, <3>2
  <2>3. ASSUME NEW s \in SUBSET T, s # {} PROVE step(s) = Op(f[s \ {ch[s]}], val[ch[s]])
    <3>1. ch[s] \in s
      BY <2>3 DEF Chooses
    <3>2. s \ {ch[s]} \in SUBSET T /\ s \ {ch[s]} # T
      BY <3>1
    <3>3. f[s \ {ch[s]}] = the(s \ {ch[s]})[s \ {ch[s]}]
      BY <2>2, <3>2
    <3>4. QED
      BY <2>3, <3>3
  <2>4. U(f, T)
    <3>1. \A s \in SUBSET T : step(s) = IF s = {} THEN base ELSE Op(f[s \ {ch[s]}], val[ch[s]])
      <4>1. \A s \in SUBSET T : s = {} => step(s) = base
        OBVIOUS
      <4> HIDE DEF step, f
      <4>2. QED
        BY <2>3, <4>1
    <3> DEFINE h == [s \in SUBSET T |-> IF s = {} THEN base ELSE Op(f[s \ {ch[s]}], val[ch[s]])]
    <3>2. f = h
      <4> HIDE DEF step
      <4> QED
        BY <3>1
    <3> HIDE DEF f
    <3>3. QED
      BY <3>2 DEF Unfolds
  <2>5. QED
    <3> HIDE DEF U, f
    <3> QED
      BY <2>4
<1>2. S \in G
  <2> HIDE DEF G
  <2> QED
    BY <1>1, StrongSetInduction
<1>3. QED
  BY <1>2

-----------------------------------------------------------------------------
(* FoldLeft(Op, base, seq) is the last value of Op applied to one element  *)
(* after the other.  It and FoldSet are written here with the operator     *)
(* they are defined by: an instance of this module then brings little      *)
(* besides the lemmas into the module that makes it.                       *)

LeftFold(base, seq) ==
  MapThenFoldSet(LAMBDA x, t : Op(t, x), base, LAMBDA i : seq[i], Largest, DOMAIN seq)

Traces(acc, base, seq) ==
  /\ acc[0] = base
  /\ \A i \in 1 .. Len(seq) : acc[i] = Op(acc[i - 1], seq[i])

(* The fold over a list has a trace of intermediate values.                *)
LEMMA FoldLeftTrace ==
  ASSUME NEW base, NEW E, NEW seq \in Seq(E)
  PROVE  \E acc : Traces(acc, base, seq) /\ LeftFold(base, seq) = acc[Len(seq)]
<1> DEFINE D == DOMAIN seq
<1> DEFINE ch == [s \in SUBSET D |-> Largest(s)]
<1> DEFINE Eq(f) == f = [s \in SUBSET D |-> IF s = {} THEN base
                                            ELSE Op(f[s \ {Largest(s)}], seq[Largest(s)])]
<1>1. D = 1 .. Len(seq) /\ Len(seq) \in Nat /\ IsFiniteSet(D)
  BY FS_Interval
<1>2. \A s \in SUBSET D : s # {} => Largest(s) \in s
  <2> SUFFICES ASSUME NEW s \in SUBSET D, s # {} PROVE Largest(s) \in s
    OBVIOUS
  <2>1. s \in SUBSET Int /\ IsFiniteSet(s)
    BY <1>1, FS_Subset
  <2> QED
    BY <2>1, MaxExists
<1>3. Chooses(ch, D)
  BY <1>2 DEF Chooses
<1>4. PICK f : Unfolds(f, D, base, ch, seq)
  <2> HIDE DEF ch, D
  <2> QED
    BY <1>1, <1>3, UnfoldsExists
<1>5. Eq(f)
  <2>1. [s \in SUBSET D |-> IF s = {} THEN base ELSE Op(f[s \ {ch[s]}], seq[ch[s]])]
          = [s \in SUBSET D |-> IF s = {} THEN base ELSE Op(f[s \ {Largest(s)}], seq[Largest(s)])]
    <3> HIDE DEF D
    <3> QED
      OBVIOUS
  <2> HIDE DEF ch, D
  <2> QED
    BY <1>4, <2>1 DEF Unfolds
<1> DEFINE g == CHOOSE h : Eq(h)
<1>6. Eq(g)
  <2> HIDE DEF Eq
  <2> QED
    BY <1>5
<1>7. LeftFold(base, seq) = g[D]
  <2> HIDE DEF D
  <2>1. D = DOMAIN seq
    BY DEF D
  <2>2. LeftFold(base, seq)
          = (CHOOSE h : h = [s \in SUBSET D |-> IF s = {} THEN base
                                                ELSE Op(h[s \ {Largest(s)}], seq[Largest(s)])])[D]
    BY <2>1 DEF LeftFold, MapThenFoldSet
  <2>3. QED
    BY <2>2
<1> HIDE DEF g, D
<1> DEFINE acc == [i \in 0 .. Len(seq) |-> g[1 .. i]]
<1>8. acc[0] = base
  <2>1. 1 .. 0 = {} /\ acc[0] = g[1 .. 0]
    BY <1>1
  <2>2. QED
    BY <1>6, <2>1
<1>9. ASSUME NEW i \in 1 .. Len(seq) PROVE acc[i] = Op(acc[i - 1], seq[i])
  <2>1. /\ 1 .. i \in SUBSET D /\ i \in 1 .. i /\ 1 .. i # {}
        /\ 1 .. i \in SUBSET Int /\ IsFiniteSet(1 .. i)
    <3>1. i \in Int /\ 1 \in Int
      BY <1>1
    <3>2. IsFiniteSet(1 .. i)
      BY <3>1, FS_Interval
    <3>3. 1 .. i \in SUBSET D /\ i \in 1 .. i
      BY <1>1
    <3>4. QED
      BY <3>2, <3>3
  <2>2. Largest(1 .. i) \in 1 .. i /\ \A y \in 1 .. i : Largest(1 .. i) >= y
    <3> DEFINE R == 1 .. i
    <3>1. R \in SUBSET Int /\ IsFiniteSet(R) /\ R # {}
      BY <2>1
    <3> HIDE DEF R
    <3>2. Largest(R) \in R /\ \A y \in R : Largest(R) >= y
      BY <3>1, MaxExists
    <3>3. QED
      BY <3>2 DEF R
  <2>3. Largest(1 .. i) = i
    BY <1>1, <2>2
  <2>4. (1 .. i) \ {i} = 1 .. (i - 1)
    BY <1>1
  <2>5. g[1 .. i] = Op(g[(1 .. i) \ {Largest(1 .. i)}], seq[Largest(1 .. i)])
    BY <1>6, <2>1
  <2>6. acc[i] = g[1 .. i] /\ acc[i - 1] = g[1 .. (i - 1)]
    BY <1>1
  <2>7. QED
    BY <2>3, <2>4, <2>5, <2>6
<1>10. LeftFold(base, seq) = acc[Len(seq)]
  <2>1. acc[Len(seq)] = g[1 .. Len(seq)]
    BY <1>1
  <2>2. QED
    BY <1>1, <1>7, <2>1
<1>11. QED
  <2> HIDE DEF acc
  <2> QED
    BY <1>8, <1>9, <1>10 DEF Traces

(* No element, no application.                                             *)
LEMMA FoldLeftEmpty == \A base : LeftFold(base, << >>) = base
<1>1. << >> \in Seq({}) /\ Len(<< >>) = 0
  OBVIOUS
<1>2. TAKE base
<1>3. QED
  BY <1>1, FoldLeftTrace DEF Traces

(* One more element is one more application.                               *)
LEMMA FoldLeftAppend ==
  ASSUME NEW base, NEW E, NEW seq \in Seq(E), NEW e \in E
  PROVE  LeftFold(base, Append(seq, e)) = Op(LeftFold(base, seq), e)
<1> DEFINE t == Append(seq, e)
<1>1. /\ t \in Seq(E) /\ Len(t) = Len(seq) + 1 /\ t[Len(t)] = e /\ Len(seq) \in Nat
      /\ \A i \in 1 .. Len(seq) : t[i] = seq[i]
  OBVIOUS
<1> HIDE DEF t
<1>2. PICK a : Traces(a, base, seq) /\ LeftFold(base, seq) = a[Len(seq)]
  BY FoldLeftTrace
<1>3. PICK b : Traces(b, base, t) /\ LeftFold(base, t) = b[Len(t)]
  BY <1>1, FoldLeftTrace
<1> DEFINE G == {i \in 0 .. Len(seq) : a[i] = b[i]}
<1>4. 0 \in G
  BY <1>1, <1>2, <1>3 DEF Traces
<1>5. ASSUME NEW i \in 1 .. Len(seq), i - 1 \in G PROVE i \in G
  <2>1. a[i] = Op(a[i - 1], seq[i]) /\ b[i] = Op(b[i - 1], t[i])
    BY <1>1, <1>2, <1>3 DEF Traces
  <2>2. QED
    BY <1>1, <1>5, <2>1
<1>6. Len(seq) \in G
  <2> HIDE DEF G
  <2>1. \A i \in 0 .. Len(seq) : i \in G
    BY <1>1, <1>4, <1>5, IntervalInduction
  <2>2. QED
    BY <1>1, <2>1
<1>7. b[Len(t)] = Op(b[Len(t) - 1], t[Len(t)]) /\ Len(t) - 1 = Len(seq)
  BY <1>1, <1>3 DEF Traces
<1>8. QED
  BY <1>1, <1>2, <1>3, <1>6, <1>7 DEF t

(* What Op preserves for each element, the fold preserves; G is the set of *)
(* the states it is true of.                                               *)
LEMMA FoldLeftPreserves ==
  ASSUME NEW G, NEW base \in G, NEW E, NEW seq \in Seq(E),
         \A a \in G : \A i \in 1 .. Len(seq) : Op(a, seq[i]) \in G
  PROVE  LeftFold(base, seq) \in G
<1>1. PICK acc : Traces(acc, base, seq) /\ LeftFold(base, seq) = acc[Len(seq)]
  BY FoldLeftTrace
<1> DEFINE H == {i \in 0 .. Len(seq) : acc[i] \in G}
<1>2. 0 \in H /\ Len(seq) \in Nat
  BY <1>1 DEF Traces
<1>3. ASSUME NEW i \in 1 .. Len(seq), i - 1 \in H PROVE i \in H
  <2>1. acc[i] = Op(acc[i - 1], seq[i])
    BY <1>1 DEF Traces
  <2>2. acc[i - 1] \in G
    BY <1>3
  <2>3. Op(acc[i - 1], seq[i]) \in G
    BY <2>2
  <2>4. QED
    BY <1>2, <2>1, <2>3
<1>4. Len(seq) \in H
  <2> HIDE DEF H
  <2>1. \A i \in 0 .. Len(seq) : i \in H
    BY <1>2, <1>3, IntervalInduction
  <2>2. QED
    BY <1>2, <2>1
<1>5. QED
  BY <1>1, <1>4

-----------------------------------------------------------------------------
(* A fold over a finite set is a fold over a sequence with its elements,   *)
(* each once.                                                              *)

Enumerates(seq, S) ==
  /\ seq \in Seq(S)
  /\ \A x \in S : \E i \in DOMAIN seq : seq[i] = x
  /\ \A i, j \in DOMAIN seq : seq[i] = seq[j] => i = j

SetFold(base, S) ==
  MapThenFoldSet(LAMBDA x, t : Op(t, x), base, LAMBDA x : x, LAMBDA s : CHOOSE x \in s : TRUE, S)

(* Some list with each element of S once has the same fold.                *)
LEMMA FoldSetEnumerates ==
  ASSUME NEW base, NEW S, IsFiniteSet(S)
  PROVE  \E seq : Enumerates(seq, S) /\ SetFold(base, S) = LeftFold(base, seq)
<1> DEFINE ch == [s \in SUBSET S |-> CHOOSE x \in s : TRUE]
<1> DEFINE val == [x \in S |-> x]
<1> DEFINE Eq(f) == f = [s \in SUBSET S |-> IF s = {} THEN base
                                            ELSE Op(f[s \ {CHOOSE x \in s : TRUE}],
                                                    CHOOSE x \in s : TRUE)]
<1>1. \A s \in SUBSET S : s # {} => (CHOOSE x \in s : TRUE) \in s
  OBVIOUS
<1>2. Chooses(ch, S)
  BY <1>1 DEF Chooses
<1>3. PICK f : Unfolds(f, S, base, ch, val)
  <2> HIDE DEF ch, val
  <2> QED
    BY <1>2, UnfoldsExists
<1>4. Eq(f)
  <2>1. ASSUME NEW s \in SUBSET S, s # {}
        PROVE  ch[s] = (CHOOSE x \in s : TRUE) /\ val[ch[s]] = (CHOOSE x \in s : TRUE)
    <3>1. ch[s] = (CHOOSE x \in s : TRUE)
      OBVIOUS
    <3>2. ch[s] \in S
      BY <1>1, <2>1, <3>1
    <3>3. val[ch[s]] = ch[s]
      BY <3>2
    <3>4. QED
      BY <3>1, <3>3
  <2>2. [s \in SUBSET S |-> IF s = {} THEN base ELSE Op(f[s \ {ch[s]}], val[ch[s]])]
          = [s \in SUBSET S |-> IF s = {} THEN base
                                ELSE Op(f[s \ {CHOOSE x \in s : TRUE}], CHOOSE x \in s : TRUE)]
    <3> HIDE DEF ch, val
    <3> QED
      BY <2>1
  <2> HIDE DEF ch, val
  <2>3. QED
    BY <1>3, <2>2 DEF Unfolds
<1> DEFINE g == CHOOSE h : Eq(h)
<1>5. Eq(g)
  <2> HIDE DEF Eq
  <2> QED
    BY <1>4
<1>6. SetFold(base, S) = g[S]
  BY DEF SetFold, MapThenFoldSet
<1> HIDE DEF g
<1> DEFINE G == {T \in SUBSET S : \E seq : Enumerates(seq, T) /\ g[T] = LeftFold(base, seq)}
<1>7. ASSUME NEW T \in SUBSET S, \A U \in SUBSET T : U # T => U \in G PROVE T \in G
  <2>1. CASE T = {}
    <3>1. Enumerates(<< >>, T)
      BY <2>1 DEF Enumerates
    <3>2. g[T] = LeftFold(base, << >>)
      BY <1>5, <2>1, FoldLeftEmpty
    <3>3. QED
      BY <3>1, <3>2
  <2>2. CASE T # {}
    <3> DEFINE x == CHOOSE y \in T : TRUE
    <3>1. x \in T
      BY <2>2
    <3>2. g[T] = Op(g[T \ {x}], x)
      BY <1>5, <2>2
    <3> HIDE DEF x
    <3>3. T \ {x} \in G
      BY <1>7, <3>1
    <3>4. PICK seq : Enumerates(seq, T \ {x}) /\ g[T \ {x}] = LeftFold(base, seq)
      BY <3>3
    <3>5. seq \in Seq(T)
      BY <3>4 DEF Enumerates
    <3>6. g[T] = LeftFold(base, Append(seq, x))
      <4>1. LeftFold(base, Append(seq, x)) = Op(LeftFold(base, seq), x)
        BY <3>1, <3>5, FoldLeftAppend
      <4>2. QED
        BY <3>2, <3>4, <4>1
    <3>7. Enumerates(Append(seq, x), T)
      <4>1. Append(seq, x) \in Seq(T)
        BY <3>1, <3>5
      <4>2. /\ DOMAIN seq = 1 .. Len(seq) /\ Len(seq) \in Nat
            /\ DOMAIN Append(seq, x) = 1 .. (Len(seq) + 1)
            /\ \A i \in 1 .. Len(seq) : Append(seq, x)[i] = seq[i]
            /\ Append(seq, x)[Len(seq) + 1] = x
        BY <3>1, <3>5
      <4>3. \A i \in 1 .. Len(seq) : seq[i] \in T \ {x}
        BY <3>4, <4>2 DEF Enumerates
      <4>4. \A y \in T : \E i \in DOMAIN Append(seq, x) : Append(seq, x)[i] = y
        <5>1. SUFFICES ASSUME NEW y \in T
                       PROVE  \E i \in DOMAIN Append(seq, x) : Append(seq, x)[i] = y
          OBVIOUS
        <5>2. CASE y = x
          BY <4>2, <5>2
        <5>3. CASE y # x
          <6>1. PICK i \in DOMAIN seq : seq[i] = y
            BY <3>4, <5>3 DEF Enumerates
          <6>2. i \in DOMAIN Append(seq, x) /\ Append(seq, x)[i] = y
            BY <4>2, <6>1
          <6>3. QED
            BY <6>2
        <5>4. QED
          BY <5>2, <5>3
      <4>5. ASSUME NEW i \in DOMAIN Append(seq, x), NEW j \in DOMAIN Append(seq, x),
                   Append(seq, x)[i] = Append(seq, x)[j]
            PROVE  i = j
        <5>1. CASE i \in 1 .. Len(seq) /\ j \in 1 .. Len(seq)
          BY <3>4, <4>2, <4>5, <5>1 DEF Enumerates
        <5>2. CASE i = Len(seq) + 1 /\ j \in 1 .. Len(seq)
          BY <4>2, <4>3, <4>5, <5>2
        <5>3. CASE j = Len(seq) + 1 /\ i \in 1 .. Len(seq)
          BY <4>2, <4>3, <4>5, <5>3
        <5>4. QED
          BY <4>2, <5>1, <5>2, <5>3
      <4>6. QED
        BY <4>1, <4>4, <4>5 DEF Enumerates
    <3>8. QED
      BY <3>6, <3>7
  <2>3. QED
    BY <2>1, <2>2
<1>8. S \in G
  <2> HIDE DEF G
  <2> QED
    BY <1>7, StrongSetInduction
<1>9. QED
  BY <1>6, <1>8

-----------------------------------------------------------------------------
(* Recursive functions: e[x] packs what the definition uses at x besides   *)
(* the values at the elements of lower rank.                               *)

Recurses(f, D, e) == f = [x \in D |-> Op(f, e[x])]

DependsOnLower(D, rank, e) ==
  \A x \in D : \A v, w :
    (\A y \in D : rank[y] < rank[x] => v[y] = w[y]) => Op(v, e[x]) = Op(w, e[x])

(* A value that depends only on those of lower rank can be defined         *)
(* recursively, so the CHOOSE in the definition finds such a function.     *)
LEMMA RecursionExists ==
  ASSUME NEW D, NEW rank \in [D -> Nat], NEW e, DependsOnLower(D, rank, e)
  PROVE  \E f : Recurses(f, D, e)
<1> DEFINE Good(v, n) == \A x \in D : rank[x] < n => v[x] = Op(v, e[x])
<1>1. ASSUME NEW n \in Nat, NEW v, NEW w, Good(v, n), Good(w, n)
      PROVE  \A x \in D : rank[x] < n => v[x] = w[x]
  <2> DEFINE G == {i \in 0 .. n : \A x \in D : rank[x] < i => v[x] = w[x]}
  <2>1. 0 \in G
    OBVIOUS
  <2>2. ASSUME NEW i \in 1 .. n, i - 1 \in G PROVE i \in G
    <3>1. SUFFICES ASSUME NEW x \in D, rank[x] < i PROVE v[x] = w[x]
      OBVIOUS
    <3>2. rank[x] < n /\ \A y \in D : rank[y] < rank[x] => rank[y] < i - 1
      BY <3>1
    <3>3. \A y \in D : rank[y] < rank[x] => v[y] = w[y]
      BY <2>2, <3>2
    <3>4. Op(v, e[x]) = Op(w, e[x])
      BY <3>3 DEF DependsOnLower
    <3>5. QED
      BY <1>1, <3>2, <3>4
  <2>3. n \in G
    <3> HIDE DEF G
    <3>1. \A i \in 0 .. n : i \in G
      BY <2>1, <2>2, IntervalInduction
    <3>2. QED
      BY <3>1
  <2>4. QED
    BY <2>3
<1>2. ASSUME NEW n \in Nat PROVE \E v : Good(v, n)
  <2> DEFINE H == {i \in 0 .. n : \E v : Good(v, i)}
  <2>1. 0 \in H
    OBVIOUS
  <2>2. ASSUME NEW i \in 1 .. n, i - 1 \in H PROVE i \in H
    <3>1. PICK v : Good(v, i - 1)
      BY <2>2
    <3> DEFINE w == [x \in D |-> Op(v, e[x])]
    <3>2. ASSUME NEW x \in D, rank[x] < i PROVE w[x] = Op(w, e[x])
      <4>1. \A y \in D : rank[y] < rank[x] => rank[y] < i - 1
        BY <3>2
      <4>2. \A y \in D : rank[y] < rank[x] => v[y] = w[y]
        BY <3>1, <4>1
      <4> HIDE DEF w
      <4>3. Op(v, e[x]) = Op(w, e[x])
        BY <4>2 DEF DependsOnLower
      <4>4. QED
        BY <4>3 DEF w
    <3> HIDE DEF w
    <3>3. QED
      BY <3>2
  <2>3. n \in H
    <3> HIDE DEF H
    <3>1. \A i \in 0 .. n : i \in H
      BY <2>1, <2>2, IntervalInduction
    <3>2. QED
      BY <3>1
  <2>4. QED
    BY <2>3
<1> DEFINE the(n) == CHOOSE v : Good(v, n)
           f == [x \in D |-> the(rank[x] + 1)[x]]
<1>3. ASSUME NEW n \in Nat PROVE Good(the(n), n)
  <2>1. \E v : Good(v, n)
    BY <1>2
  <2> HIDE DEF Good
  <2>2. QED
    BY <2>1
<1> HIDE DEF the
<1>4. ASSUME NEW x \in D PROVE f[x] = Op(f, e[x])
  <2> DEFINE n == rank[x] + 1
  <2>1. n \in Nat /\ rank[x] < n /\ Good(the(n), n)
    BY <1>3
  <2>2. ASSUME NEW y \in D, rank[y] < rank[x] PROVE f[y] = the(n)[y]
    <3> DEFINE m == rank[y] + 1
    <3>1. m \in Nat /\ rank[y] < m /\ m <= n /\ Good(the(m), m)
      BY <1>3, <2>2
    <3>2. Good(the(n), m)
      BY <2>1, <3>1
    <3> HIDE DEF m
    <3>3. the(m)[y] = the(n)[y]
      BY <1>1, <3>1, <3>2
    <3>4. QED
      BY <3>3 DEF m
  <2>3. the(n)[x] = Op(the(n), e[x])
    BY <2>1
  <2>4. f[x] = the(n)[x]
    OBVIOUS
  <2> HIDE DEF n, f
  <2>5. Op(the(n), e[x]) = Op(f, e[x])
    BY <2>2 DEF DependsOnLower
  <2>6. QED
    BY <2>3, <2>4, <2>5
<1>5. f = [x \in D |-> Op(f, e[x])]
  <2>1. f = [x \in D |-> f[x]]
    OBVIOUS
  <2> HIDE DEF f
  <2>2. QED
    BY <1>4, <2>1
<1>6. QED
  <2> HIDE DEF f
  <2>1. QED
    BY <1>5 DEF Recurses
=============================================================================
