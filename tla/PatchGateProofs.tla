--------------------------- MODULE PatchGateProofs ---------------------------
(***************************************************************************)
(* For every patch: each gate that is written computes what was wanted,    *)
(* and the cost is that of the file.                                       *)
(***************************************************************************)
EXTENDS PatchGate, FiniteSetTheorems, TLAPS

KeepFold == INSTANCE FoldLemmas WITH Op <- KeepNet
CostFold == INSTANCE FoldLemmas WITH Op <- GateCost

(* The folds of the instances are those of the model.                      *)
LEMMA SameFolds ==
  ASSUME NEW base, NEW seq
  PROVE  /\ KeepFold!LeftFold(base, seq) = FoldLeft(KeepNet, base, seq)
         /\ CostFold!LeftFold(base, seq) = FoldLeft(GateCost, base, seq)
BY DEF FoldLeft, MapThenFoldSet, Max,
       KeepFold!LeftFold, KeepFold!MapThenFoldSet, KeepFold!Largest,
       CostFold!LeftFold, CostFold!MapThenFoldSet, CostFold!Largest

-----------------------------------------------------------------------------
(* The pins that are left.                                                 *)

(* The ones among the first i pins, and the ones that they carry.          *)
OnesUpTo(pins, i) == {k \in 1 .. i : pins[k] = One}
TrueUpTo(a, pins, i) == {k \in 1 .. i : ValuesOf(a, pins)[k]}
TrueNets(a, nets) == {k \in DOMAIN nets : a[nets[k]]}

(* What is left of the first i pins: their nets, and the values they carry *)
(* but for the ones.                                                       *)
LeftOf(a, pins, nets, i) ==
  /\ nets \in Seq(NamesIn(pins))
  /\ Len(nets) <= i
  /\ \A k \in 1 .. i : pins[k] \in Range(nets) \/ pins[k] \in Constants
  /\ Cardinality(TrueUpTo(a, pins, i))
       = Cardinality(OnesUpTo(pins, i)) + Cardinality(TrueNets(a, nets))

(* Adding to a finite set an element it lacks, or none.                    *)
LEMMA OneMore ==
  ASSUME NEW n \in Nat, NEW S \in SUBSET (1 .. n), NEW T, NEW i, i \notin 1 .. n,
         T = S \/ T = S \union {i}
  PROVE  /\ Cardinality(S) \in Nat
         /\ Cardinality(T) = Cardinality(S) + (IF i \in T THEN 1 ELSE 0)
<1>1. IsFiniteSet(S)
  <2>1. IsFiniteSet(1 .. n)
    BY FS_Interval
  <2>2. QED
    BY <2>1, FS_Subset
<1>2. Cardinality(S) \in Nat /\ i \notin S
  BY <1>1, FS_CardinalityType
<1>3. CASE T = S
  BY <1>2, <1>3
<1>4. CASE T = S \union {i}
  BY <1>1, <1>2, <1>4, FS_AddElement
<1>5. QED
  BY <1>2, <1>3, <1>4

(* One more pin.                                                           *)
LEMMA KeepNetLeft ==
  ASSUME NEW S, NEW pins \in Seq(S), NEW a \in [NamesIn(pins) -> BOOLEAN],
         NEW i \in 1 .. Len(pins), NEW nets, LeftOf(a, pins, nets, i - 1)
  PROVE  LeftOf(a, pins, KeepNet(nets, pins[i]), i)
<1> DEFINE new == KeepNet(nets, pins[i])
<1>1. /\ i \in Nat /\ i - 1 \in Nat /\ i \notin 1 .. i - 1 /\ 1 .. i = (1 .. i - 1) \union {i}
      /\ i \in DOMAIN pins /\ pins[i] \in Range(pins)
  BY DEF Range
<1>2. /\ nets \in Seq(NamesIn(pins)) /\ Len(nets) \in Nat /\ Len(nets) <= i - 1
      /\ DOMAIN nets = 1 .. Len(nets)
      /\ \A k \in 1 .. i - 1 : pins[k] \in Range(nets) \/ pins[k] \in Constants
  BY DEF LeftOf
<1>3. ValuesOf(a, pins)[i] = IF pins[i] \in Constants THEN pins[i] = One ELSE a[pins[i]]
  BY <1>1 DEF ValuesOf
<1> DEFINE T(j) == TrueUpTo(a, pins, j)
<1> DEFINE O(j) == OnesUpTo(pins, j)
<1>4. /\ Cardinality(T(i - 1)) \in Nat
      /\ Cardinality(T(i)) = Cardinality(T(i - 1)) + (IF i \in T(i) THEN 1 ELSE 0)
  <2>1. T(i - 1) \subseteq 1 .. i - 1 /\ (T(i) = T(i - 1) \/ T(i) = T(i - 1) \union {i})
    BY <1>1 DEF TrueUpTo
  <2>2. QED
    BY <1>1, <2>1, OneMore
<1>5. /\ Cardinality(O(i - 1)) \in Nat
      /\ Cardinality(O(i)) = Cardinality(O(i - 1)) + (IF i \in O(i) THEN 1 ELSE 0)
  <2>1. O(i - 1) \subseteq 1 .. i - 1 /\ (O(i) = O(i - 1) \/ O(i) = O(i - 1) \union {i})
    BY <1>1 DEF OnesUpTo
  <2>2. QED
    BY <1>1, <2>1, OneMore
<1>6. Cardinality(TrueNets(a, nets)) \in Nat
  <2>1. IsFiniteSet(1 .. Len(nets)) /\ TrueNets(a, nets) \subseteq 1 .. Len(nets)
    BY <1>2, FS_Interval DEF TrueNets
  <2>2. QED
    BY <2>1, FS_Subset, FS_CardinalityType
<1>7. Cardinality(T(i - 1)) = Cardinality(O(i - 1)) + Cardinality(TrueNets(a, nets))
  BY DEF LeftOf
<1>8. CASE pins[i] \in Constants
  <2>1. new = nets
    BY <1>8 DEF KeepNet
  <2>2. i \in T(i) <=> i \in O(i)
    BY <1>1, <1>3, <1>8 DEF TrueUpTo, OnesUpTo
  <2>3. Cardinality(T(i)) = Cardinality(O(i)) + Cardinality(TrueNets(a, nets))
    <3> HIDE DEF T, O
    <3> QED
      BY <1>4, <1>5, <1>6, <1>7, <2>2
  <2>4. QED
    BY <1>1, <1>2, <1>8, <2>1, <2>3 DEF LeftOf
<1>9. CASE pins[i] \notin Constants
  <2>1. new = Append(nets, pins[i]) /\ pins[i] \in NamesIn(pins)
    BY <1>1, <1>9 DEF KeepNet, NamesIn
  <2>2. /\ new \in Seq(NamesIn(pins)) /\ Len(new) = Len(nets) + 1
        /\ DOMAIN new = 1 .. Len(nets) + 1 /\ new[Len(nets) + 1] = pins[i]
        /\ \A k \in 1 .. Len(nets) : new[k] = nets[k]
    BY <1>2, <2>1
  <2> HIDE DEF new
  <2>3. Range(nets) \subseteq Range(new) /\ pins[i] \in Range(new)
    BY <1>2, <2>2 DEF Range
  <2>4. Cardinality(TrueNets(a, new)) = Cardinality(TrueNets(a, nets)) + (IF a[pins[i]] THEN 1 ELSE 0)
    <3>1. TrueNets(a, nets) \subseteq 1 .. Len(nets)
      BY <1>2 DEF TrueNets
    <3>2. Len(nets) + 1 \in TrueNets(a, new) <=> a[pins[i]]
      BY <1>2, <2>2 DEF TrueNets
    <3>3. \A k : k \in 1 .. Len(nets) + 1 <=> k \in 1 .. Len(nets) \/ k = Len(nets) + 1
      BY <1>2
    <3>4. \/ TrueNets(a, new) = TrueNets(a, nets)
          \/ TrueNets(a, new) = TrueNets(a, nets) \union {Len(nets) + 1}
      BY <1>2, <2>2, <3>3 DEF TrueNets
    <3>5. Len(nets) + 1 \notin 1 .. Len(nets)
      BY <1>2
    <3>6. QED
      BY <1>2, <3>1, <3>2, <3>4, <3>5, OneMore
  <2>5. i \notin O(i) /\ (i \in T(i) <=> a[pins[i]])
    BY <1>1, <1>3, <1>9 DEF TrueUpTo, OnesUpTo, Constants
  <2>6. Cardinality(T(i)) = Cardinality(O(i)) + Cardinality(TrueNets(a, new))
    <3> HIDE DEF T, O
    <3> QED
      BY <1>4, <1>5, <1>6, <1>7, <2>4, <2>5
  <2>7. LeftOf(a, pins, new, i)
    BY <1>1, <1>2, <2>2, <2>3, <2>6 DEF LeftOf
  <2>8. QED
    BY <2>7 DEF new
<1>10. QED
  BY <1>8, <1>9

(* So of all the pins.                                                     *)
LEMMA RestLeft ==
  ASSUME NEW S, NEW pins \in Seq(S), NEW a \in [NamesIn(pins) -> BOOLEAN]
  PROVE  LeftOf(a, pins, Rest(pins), Len(pins))
<1>1. PICK acc : KeepFold!Traces(acc, << >>, pins) /\ Rest(pins) = acc[Len(pins)]
  BY KeepFold!FoldLeftTrace, SameFolds DEF Rest
<1>2. acc[0] = << >> /\ \A i \in 1 .. Len(pins) : acc[i] = KeepNet(acc[i - 1], pins[i])
  BY <1>1 DEF KeepFold!Traces
<1> DEFINE G == {i \in 0 .. Len(pins) : LeftOf(a, pins, acc[i], i)}
<1>3. Len(pins) \in Nat
  OBVIOUS
<1>4. 0 \in G
  <2>1. OnesUpTo(pins, 0) = {} /\ TrueUpTo(a, pins, 0) = {} /\ TrueNets(a, << >>) = {}
    BY DEF OnesUpTo, TrueUpTo, TrueNets
  <2>2. LeftOf(a, pins, << >>, 0)
    <3>1. Cardinality({}) = 0
      BY FS_EmptySet
    <3>2. << >> \in Seq(NamesIn(pins)) /\ Len(<< >>) = 0
      OBVIOUS
    <3>3. Cardinality(TrueUpTo(a, pins, 0))
            = Cardinality(OnesUpTo(pins, 0)) + Cardinality(TrueNets(a, << >>))
      <4>1. /\ Cardinality(TrueUpTo(a, pins, 0)) = 0 /\ Cardinality(OnesUpTo(pins, 0)) = 0
            /\ Cardinality(TrueNets(a, << >>)) = 0
        BY <2>1, <3>1, Zenon
      <4>2. QED
        BY <4>1
    <3>4. \A k \in 1 .. 0 : FALSE
      OBVIOUS
    <3>5. QED
      BY <3>2, <3>3, <3>4 DEF LeftOf
  <2>3. QED
    BY <1>2, <1>3, <2>2
<1>5. ASSUME NEW i \in 1 .. Len(pins), i - 1 \in G PROVE i \in G
  BY <1>2, <1>5, KeepNetLeft
<1>6. Len(pins) \in G
  <2> HIDE DEF G
  <2>1. \A i \in 0 .. Len(pins) : i \in G
    BY <1>3, <1>4, <1>5, KeepFold!IntervalInduction
  <2>2. QED
    BY <1>3, <2>1
<1>7. QED
  BY <1>1, <1>6

(* What that means for the values of the pins.                             *)
LEMMA RestValues ==
  ASSUME NEW S, NEW pins \in Seq(S), NEW a \in [NamesIn(pins) -> BOOLEAN]
  PROVE  LET v == ValuesOf(a, pins)
             w == ValuesOf(a, Rest(pins))
         IN  /\ v \in Seq(BOOLEAN) /\ DOMAIN v = DOMAIN pins
             /\ w \in Seq(BOOLEAN) /\ DOMAIN w = DOMAIN Rest(pins) /\ Len(w) = Len(Rest(pins))
             /\ Rest(pins) \in Seq(NamesIn(pins))
             /\ Zero \in Range(pins) => \E i \in DOMAIN v : ~v[i]
             /\ One \in Range(pins) => \E i \in DOMAIN v : v[i]
             /\ Zero \notin Range(pins) =>
                  ((\A i \in DOMAIN v : v[i]) <=> (\A i \in DOMAIN w : w[i]))
             /\ One \notin Range(pins) =>
                  ((\E i \in DOMAIN v : v[i]) <=> (\E i \in DOMAIN w : w[i]))
             /\ Odd(v) <=> (Odd(w) <=> ~OddOnes(pins))
<1> DEFINE n == Len(pins)
<1> DEFINE rest == Rest(pins)
<1> DEFINE v == ValuesOf(a, pins)
<1> DEFINE w == ValuesOf(a, rest)
<1>1. n \in Nat /\ DOMAIN pins = 1 .. n
  OBVIOUS
<1>2. /\ rest \in Seq(NamesIn(pins)) /\ Len(rest) \in Nat /\ DOMAIN rest = 1 .. Len(rest)
      /\ \A k \in DOMAIN pins : pins[k] \in Range(rest) \/ pins[k] \in Constants
      /\ Cardinality(TrueUpTo(a, pins, n)) = Cardinality(OnesUpTo(pins, n)) + Cardinality(TrueNets(a, rest))
  BY <1>1, RestLeft DEF LeftOf
<1> HIDE DEF n, rest
<1>3. /\ DOMAIN v = DOMAIN pins /\ v \in Seq(BOOLEAN)
      /\ \A i \in DOMAIN pins :
           v[i] = IF pins[i] \in Constants THEN pins[i] = One ELSE a[pins[i]]
  <2>1. \A i \in DOMAIN pins : pins[i] \notin Constants => a[pins[i]] \in BOOLEAN
    BY DEF NamesIn, Range
  <2>2. v \in [1 .. n -> BOOLEAN]
    BY <1>1, <2>1 DEF ValuesOf
  <2>3. QED
    BY <1>1, <2>2 DEF ValuesOf
<1>4. /\ DOMAIN w = DOMAIN rest /\ w \in Seq(BOOLEAN) /\ Len(w) = Len(rest)
      /\ \A i \in DOMAIN rest : w[i] = a[rest[i]] /\ rest[i] \in NamesIn(pins)
  <2>1. \A i \in DOMAIN rest : rest[i] \notin Constants /\ a[rest[i]] \in BOOLEAN
    BY <1>2 DEF NamesIn
  <2>2. w \in [1 .. Len(rest) -> BOOLEAN] /\ \A i \in DOMAIN rest : w[i] = a[rest[i]]
    BY <1>2, <2>1 DEF ValuesOf
  <2>3. QED
    BY <1>2, <2>2
<1> HIDE DEF v, w
<1>5. Zero \in Range(pins) => \E i \in DOMAIN v : ~v[i]
  BY <1>3 DEF Range, Constants, Zero, One
<1>6. One \in Range(pins) => \E i \in DOMAIN v : v[i]
  BY <1>3 DEF Range, Constants, Zero, One
<1>7. \A i \in DOMAIN rest : \E k \in DOMAIN pins : pins[k] = rest[i] /\ v[k] = w[i]
  <2>1. TAKE i \in DOMAIN rest
  <2>2. rest[i] \in Range(pins) /\ rest[i] \notin Constants
    BY <1>4 DEF NamesIn
  <2>3. QED
    BY <1>3, <1>4, <2>2 DEF Range
<1>8. \A k \in DOMAIN pins : pins[k] \notin Constants => \E i \in DOMAIN rest : w[i] = v[k]
  BY <1>2, <1>3, <1>4 DEF Range
<1>9. Zero \notin Range(pins) => ((\A i \in DOMAIN v : v[i]) <=> (\A i \in DOMAIN w : w[i]))
  <2>1. SUFFICES ASSUME Zero \notin Range(pins)
                 PROVE  (\A i \in DOMAIN v : v[i]) <=> (\A i \in DOMAIN w : w[i])
    OBVIOUS
  <2>2. \A k \in DOMAIN pins : pins[k] \in Constants => v[k]
    BY <1>3, <2>1 DEF Range, Constants
  <2>3. QED
    BY <1>3, <1>4, <1>7, <1>8, <2>2
<1>10. One \notin Range(pins) => ((\E i \in DOMAIN v : v[i]) <=> (\E i \in DOMAIN w : w[i]))
  <2>1. SUFFICES ASSUME One \notin Range(pins)
                 PROVE  (\E i \in DOMAIN v : v[i]) <=> (\E i \in DOMAIN w : w[i])
    OBVIOUS
  <2>2. \A k \in DOMAIN pins : pins[k] \in Constants => ~v[k]
    BY <1>3, <2>1 DEF Range, Constants
  <2>3. QED
    BY <1>3, <1>4, <1>7, <1>8, <2>2
<1>11. Odd(v) <=> (Odd(w) <=> ~OddOnes(pins))
  <2> DEFINE x == Cardinality(OnesUpTo(pins, n))
  <2> DEFINE y == Cardinality(TrueNets(a, rest))
  <2>1. /\ {i \in DOMAIN v : v[i]} = TrueUpTo(a, pins, n)
        /\ {i \in DOMAIN w : w[i]} = TrueNets(a, rest)
        /\ {i \in DOMAIN pins : pins[i] = One} = OnesUpTo(pins, n)
    BY <1>1, <1>3, <1>4 DEF TrueUpTo, TrueNets, OnesUpTo, v
  <2>2. (Odd(v) <=> (x + y) % 2 = 1) /\ (Odd(w) <=> y % 2 = 1) /\ (OddOnes(pins) <=> x % 2 = 1)
    BY <1>2, <2>1 DEF Odd, OddOnes
  <2>3. x \in Nat /\ y \in Nat
    <3>1. IsFiniteSet(1 .. n) /\ IsFiniteSet(1 .. Len(rest))
      BY <1>1, <1>2, FS_Interval
    <3>2. OnesUpTo(pins, n) \subseteq 1 .. n /\ TrueNets(a, rest) \subseteq 1 .. Len(rest)
      BY <1>2 DEF OnesUpTo, TrueNets
    <3>3. QED
      BY <3>1, <3>2, FS_Subset, FS_CardinalityType
  <2> HIDE DEF x, y
  <2>4. (x + y) % 2 = 1 <=> (y % 2 = 1 <=> ~(x % 2 = 1))
    BY <2>3
  <2>5. QED
    BY <2>2, <2>4
<1>12. QED
  BY <1>2, <1>3, <1>4, <1>5, <1>6, <1>9, <1>10, <1>11 DEF v, w, rest

-----------------------------------------------------------------------------
(* Each gate that is written is right.                                     *)

(* The gate g computes what is wanted.                                     *)
Right(g, wanted) ==
  \A a \in [NamesIn(wanted.pins) -> BOOLEAN] :
    Function(g.type, ValuesOf(a, g.pins)) = Function(wanted.type, ValuesOf(a, wanted.pins))

(* The constant gates.                                                     *)
LEMMA ConstGateValue ==
  ASSUME NEW a, NEW one \in BOOLEAN
  PROVE  Function(ConstGate(one).type, ValuesOf(a, ConstGate(one).pins)) = one
<1>1. ConstGate(one).pins = <<Zero>> /\ ConstGate(one).type = IF one THEN "NOT" ELSE "BUF"
  BY DEF ConstGate, Gate
<1>2. ValuesOf(a, <<Zero>>)[1] = FALSE
  <2>1. 1 \in DOMAIN <<Zero>> /\ <<Zero>>[1] = Zero
    OBVIOUS
  <2>2. Zero \in Constants /\ Zero # One
    BY DEF Constants, Zero, One
  <2>3. QED
    BY <2>1, <2>2 DEF ValuesOf
<1>3. Function("BUF", ValuesOf(a, <<Zero>>)) = FALSE /\ Function("NOT", ValuesOf(a, <<Zero>>)) = TRUE
  BY <1>2 DEF Function
<1>4. QED
  BY <1>1, <1>3

(* What the types compute, by what the pins carry.                         *)
LEMMA FunctionValues ==
  ASSUME NEW v \in Seq(BOOLEAN)
  PROVE  /\ Function("AND", v) <=> \A i \in DOMAIN v : v[i]
         /\ Function("NAND", v) <=> ~ \A i \in DOMAIN v : v[i]
         /\ Function("OR", v) <=> \E i \in DOMAIN v : v[i]
         /\ Function("NOR", v) <=> ~ \E i \in DOMAIN v : v[i]
         /\ Function("XOR", v) <=> Odd(v)
         /\ Function("XNOR", v) <=> ~Odd(v)
         /\ Len(v) = 1 =>
              /\ DOMAIN v = {1}
              /\ Function("BUF", v) <=> \A i \in DOMAIN v : v[i]
              /\ Function("NOT", v) <=> ~ \A i \in DOMAIN v : v[i]
              /\ Odd(v) <=> \A i \in DOMAIN v : v[i]
         /\ \A t \in Types : (t \in Wide \/ Len(v) = 1) => Function(t, v) \in BOOLEAN
<1>1. /\ Function("AND", v) <=> \A i \in DOMAIN v : v[i]
      /\ Function("NAND", v) <=> ~ \A i \in DOMAIN v : v[i]
      /\ Function("OR", v) <=> \E i \in DOMAIN v : v[i]
      /\ Function("NOR", v) <=> ~ \E i \in DOMAIN v : v[i]
      /\ Function("XOR", v) <=> Odd(v)
      /\ Function("XNOR", v) <=> ~Odd(v)
  BY DEF Function
<1>2. ASSUME Len(v) = 1
      PROVE  /\ DOMAIN v = {1}
             /\ Function("BUF", v) <=> \A i \in DOMAIN v : v[i]
             /\ Function("NOT", v) <=> ~ \A i \in DOMAIN v : v[i]
             /\ Odd(v) <=> \A i \in DOMAIN v : v[i]
  <2>1. DOMAIN v = {1}
    BY <1>2
  <2>2. v[1] \in BOOLEAN
    BY <2>1
  <2>3. (Function("BUF", v) <=> v[1]) /\ (Function("NOT", v) <=> ~v[1])
    BY DEF Function
  <2>4. Odd(v) <=> v[1]
    <3>1. CASE v[1]
      <4>1. {i \in DOMAIN v : v[i]} = {1}
        BY <2>1, <3>1
      <4>2. Cardinality({1}) = 1
        BY FS_Singleton
      <4>3. Odd(v) <=> 1 % 2 = 1
        BY <4>1, <4>2 DEF Odd
      <4>4. QED
        BY <3>1, <4>3
    <3>2. CASE ~v[1]
      <4>1. {i \in DOMAIN v : v[i]} = {}
        BY <2>1, <3>2
      <4>2. Cardinality({}) = 0
        BY FS_EmptySet
      <4>3. Odd(v) <=> 0 % 2 = 1
        BY <4>1, <4>2 DEF Odd
      <4>4. QED
        BY <3>2, <4>3
    <3>3. QED
      BY <3>1, <3>2
  <2>5. QED
    BY <2>1, <2>3, <2>4
<1>3. \A t \in Types : (t \in Wide \/ Len(v) = 1) => Function(t, v) \in BOOLEAN
  <2>1. SUFFICES ASSUME NEW t \in Types, t \in Wide \/ Len(v) = 1
                 PROVE  Function(t, v) \in BOOLEAN
    OBVIOUS
  <2>2. CASE t \in {"AND", "NAND", "OR", "NOR"}
    BY <2>2 DEF Function
  <2>3. CASE t \in {"XOR", "XNOR"}
    BY <2>3 DEF Function, Odd
  <2>4. CASE t \in {"BUF", "NOT"}
    <3>1. v[1] \in BOOLEAN
      BY <2>1, <2>4 DEF Wide
    <3>2. QED
      BY <2>4, <3>1 DEF Function
  <2>5. QED
    BY <2>2, <2>3, <2>4 DEF Types, Wide
<1>4. QED
  BY <1>1, <1>2, <1>3

(* A gate whose constants leave no gate has the value that is written.     *)
LEMMA ConstRight ==
  ASSUME NEW S, NEW pins \in Seq(S), NEW t \in Types, t \notin Wide => Len(pins) = 1,
         Constants \intersect Range(pins) # {}, IsConst(t, pins),
         NEW a \in [NamesIn(pins) -> BOOLEAN]
  PROVE  Function(t, ValuesOf(a, pins)) <=> ConstValue(t, pins)
<1> DEFINE v == ValuesOf(a, pins)
<1> DEFINE w == ValuesOf(a, Rest(pins))
<1>1. /\ v \in Seq(BOOLEAN) /\ DOMAIN v = DOMAIN pins /\ Len(v) = Len(pins)
      /\ w \in Seq(BOOLEAN) /\ DOMAIN w = DOMAIN Rest(pins)
      /\ Zero \in Range(pins) => \E i \in DOMAIN v : ~v[i]
      /\ One \in Range(pins) => \E i \in DOMAIN v : v[i]
      /\ Zero \notin Range(pins) =>
           ((\A i \in DOMAIN v : v[i]) <=> (\A i \in DOMAIN w : w[i]))
      /\ One \notin Range(pins) =>
           ((\E i \in DOMAIN v : v[i]) <=> (\E i \in DOMAIN w : w[i]))
      /\ Odd(v) <=> (Odd(w) <=> ~OddOnes(pins))
  BY RestValues
<1>2. Rest(pins) = << >> => DOMAIN w = {} /\ ~Odd(w)
  <2>1. SUFFICES ASSUME Rest(pins) = << >> PROVE DOMAIN w = {} /\ ~Odd(w)
    OBVIOUS
  <2>2. DOMAIN w = {}
    BY <1>1, <2>1
  <2>3. {i \in DOMAIN w : w[i]} = {} /\ Cardinality({}) = 0
    BY <2>2, FS_EmptySet
  <2>4. QED
    BY <2>2, <2>3 DEF Odd
<1> HIDE DEF v, w
<1>3. CASE t = "AND" \/ t = "NAND"
  <2>1. Zero \in Range(pins) \/ Rest(pins) = << >>
    BY <1>3 DEF IsConst
  <2>2. (\A i \in DOMAIN v : v[i]) <=> Zero \notin Range(pins)
    BY <1>1, <1>2, <2>1
  <2>3. QED
    BY <1>1, <1>3, <2>2, FunctionValues DEF ConstValue, v
<1>4. CASE t = "OR" \/ t = "NOR"
  <2>1. One \in Range(pins) \/ Rest(pins) = << >>
    BY <1>4 DEF IsConst
  <2>2. (\E i \in DOMAIN v : v[i]) <=> One \in Range(pins)
    BY <1>1, <1>2, <2>1
  <2>3. QED
    BY <1>1, <1>4, <2>2, FunctionValues DEF ConstValue, v
<1>5. CASE t = "XOR" \/ t = "XNOR"
  <2>1. Rest(pins) = << >>
    BY <1>5 DEF IsConst
  <2>2. Odd(v) <=> OddOnes(pins)
    BY <1>1, <1>2, <2>1
  <2>3. QED
    BY <1>1, <1>5, <2>2, FunctionValues DEF ConstValue, v
<1>6. CASE t = "BUF" \/ t = "NOT"
  <2>1. Len(pins) = 1
    BY <1>6 DEF Wide
  <2>2. Zero \in Range(pins) \/ One \in Range(pins)
    BY DEF Constants
  <2>3. DOMAIN v = {1} /\ (Function("BUF", v) <=> \A i \in DOMAIN v : v[i])
        /\ (Function("NOT", v) <=> ~ \A i \in DOMAIN v : v[i])
    BY <1>1, <2>1, FunctionValues
  <2>4. (\A i \in DOMAIN v : v[i]) <=> Zero \notin Range(pins)
    BY <1>1, <2>2, <2>3
  <2>5. QED
    BY <1>6, <2>3, <2>4 DEF ConstValue, v
<1>7. QED
  BY <1>3, <1>4, <1>5, <1>6 DEF Types, Wide

(* And otherwise the smaller gate computes the same.                       *)
LEMMA NewTypeRight ==
  ASSUME NEW S, NEW pins \in Seq(S), NEW t \in Types, t \notin Wide => Len(pins) = 1,
         Constants \intersect Range(pins) # {}, ~IsConst(t, pins),
         NEW a \in [NamesIn(pins) -> BOOLEAN]
  PROVE  /\ NewType(t, pins) \in Types
         /\ NewType(t, pins) \in Wide \/ Len(Rest(pins)) = 1
         /\ Function(NewType(t, pins), ValuesOf(a, Rest(pins))) <=> Function(t, ValuesOf(a, pins))
<1> DEFINE v == ValuesOf(a, pins)
<1> DEFINE w == ValuesOf(a, Rest(pins))
<1>1. /\ v \in Seq(BOOLEAN) /\ DOMAIN v = DOMAIN pins
      /\ w \in Seq(BOOLEAN) /\ DOMAIN w = DOMAIN Rest(pins) /\ Len(w) = Len(Rest(pins))
      /\ Rest(pins) \in Seq(NamesIn(pins))
      /\ Zero \notin Range(pins) =>
           ((\A i \in DOMAIN v : v[i]) <=> (\A i \in DOMAIN w : w[i]))
      /\ One \notin Range(pins) =>
           ((\E i \in DOMAIN v : v[i]) <=> (\E i \in DOMAIN w : w[i]))
      /\ Odd(v) <=> (Odd(w) <=> ~OddOnes(pins))
  BY RestValues
<1>2. Rest(pins) # << >>
  BY DEF IsConst
<1>3. t \in Wide
  <2>1. SUFFICES ASSUME Len(pins) = 1 PROVE FALSE
    OBVIOUS
  <2>2. \A n \in Range(pins) : n \in Constants
    <3>1. DOMAIN pins = {1}
      BY <2>1
    <3>2. QED
      BY <3>1 DEF Range
  <2>3. NamesIn(pins) = {}
    BY <2>2 DEF NamesIn
  <2>4. Rest(pins)[1] \in {}
    BY <1>1, <1>2, <2>3
  <2>5. QED
    BY <2>4
<1> DEFINE new == NewType(t, pins)
<1> DEFINE inverted == \/ t \in {"NAND", "NOR"}
                       \/ t = "XOR" /\ OddOnes(pins)
                       \/ t = "XNOR" /\ ~OddOnes(pins)
<1>4. new = IF Len(Rest(pins)) = 1 THEN (IF inverted THEN "NOT" ELSE "BUF")
            ELSE IF t \in {"XOR", "XNOR"} THEN (IF inverted THEN "XNOR" ELSE "XOR")
            ELSE t
  BY DEF NewType
<1>5. new \in Types
  BY <1>4 DEF Types, Wide
<1> DEFINE AllV == \A i \in DOMAIN v : v[i]
<1> DEFINE AllW == \A i \in DOMAIN w : w[i]
<1> DEFINE SomeV == \E i \in DOMAIN v : v[i]
<1> DEFINE SomeW == \E i \in DOMAIN w : w[i]
<1> HIDE DEF v, w, new
<1>6. Len(Rest(pins)) = 1 => (AllW <=> SomeW)
  BY <1>1, FunctionValues
<1>7. /\ (Function("AND", v) <=> AllV) /\ (Function("AND", w) <=> AllW)
      /\ (Function("NAND", v) <=> ~AllV) /\ (Function("NAND", w) <=> ~AllW)
      /\ (Function("OR", v) <=> SomeV) /\ (Function("OR", w) <=> SomeW)
      /\ (Function("NOR", v) <=> ~SomeV) /\ (Function("NOR", w) <=> ~SomeW)
      /\ (Function("XOR", v) <=> Odd(v)) /\ (Function("XOR", w) <=> Odd(w))
      /\ (Function("XNOR", v) <=> ~Odd(v)) /\ (Function("XNOR", w) <=> ~Odd(w))
      /\ Len(Rest(pins)) = 1 =>
           (Function("BUF", w) <=> AllW) /\ (Function("NOT", w) <=> ~AllW) /\ (Odd(w) <=> AllW)
  BY <1>1, FunctionValues
<1>8. /\ t \in {"AND", "NAND"} => (AllV <=> AllW)
      /\ t \in {"OR", "NOR"} => (SomeV <=> SomeW)
  BY <1>1 DEF IsConst
<1> HIDE DEF AllV, AllW, SomeV, SomeW
<1>9. Function(new, w) <=> Function(t, v)
  <2>1. CASE t = "AND"
    BY <1>4, <1>6, <1>7, <1>8, <2>1
  <2>2. CASE t = "NAND"
    BY <1>4, <1>6, <1>7, <1>8, <2>2
  <2>3. CASE t = "OR"
    BY <1>4, <1>6, <1>7, <1>8, <2>3
  <2>4. CASE t = "NOR"
    BY <1>4, <1>6, <1>7, <1>8, <2>4
  <2>5. CASE t = "XOR"
    BY <1>1, <1>4, <1>7, <2>5
  <2>6. CASE t = "XNOR"
    BY <1>1, <1>4, <1>7, <2>6
  <2>7. QED
    BY <1>3, <2>1, <2>2, <2>3, <2>4, <2>5, <2>6 DEF Wide
<1>10. new \in Wide \/ Len(Rest(pins)) = 1
  BY <1>3, <1>4 DEF Wide
<1>11. QED
  BY <1>5, <1>9, <1>10 DEF new, v, w

-----------------------------------------------------------------------------
(* The inductive invariant.                                                *)

WrittenGate == [type : Types, pins : Seq(Names \union {Zero}) \ {<< >>}]
Total == FoldLeft(GateCost, 0, written)

(* What is written so far are gates, each right, and none reads a one.     *)
GatesOK ==
  /\ patch \in Patches
  /\ pc \in {"nets", "gates", "done"}
  /\ written \in Seq(WrittenGate)
  /\ Len(written) <= Len(patch.gates)
  /\ \A k \in DOMAIN written : Right(written[k], patch.gates[k])
  /\ One \notin NamesRead

(* The cost is that of the part of the file that is written; each gate     *)
(* takes off at most the one that its net costs.                           *)
CostOK ==
  /\ useConst \in BOOLEAN /\ (useConst <=> Zero \in NamesRead)
  /\ pc = "nets" => written = << >>
  /\ Total \in Int /\ Total >= 0 - Len(written)
  /\ cost = IF pc = "nets" THEN 0
            ELSE patch.inputs + Len(patch.gates) + Total
                   + (IF pc = "done" /\ useConst THEN 1 ELSE 0)

IInv == GatesOK /\ CostOK

(* Before the first gate.                                                  *)
LEMMA InitIInv == Init => IInv
<1> SUFFICES ASSUME Init PROVE IInv
  OBVIOUS
<1>1. patch \in Patches /\ written = << >> /\ cost = 0 /\ useConst = FALSE /\ pc = "nets"
  BY DEF Init
<1>2. Len(written) = 0 /\ DOMAIN written = {} /\ written \in Seq(WrittenGate)
  BY <1>1
<1>3. NamesRead = {}
  BY <1>2 DEF NamesRead
<1>4. Total = 0
  BY <1>1, CostFold!FoldLeftEmpty, SameFolds DEF Total
<1>5. Len(patch.gates) \in Nat
  BY <1>1, PatchGateAssumption
<1>6. GatesOK
  BY <1>1, <1>2, <1>3, <1>5 DEF GatesOK
<1>7. useConst \in BOOLEAN /\ (useConst <=> Zero \in NamesRead)
  BY <1>1, <1>3
<1>8. Total \in Int /\ Total >= 0 - Len(written)
  BY <1>2, <1>4
<1>9. QED
  BY <1>1, <1>6, <1>7, <1>8 DEF IInv, CostOK

(* A gate that is right and whose cost and constant are counted.           *)
LEMMA WriteIInv ==
  ASSUME IInv, pc = "gates", pc' = pc, patch' = patch, Len(written) < Len(patch.gates),
         NEW g \in WrittenGate, One \notin Range(g.pins), Right(g, Wanted),
         written' = Append(written, g), cost' = cost - 2 + Len(g.pins),
         useConst' = (useConst \/ Zero \in Range(g.pins))
  PROVE  IInv'
<1>1. /\ patch \in Patches /\ written \in Seq(WrittenGate)
      /\ \A k \in DOMAIN written : Right(written[k], patch.gates[k])
      /\ One \notin NamesRead /\ useConst \in BOOLEAN /\ (useConst <=> Zero \in NamesRead)
      /\ Total \in Int /\ Total >= 0 - Len(written)
  BY DEF IInv, GatesOK, CostOK
<1>2. /\ Len(written) \in Nat /\ DOMAIN written = 1 .. Len(written)
      /\ Len(patch.gates) \in Nat /\ patch.inputs \in Nat
      /\ Len(g.pins) \in Nat /\ Len(g.pins) >= 1
  BY <1>1, PatchGateAssumption DEF WrittenGate
<1>3. /\ written' \in Seq(WrittenGate) /\ Len(written') = Len(written) + 1
      /\ DOMAIN written' = 1 .. Len(written) + 1 /\ written'[Len(written) + 1] = g
      /\ \A k \in 1 .. Len(written) : written'[k] = written[k]
  BY <1>1
<1>4. \A k : k \in 1 .. Len(written) + 1 <=> k \in 1 .. Len(written) \/ k = Len(written) + 1
  BY <1>2
<1>5. \A k \in DOMAIN written' : Right(written'[k], patch.gates[k])
  BY <1>1, <1>2, <1>3, <1>4 DEF Wanted
<1>6. NamesRead' = NamesRead \union Range(g.pins)
  BY <1>2, <1>3, <1>4 DEF NamesRead
<1>7. Total' = Total + Len(g.pins) - 2
  <2>1. CostFold!LeftFold(0, Append(written, g))
          = GateCost(CostFold!LeftFold(0, written), g)
    BY <1>1, CostFold!FoldLeftAppend
  <2>2. FoldLeft(GateCost, 0, Append(written, g)) = GateCost(Total, g)
    BY <2>1, SameFolds DEF Total
  <2>3. Total' = FoldLeft(GateCost, 0, written')
    BY DEF Total
  <2>4. QED
    BY <2>2, <2>3 DEF GateCost
<1>8. GatesOK'
  <2>1. Len(written') <= Len(patch.gates)
    BY <1>2, <1>3
  <2>2. One \notin NamesRead'
    BY <1>1, <1>6
  <2>3. \A k \in DOMAIN written' : Right(written'[k], patch'.gates[k])
    BY <1>5
  <2>4. (\A k \in DOMAIN written : Right(written[k], patch.gates[k]))'
    BY <2>3 DEF Right
  <2>5. QED
    BY <1>1, <1>3, <2>1, <2>2, <2>4 DEF GatesOK
<1>9. Total' \in Int /\ Total' >= 0 - Len(written')
  BY <1>1, <1>2, <1>3, <1>7
<1>10. cost' = patch.inputs + Len(patch.gates) + Total'
  <2>1. cost = patch.inputs + Len(patch.gates) + Total
    BY <1>1, <1>2 DEF IInv, CostOK
  <2>2. cost' = cost - 2 + Len(g.pins) /\ Total \in Int
    BY <1>1
  <2>3. QED
    <3> HIDE DEF Total
    <3>1. Total' = Total - 2 + Len(g.pins)
      BY <1>2, <1>7, <2>2
    <3>2. patch.inputs \in Int /\ Len(patch.gates) \in Int /\ Len(g.pins) \in Int
      BY <1>2
    <3> DEFINE i == patch.inputs
    <3> DEFINE n == Len(patch.gates)
    <3> DEFINE l == Len(g.pins)
    <3>3. i \in Int /\ n \in Int /\ l \in Int /\ cost = i + n + Total /\ cost' = cost - 2 + l
      BY <2>1, <2>2, <3>2
    <3> HIDE DEF i, n, l
    <3>4. cost' = i + n + (Total - 2 + l)
      <4> DEFINE t == Total
      <4>1. t \in Int /\ cost = i + n + t
        BY <2>2, <3>3
      <4> HIDE DEF t
      <4>2. cost' = i + n + (t - 2 + l)
        BY <3>3, <4>1
      <4>3. QED
        BY <4>2 DEF t
    <3>5. QED
      BY <3>1, <3>4 DEF i, n, l
<1>11. CostOK'
  <2>1. useConst' \in BOOLEAN /\ (useConst' <=> Zero \in NamesRead')
    BY <1>1, <1>6
  <2>2. cost' = IF pc' = "nets" THEN 0
                ELSE patch'.inputs + Len(patch'.gates) + Total'
                       + (IF pc' = "done" /\ useConst' THEN 1 ELSE 0)
    BY <1>1, <1>2, <1>9, <1>10
  <2>3. pc' # "nets"
    OBVIOUS
  <2>4. QED
    BY <1>9, <2>1, <2>2, <2>3 DEF CostOK
<1>12. QED
  BY <1>8, <1>11 DEF IInv

(* What a gate that is wanted may be.                                      *)
LEMMA WantedFacts ==
  ASSUME IInv, Len(written) < Len(patch.gates)
  PROVE  /\ Wanted.type \in Types
         /\ Wanted.pins \in Seq(Names) /\ Wanted.pins # << >>
         /\ Wanted.type \notin Wide => Len(Wanted.pins) = 1
         /\ Wanted.kind = "all" => Wanted.type = "BUF"
         /\ Wanted.kind = "inv" => Wanted.type = "NOT" /\ Wanted.pins[1] \notin Constants
<1>1. /\ patch \in Patches /\ Len(written) + 1 \in DOMAIN patch.gates
  BY PatchGateAssumption DEF IInv, GatesOK
<1>2. Wanted \in [kind : {"part", "all", "inv"}, type : Types, pins : Seq(Names) \ {<< >>}]
  <2> DEFINE R == [kind : {"part", "all", "inv"}, type : Types, pins : Seq(Names) \ {<< >>}]
  <2>1. patch.gates \in Seq(R)
    BY <1>1, PatchGateAssumption
  <2> HIDE DEF R
  <2>2. Wanted \in R
    BY <1>1, <2>1 DEF Wanted
  <2>3. QED
    BY <2>2 DEF R
<1>3. QED
  BY <1>1, <1>2, PatchGateAssumption DEF Wanted

(* Each way of writing a gate preserves the invariant: the output that is  *)
(* all patched to a net;                                                   *)
LEMMA WriteAllIInv == IInv /\ WriteAll => IInv'
<1> SUFFICES ASSUME IInv, WriteAll PROVE IInv'
  OBVIOUS
<1> DEFINE p == Wanted.pins
<1>1. /\ pc = "gates" /\ pc' = pc /\ patch' = patch /\ Len(written) < Len(patch.gates)
      /\ Wanted.kind = "all" /\ cost' = cost - 1
      /\ useConst' = (useConst \/ p[1] \in Constants)
      /\ written' = Append(written, IF p[1] = One THEN ConstGate(TRUE) ELSE Gate("BUF", p))
  BY DEF WriteAll, More
<1>2. Wanted.type = "BUF" /\ p \in Seq(Names) /\ Len(p) = 1 /\ p # << >>
  BY <1>1, WantedFacts DEF Wide
<1>3. Range(p) = {p[1]} /\ DOMAIN p = {1} /\ cost \in Int
  <2>1. DOMAIN p = {1}
    BY <1>2
  <2>2. cost \in Int
    BY <1>1, PatchGateAssumption DEF IInv, GatesOK, CostOK
  <2>3. QED
    BY <2>1, <2>2 DEF Range
<1>4. CASE p[1] = One
  <2> DEFINE g == ConstGate(TRUE)
  <2>1. g = [type |-> "NOT", pins |-> <<Zero>>]
    BY DEF ConstGate, Gate
  <2>2. g \in WrittenGate /\ Len(g.pins) = 1 /\ Range(g.pins) = {Zero}
    <3>1. <<Zero>> \in Seq(Names \union {Zero}) /\ <<Zero>> # << >> /\ Len(<<Zero>>) = 1
          /\ Range(<<Zero>>) = {Zero}
      BY DEF Range
    <3>2. "NOT" \in Types
      BY DEF Types
    <3> HIDE DEF g
    <3>3. g.type \in Types /\ g.pins \in Seq(Names \union {Zero}) \ {<< >>}
      BY <2>1, <3>1, <3>2
    <3>4. g \in WrittenGate
      BY <2>1, <3>3 DEF WrittenGate
    <3>5. QED
      BY <2>1, <3>1, <3>4
  <2>3. Right(g, Wanted)
    <3>1. SUFFICES ASSUME NEW a \in [NamesIn(p) -> BOOLEAN]
                   PROVE  Function(g.type, ValuesOf(a, g.pins)) = Function("BUF", ValuesOf(a, p))
      BY <1>2 DEF Right
    <3>2. Function(g.type, ValuesOf(a, g.pins)) = TRUE
      BY ConstGateValue
    <3>3. ValuesOf(a, p)[1] = TRUE
      BY <1>3, <1>4 DEF ValuesOf, Constants
    <3>4. QED
      BY <3>2, <3>3 DEF Function
  <2>4. One \notin Range(g.pins) /\ (useConst' = (useConst \/ Zero \in Range(g.pins)))
    BY <1>1, <1>4, <2>2 DEF Constants, Zero, One
  <2>5. written' = Append(written, g)
    BY <1>1, <1>4
  <2>6. cost' = cost - 1 /\ Len(g.pins) = 1 /\ cost \in Int
    BY <1>1, <1>3, <2>2
  <2> HIDE DEF g
  <2>7. cost' = cost - 2 + Len(g.pins)
    BY <2>6
  <2>8. QED
    BY <1>1, <2>2, <2>3, <2>4, <2>5, <2>7, WriteIInv
<1>5. CASE p[1] # One
  <2> DEFINE g == Gate("BUF", p)
  <2>1. g = [type |-> "BUF", pins |-> p] /\ g.pins = p /\ g.type = "BUF"
    BY DEF Gate
  <2>2. g \in WrittenGate
    BY <1>2, <2>1 DEF WrittenGate, Types
  <2>3. Right(g, Wanted)
    BY <1>2, <2>1 DEF Right
  <2>4. One \notin Range(g.pins) /\ (useConst' = (useConst \/ Zero \in Range(g.pins)))
    BY <1>1, <1>3, <1>5, <2>1 DEF Constants
  <2>5. written' = Append(written, g)
    BY <1>1, <1>5
  <2>6. cost' = cost - 1 /\ Len(g.pins) = 1 /\ cost \in Int
    BY <1>1, <1>2, <1>3, <2>1
  <2> HIDE DEF g
  <2>7. cost' = cost - 2 + Len(g.pins)
    BY <2>6
  <2>8. QED
    BY <1>1, <2>2, <2>3, <2>4, <2>5, <2>7, WriteIInv
<1>6. QED
  BY <1>4, <1>5

(* the inverter;                                                           *)
LEMMA WriteInverterIInv == IInv /\ WriteInverter => IInv'
<1> SUFFICES ASSUME IInv, WriteInverter PROVE IInv'
  OBVIOUS
<1> DEFINE p == Wanted.pins
<1> DEFINE g == Gate("NOT", p)
<1>1. /\ pc = "gates" /\ pc' = pc /\ patch' = patch /\ Len(written) < Len(patch.gates)
      /\ Wanted.kind = "inv" /\ cost' = cost - 1 /\ useConst' = useConst
      /\ written' = Append(written, g)
  BY DEF WriteInverter, More
<1>2. Wanted.type = "NOT" /\ p \in Seq(Names) /\ Len(p) = 1 /\ p # << >> /\ p[1] \notin Constants
  BY <1>1, WantedFacts DEF Wide
<1>3. Range(p) = {p[1]} /\ cost \in Int
  <2>1. DOMAIN p = {1}
    BY <1>2
  <2>2. cost \in Int
    BY <1>1, PatchGateAssumption DEF IInv, GatesOK, CostOK
  <2>3. QED
    BY <2>1, <2>2 DEF Range
<1>4. g = [type |-> "NOT", pins |-> p] /\ g.pins = p /\ g.type = "NOT"
  BY DEF Gate
<1>5. g \in WrittenGate /\ Right(g, Wanted)
  BY <1>2, <1>4 DEF WrittenGate, Types, Right
<1>6. One \notin Range(g.pins) /\ Zero \notin Range(g.pins) /\ useConst \in BOOLEAN
  BY <1>2, <1>3, <1>4 DEF Constants, IInv, CostOK
<1>7. cost' = cost - 2 + Len(g.pins) /\ useConst' = (useConst \/ Zero \in Range(g.pins))
  <2>1. cost' = cost - 1 /\ Len(g.pins) = 1 /\ cost \in Int
    BY <1>1, <1>2, <1>3, <1>4
  <2>2. useConst' = (useConst \/ Zero \in Range(g.pins))
    BY <1>1, <1>6
  <2> HIDE DEF g
  <2>3. cost' = cost - 2 + Len(g.pins)
    BY <2>1
  <2>4. QED
    BY <2>2, <2>3
<1> HIDE DEF g
<1>8. QED
  BY <1>1, <1>5, <1>6, <1>7, WriteIInv

(* a gate that reads no constant;                                          *)
LEMMA WriteWholeIInv == IInv /\ WriteWhole => IInv'
<1> SUFFICES ASSUME IInv, WriteWhole PROVE IInv'
  OBVIOUS
<1> DEFINE g == Gate(Wanted.type, Wanted.pins)
<1>1. /\ pc = "gates" /\ pc' = pc /\ patch' = patch /\ Len(written) < Len(patch.gates)
      /\ cost' = cost - 2 + Len(Wanted.pins) /\ useConst' = useConst
      /\ written' = Append(written, g)
      /\ Constants \intersect Range(Wanted.pins) = {}
  BY DEF WriteWhole, More
<1>2. Wanted.type \in Types /\ Wanted.pins \in Seq(Names) \ {<< >>}
  BY <1>1, WantedFacts
<1>3. g.pins = Wanted.pins /\ g.type = Wanted.type /\ g \in WrittenGate
  BY <1>2 DEF Gate, WrittenGate
<1>4. Right(g, Wanted)
  BY <1>3 DEF Right
<1>5. One \notin Range(g.pins) /\ useConst' = (useConst \/ Zero \in Range(g.pins))
  BY <1>1, <1>3 DEF Constants, IInv, CostOK
<1> HIDE DEF g
<1>6. QED
  BY <1>1, <1>3, <1>4, <1>5, WriteIInv

(* one whose constants decide it;                                          *)
LEMMA WriteConstIInv == IInv /\ WriteConst => IInv'
<1> SUFFICES ASSUME IInv, WriteConst PROVE IInv'
  OBVIOUS
<1> DEFINE p == Wanted.pins
<1> DEFINE t == Wanted.type
<1> DEFINE g == ConstGate(ConstValue(t, p))
<1>1. /\ pc = "gates" /\ pc' = pc /\ patch' = patch /\ Len(written) < Len(patch.gates)
      /\ cost' = cost - 2 + 1 /\ useConst' = TRUE
      /\ written' = Append(written, g)
      /\ Constants \intersect Range(p) # {} /\ IsConst(t, p)
  BY DEF WriteConst, More
<1>2. t \in Types /\ p \in Seq(Names) /\ (t \notin Wide => Len(p) = 1)
  BY <1>1, WantedFacts
<1>3. ConstValue(t, p) \in BOOLEAN
  <2>1. CASE t \in {"BUF", "NOT", "AND", "NAND", "OR", "NOR"}
    <3>1. CASE t \in {"BUF", "AND"}
      BY <3>1 DEF ConstValue
    <3>2. CASE t = "NOT"
      BY <3>2 DEF ConstValue
    <3>3. CASE t = "NAND"
      BY <3>3 DEF ConstValue
    <3>4. CASE t = "OR"
      BY <3>4 DEF ConstValue
    <3>5. CASE t = "NOR"
      BY <3>5 DEF ConstValue
    <3>6. QED
      BY <2>1, <3>1, <3>2, <3>3, <3>4, <3>5
  <2>2. CASE t \in {"XOR", "XNOR"}
    BY <2>2 DEF ConstValue, OddOnes
  <2>3. QED
    BY <1>2, <2>1, <2>2 DEF Types, Wide
<1>4. g.type \in {"NOT", "BUF"} /\ g.pins = <<Zero>> /\ g \in WrittenGate
  <2>1. <<Zero>> \in Seq(Names \union {Zero}) /\ <<Zero>> # << >>
    OBVIOUS
  <2>2. QED
    BY <2>1 DEF ConstGate, Gate, WrittenGate, Types
<1>5. Right(g, Wanted)
  <2>1. SUFFICES ASSUME NEW a \in [NamesIn(p) -> BOOLEAN]
                 PROVE  Function(g.type, ValuesOf(a, g.pins)) = Function(t, ValuesOf(a, p))
    BY DEF Right
  <2>2. Function(g.type, ValuesOf(a, g.pins)) = ConstValue(t, p)
    BY <1>3, ConstGateValue
  <2>3. Function(t, ValuesOf(a, p)) <=> ConstValue(t, p)
    BY <1>1, <1>2, ConstRight
  <2>4. Function(t, ValuesOf(a, p)) \in BOOLEAN
    <3>1. ValuesOf(a, p) \in Seq(BOOLEAN) /\ DOMAIN ValuesOf(a, p) = DOMAIN p
      BY <1>2, RestValues
    <3>2. Len(ValuesOf(a, p)) = Len(p)
      BY <1>2, <3>1
    <3>3. QED
      BY <1>2, <3>1, <3>2, FunctionValues
  <2>5. QED
    BY <1>3, <2>2, <2>3, <2>4
<1>6. One \notin Range(g.pins) /\ Zero \in Range(g.pins) /\ Len(g.pins) = 1
  BY <1>4 DEF Range, Zero, One
<1>7. useConst' = (useConst \/ Zero \in Range(g.pins)) /\ cost' = cost - 2 + Len(g.pins)
  BY <1>1, <1>6
<1> HIDE DEF g
<1>8. QED
  BY <1>1, <1>4, <1>5, <1>6, <1>7, WriteIInv

(* and one that is written as a smaller one.                               *)
LEMMA WriteRestIInv == IInv /\ WriteRest => IInv'
<1> SUFFICES ASSUME IInv, WriteRest PROVE IInv'
  OBVIOUS
<1> DEFINE p == Wanted.pins
<1> DEFINE t == Wanted.type
<1> DEFINE g == Gate(NewType(t, p), Rest(p))
<1>1. /\ pc = "gates" /\ pc' = pc /\ patch' = patch /\ Len(written) < Len(patch.gates)
      /\ cost' = cost - 2 + Len(Rest(p)) /\ useConst' = useConst
      /\ written' = Append(written, g)
      /\ Constants \intersect Range(p) # {} /\ ~IsConst(t, p)
  BY DEF WriteRest, More
<1>2. t \in Types /\ p \in Seq(Names) /\ (t \notin Wide => Len(p) = 1)
  BY <1>1, WantedFacts
<1>3. g.type = NewType(t, p) /\ g.pins = Rest(p)
  BY DEF Gate
<1>4. [n \in NamesIn(p) |-> TRUE] \in [NamesIn(p) -> BOOLEAN]
  OBVIOUS
<1>5. Rest(p) \in Seq(NamesIn(p)) /\ NewType(t, p) \in Types
  BY <1>1, <1>2, <1>4, RestValues, NewTypeRight
<1>6. NamesIn(p) \subseteq Names
  BY <1>2 DEF NamesIn, Range
<1>7. Rest(p) \in Seq(Names \union {Zero}) /\ Rest(p) # << >>
  BY <1>1, <1>5, <1>6 DEF IsConst
<1>8. g \in WrittenGate
  BY <1>5, <1>7 DEF Gate, WrittenGate
<1>9. Right(g, Wanted)
  <2>1. SUFFICES ASSUME NEW a \in [NamesIn(p) -> BOOLEAN]
                 PROVE  Function(NewType(t, p), ValuesOf(a, Rest(p))) = Function(t, ValuesOf(a, p))
    BY <1>3 DEF Right
  <2>2. Function(NewType(t, p), ValuesOf(a, Rest(p))) <=> Function(t, ValuesOf(a, p))
    BY <1>1, <1>2, NewTypeRight
  <2>3. Function(t, ValuesOf(a, p)) \in BOOLEAN
    <3>1. ValuesOf(a, p) \in Seq(BOOLEAN) /\ DOMAIN ValuesOf(a, p) = DOMAIN p
      BY <1>2, RestValues
    <3>2. Len(ValuesOf(a, p)) = Len(p)
      BY <1>2, <3>1
    <3>3. QED
      BY <1>2, <3>1, <3>2, FunctionValues
  <2>4. Function(NewType(t, p), ValuesOf(a, Rest(p))) \in BOOLEAN
    <3>1. ValuesOf(a, Rest(p)) \in Seq(BOOLEAN) /\ Len(ValuesOf(a, Rest(p))) = Len(Rest(p))
      BY <1>2, RestValues
    <3>2. NewType(t, p) \in Wide \/ Len(Rest(p)) = 1
      BY <1>1, <1>2, NewTypeRight
    <3>3. QED
      BY <1>5, <3>1, <3>2, FunctionValues
  <2>5. QED
    BY <2>2, <2>3, <2>4
<1>10. One \notin Range(g.pins) /\ Zero \notin Range(g.pins)
  BY <1>3, <1>5 DEF Range, NamesIn, Constants
<1>11. useConst' = (useConst \/ Zero \in Range(g.pins)) /\ cost' = cost - 2 + Len(g.pins)
  BY <1>1, <1>3, <1>10 DEF IInv, CostOK
<1> HIDE DEF g
<1>12. QED
  BY <1>1, <1>8, <1>9, <1>10, <1>11, WriteIInv

(* Every step preserves the invariant.                                     *)
LEMMA NextIInv == IInv /\ [Next]_vars => IInv'
<1> SUFFICES ASSUME IInv, [Next]_vars PROVE IInv'
  OBVIOUS
<1>1. /\ patch \in Patches /\ patch.inputs \in Int /\ Len(patch.gates) \in Int
      /\ Total \in Int
  BY PatchGateAssumption DEF IInv, GatesOK, CostOK
<1>2. CASE DeclareNets
  <2>1. /\ pc = "nets" /\ pc' = "gates" /\ patch' = patch /\ written' = written
        /\ useConst' = FALSE /\ cost' = cost + patch.inputs + Len(patch.gates)
    BY <1>2 DEF DeclareNets
  <2>2. NamesRead' = NamesRead /\ Total' = Total
    BY <2>1 DEF NamesRead, Total
  <2>3. GatesOK'
    BY <2>1, <2>2 DEF IInv, GatesOK, Right
  <2>4. written = << >> /\ cost = 0
    BY <2>1 DEF IInv, CostOK
  <2>5. Total = 0 /\ Zero \notin NamesRead
    BY <2>4, CostFold!FoldLeftEmpty, SameFolds DEF Total, NamesRead
  <2>6. cost' = patch.inputs + Len(patch.gates) + Total'
    BY <1>1, <2>1, <2>2, <2>4, <2>5
  <2>7. Total' >= 0 - Len(written')
    BY <2>1, <2>2 DEF IInv, CostOK
  <2>8. useConst' \in BOOLEAN /\ (useConst' <=> Zero \in NamesRead')
    BY <2>1, <2>2, <2>5
  <2>9. QED
    BY <1>1, <2>1, <2>2, <2>3, <2>6, <2>7, <2>8 DEF IInv, CostOK
<1>3. CASE Finish
  <2>1. /\ pc = "gates" /\ pc' = "done" /\ patch' = patch /\ written' = written
        /\ useConst' = useConst /\ cost' = cost + (IF useConst THEN 1 ELSE 0)
    BY <1>3 DEF Finish
  <2>2. NamesRead' = NamesRead /\ Total' = Total
    BY <2>1 DEF NamesRead, Total
  <2>3. GatesOK'
    BY <2>1, <2>2 DEF IInv, GatesOK, Right
  <2>4. cost = patch.inputs + Len(patch.gates) + Total
    BY <1>1, <2>1 DEF IInv, CostOK
  <2>5. cost' = patch.inputs + Len(patch.gates) + Total' + (IF useConst' THEN 1 ELSE 0)
    BY <2>1, <2>2, <2>4
  <2>6. Total' \in Int /\ Total' >= 0 - Len(written')
    BY <1>1, <2>1, <2>2 DEF IInv, CostOK
  <2>7. useConst' \in BOOLEAN /\ (useConst' <=> Zero \in NamesRead')
    BY <2>1, <2>2 DEF IInv, CostOK
  <2>8. QED
    BY <2>1, <2>3, <2>5, <2>6, <2>7 DEF IInv, CostOK
<1>4. CASE UNCHANGED vars
  BY <1>4 DEF vars, IInv, GatesOK, CostOK, NamesRead, Total, Right
<1>5. QED
  BY <1>2, <1>3, <1>4, WriteAllIInv, WriteInverterIInv, WriteWholeIInv, WriteConstIInv,
     WriteRestIInv DEF Next

(* The invariant holds in every reachable state.                           *)
LEMMA SpecIInv == Spec => []IInv
<1>1. QED
  BY InitIInv, NextIInv, PTL DEF Spec

-----------------------------------------------------------------------------

(* Each gate in the file computes what was wanted of it, whatever the nets *)
(* it reads carry (the table of outputGateInPatch).                        *)
THEOREM WrittenGatesRight == Spec => []GatesRight
<1>1. IInv => GatesRight
  BY DEF IInv, GatesOK, GatesRight, Right
<1>2. QED
  BY <1>1, SpecIInv, PTL

(* The cost of a patch that is written is that of the file, with a net for *)
(* the constant just when a gate reads it (_cost, _useConst).              *)
THEOREM PatchCost == Spec => []CostRight
<1>1. ASSUME IInv, pc = "done"
      PROVE  Cardinality(NamesRead \intersect {Zero}) = IF useConst THEN 1 ELSE 0
  <2>1. CASE useConst
    <3>1. NamesRead \intersect {Zero} = {Zero}
      BY <1>1, <2>1 DEF IInv, CostOK
    <3>2. QED
      BY <2>1, <3>1, FS_Singleton
  <2>2. CASE ~useConst
    <3>1. NamesRead \intersect {Zero} = {}
      BY <1>1, <2>2 DEF IInv, CostOK
    <3>2. QED
      BY <2>2, <3>1, FS_EmptySet
  <2>3. QED
    BY <1>1, <2>1, <2>2 DEF IInv, CostOK
<1>2. ASSUME IInv PROVE CostRight
  <2>1. SUFFICES ASSUME pc = "done" PROVE CostRight
    BY DEF CostRight
  <2> DEFINE x == IF useConst THEN 1 ELSE 0
  <2>2. cost = patch.inputs + Len(patch.gates) + Total + x
    BY <1>2, <2>1 DEF IInv, CostOK
  <2>3. /\ patch.inputs \in Int /\ Len(patch.gates) \in Int /\ Total \in Int /\ x \in Int
        /\ One \notin NamesRead
    BY <1>2, PatchGateAssumption DEF IInv, GatesOK, CostOK
  <2>4. Cardinality(NamesRead \intersect {Zero}) = x
    BY <1>1, <1>2, <2>1
  <2> HIDE DEF x
  <2>5. cost = patch.inputs + Len(patch.gates) + x + Total
    BY <2>2, <2>3
  <2>6. QED
    BY <2>3, <2>4, <2>5 DEF CostRight, Total
<1>3. QED
  BY <1>2, SpecIInv, PTL

(* The cost is unsigned, but it never wraps: every gate takes off at most  *)
(* the one that its net has added.                                         *)
THEOREM CostNeverWraps == Spec => [](cost \in Nat)
<1>1. ASSUME IInv PROVE cost \in Nat
  <2> DEFINE i == patch.inputs
  <2> DEFINE n == Len(patch.gates)
  <2> DEFINE x == IF pc = "done" /\ useConst THEN 1 ELSE 0
  <2>1. /\ i \in Nat /\ n \in Nat /\ Total \in Int /\ x \in {0, 1}
        /\ Len(written) \in Nat /\ Len(written) <= n /\ Total >= 0 - Len(written)
    BY <1>1, PatchGateAssumption DEF IInv, GatesOK, CostOK
  <2>2. cost = 0 \/ cost = i + n + Total + x
    BY <1>1 DEF IInv, CostOK
  <2> HIDE DEF i, n, x
  <2>3. QED
    BY <2>1, <2>2
<1>2. QED
  BY <1>1, SpecIInv, PTL
=============================================================================
