---------------------------- MODULE CutEnumProofs -----------------------------
(***************************************************************************)
(* The search for the cuts of a gate, for every netlist, every lowest cut  *)
(* and all merged gates: no assertion fails, each call leaves the cut that *)
(* it found, and the cuts that are found are all that there are.           *)
(*                                                                         *)
(* The cut that a decision starts from is legal: IsLegal.  Popping a gate  *)
(* and legalizing moves it up only (Moved), and each gate that leaves it   *)
(* is above the popped one (Popped).  A recovery has to undo exactly this, *)
(* which it does in two phases, PuttingBack and Recovering, that compare   *)
(* the flags with those the call found.  IInv says in which phase the last *)
(* call is; one lemma per action keeps it.  FoundSoundly takes from it     *)
(* that a legal cut is a cut.  FoundCompletely follows each cut that is    *)
(* not found yet: it is above the cut of the search (UpTo), or above that  *)
(* of a call that has yet to pop its gate (Later).                         *)
(***************************************************************************)
EXTENDS CutEnum, NetCutsProofs

Flags == {"EMPTY", "ABOVE", "BELOW", "CUT", "TAKEN", "DUP"}
OnCut == {"CUT", "TAKEN", "DUP"}

-----------------------------------------------------------------------------
(* The netlist of a search, with the marks of its lowest cut.              *)
Net == [fanin |-> fanin, gates |-> reached, dups |-> Range(dup), lowest |-> lowest,
        news |-> {g \in Gate : isNew[g]}, changed |-> dupMergeChange]
Reads(n, g) == Range(n.fanin[g]) \intersect n.gates
Inner(n) == n.gates \ (n.lowest \union n.dups)

(* Every gate of the cone is read by one above the lowest cut, and those   *)
(* read gates of the cone only.  New gates are on the lowest cut.          *)
NetRight(n) ==
  /\ n.fanin \in [Gate -> Seq(Gate)] /\ \A g \in Gate : Range(n.fanin[g]) \subseteq 1 .. (g - 1)
  /\ n.gates \subseteq Gate /\ Root \in n.gates
  /\ n.dups \subseteq n.gates \ {Root}
  /\ n.lowest \subseteq n.gates \ {Root} /\ n.lowest \intersect n.dups = {}
  /\ \A g \in n.gates \ {Root} : \E h \in Inner(n) : g \in Reads(n, h)
  /\ \A g \in Inner(n) : n.fanin[g] # <<>> /\ Range(n.fanin[g]) \subseteq n.gates
  /\ n.news \subseteq n.lowest \union n.dups
  /\ n.changed \in BOOLEAN /\ (n.changed => n.dups # {})

-----------------------------------------------------------------------------
(* The flags are those of a cut at or above the lowest one.                *)
FlagsRight(n, f) ==
  /\ f \in [Gate -> Flags]
  /\ \A g \in Gate : f[g] = "EMPTY" <=> g \notin n.gates
  /\ \A g \in Gate : f[g] = "DUP" <=> g \in n.dups
  /\ \A g \in n.lowest : f[g] # "ABOVE"
  /\ f[Root] \in {"ABOVE", "CUT"}

(* No gate above the cut reads one below it; what a gate on the cut or     *)
(* below it reads is below it.                                             *)
Split(n, f) == \A g \in n.gates : f[g] = "ABOVE" => \A h \in Reads(n, g) : f[h] # "BELOW"
Closed(n, f) == \A g \in n.gates : f[g] # "ABOVE" => \A h \in Reads(n, g) : f[h] = "BELOW"
IsLegal(n, f) == FlagsRight(n, f) /\ Split(n, f) /\ Closed(n, f)

(* The count goes down for each new gate that is not on the cut.           *)
OffCut(n, f) == {g \in n.news : f[g] \notin OnCut}
Total(n) == IF n.changed THEN Unlimited ELSE Cardinality(n.news)
Count(n, f) == Total(n) - Cardinality(OffCut(n, f))

(* What a call that popped its gate has done to a cut, when gates is what  *)
(* it removed: the gates that were above the cut and are not have below    *)
(* them one that it removed, or another such gate.                         *)
Moved(n, b, f) ==
  \A g \in n.gates : /\ b[g] \in {"BELOW", "TAKEN", "DUP"} => f[g] = b[g]
                     /\ b[g] = "CUT" => f[g] \in {"CUT", "BELOW"}
                     /\ b[g] = "ABOVE" => f[g] \in {"ABOVE", "CUT", "BELOW"}
RemovedRight(n, b, f, gates) ==
  /\ \A g \in gates : /\ g \in n.gates /\ b[g] # "BELOW"
                      /\ b[g] = "ABOVE" => f[g] # "ABOVE"
  /\ \A g \in n.gates : b[g] = "CUT" /\ f[g] = "BELOW" => g \in gates
Changed(n, b, f) == {g \in n.gates : b[g] = "ABOVE" /\ f[g] # "ABOVE"}
Supported(n, b, f, gates, g) == \E u \in Reads(n, g) : u \in gates \/ u \in Changed(n, b, f)
Popped(n, b, f, gates) ==
  /\ Moved(n, b, f) /\ RemovedRight(n, b, f, gates)
  /\ \A g \in Changed(n, b, f) : Supported(n, b, f, gates, g)

(* While the cut b is legalized: what is read is still to be checked for   *)
(* the gates in Q; what reads a gate that was covered is on the cut or     *)
(* covered itself.                                                         *)
BaseRight(n, b) ==
  /\ FlagsRight(n, b) /\ Split(n, b)
  /\ \A g \in n.gates \ {Root} : b[g] # "BELOW" => \E h \in n.gates : g \in Reads(n, h) /\ b[h] = "ABOVE"
FaninsPending(n, f, Q, W) ==
  \A g \in n.gates : f[g] # "ABOVE" =>
    \/ f[g] # "BELOW" /\ g \in Q
    \/ \A h \in Reads(n, g) : f[h] = "BELOW" \/ h \in W
FanoutsCovered(n, b, f, c, S) ==
  \A g \in n.gates : f[g] = "BELOW" /\ b[g] # "BELOW" =>
    /\ b[g] = "CUT" => c[g]
    /\ c[g] => \A h \in n.gates : g \in Reads(n, h) =>
                 f[h] \in OnCut \/ (f[h] = "BELOW" /\ c[h]) \/ h \in S
Legalizing(n, b, f, c, Q, W, S) ==
  /\ Moved(n, b, f) /\ FaninsPending(n, f, Q, W) /\ FanoutsCovered(n, b, f, c, S)
  /\ \A g \in Q : f[g] # "ABOVE"
  /\ Root \notin W

(* gates: what the call removed so far; first: what it checks next.        *)
Supporting(n, b, f, gates, first, S) ==
  /\ RemovedRight(n, b, f, gates)
  /\ \A g \in Changed(n, b, f) : Supported(n, b, f, gates, g) \/ \E h \in first : h \in Reads(n, g)
  /\ \A h \in S \intersect n.gates : Supported(n, b, f, gates, h)

(* While a call recovers the cut b: what was above the cut is above it     *)
(* again or has a gate below it that is still to be looked at.             *)
PuttingBack(n, b, f, Q, W, gates) ==
  /\ Moved(n, b, f)
  /\ gates \subseteq Q \union W
  /\ \A g \in Q \union W : g \in n.gates /\ b[g] # "BELOW" /\ (b[g] = "ABOVE" => f[g] # "ABOVE")
  /\ \A g \in n.gates : b[g] = "CUT" /\ f[g] = "BELOW" => g \in W
  /\ \A g \in Changed(n, b, f) : Supported(n, b, f, gates, g)
Recovering(n, b, f, Q, W, S) ==
  /\ Moved(n, b, f)
  /\ \A g \in n.gates : b[g] = "CUT" => f[g] = "CUT"
  /\ \A g \in Q : g \in n.gates /\ b[g] # "BELOW"
  /\ \A g \in W \intersect n.gates : b[g] = "ABOVE"
  /\ \A g \in S \intersect n.gates : b[g] # "BELOW"
  /\ \A g \in Changed(n, b, f) :
       g \in W \/ \E u \in Reads(n, g) : u \in Changed(n, b, f) \/ (b[u] \in OnCut /\ u \in Q)

-----------------------------------------------------------------------------
(* About netlists.                                                         *)
LEMMA GatesAreNat == Gate \subseteq Nat /\ Root \in Gate /\ IsFiniteSet(Gate)
<1>1. N \in Nat \ {0}
  BY CutEnumAssumption
<1>2. QED
  BY <1>1, FS_Interval DEF Gate, Root

(* A set of gates that is not empty has a least and a largest gate.        *)
LEMMA LeastGate ==
  ASSUME NEW S \in SUBSET Gate, S # {}
  PROVE  \E g \in S : \A h \in S : g <= h
<1>1. IsFiniteSet(S) /\ S \in SUBSET Nat
  BY GatesAreNat, FS_Subset
<1>2. Min(S) \in S /\ \A x \in S : Min(S) <= x
  BY <1>1, MinOfNats
<1>3. QED
  BY <1>2

(* A set of gates has a largest one.                                       *)
LEMMA LargestGate ==
  ASSUME NEW S \in SUBSET Gate, S # {}
  PROVE  \E g \in S : \A h \in S : h <= g
<1>1. IsFiniteSet(S) /\ S \in SUBSET Nat
  BY GatesAreNat, FS_Subset
<1>2. Max(S) \in S /\ \A x \in S : x <= Max(S)
  BY <1>1, MaxOfNats
<1>3. QED
  BY <1>2

(* What a gate reads in the cone has a smaller number.                     *)
LEMMA ReadsLess ==
  ASSUME NEW n, NetRight(n), NEW g \in n.gates, NEW h \in Reads(n, g)
  PROVE  h \in n.gates /\ h \in Gate /\ g \in Gate /\ h < g
<1>1. g \in Gate /\ h \in n.gates /\ h \in Range(n.fanin[g])
  BY DEF Reads, NetRight
<1>2. h \in 1 .. (g - 1) /\ h \in Gate
  BY <1>1 DEF NetRight
<1>3. QED
  BY <1>1, <1>2, GatesAreNat

(* A gate above the lowest cut reads one.                                  *)
LEMMA InnerReads ==
  ASSUME NEW n, NetRight(n), NEW g \in Inner(n)
  PROVE  Reads(n, g) # {} /\ Reads(n, g) = Range(n.fanin[g])
<1>1. g \in Gate /\ n.fanin[g] # <<>> /\ Range(n.fanin[g]) \subseteq n.gates /\ n.fanin[g] \in Seq(Gate)
  BY DEF NetRight, Inner
<1>2. 1 \in DOMAIN n.fanin[g]
  BY <1>1
<1>3. n.fanin[g][1] \in Range(n.fanin[g])
  BY <1>2 DEF Range
<1>4. QED
  BY <1>1, <1>3 DEF Reads

(* What is above a cut is above the lowest one.                            *)
LEMMA AboveIsInner ==
  ASSUME NEW n, NetRight(n), NEW f, FlagsRight(n, f), NEW g \in n.gates, f[g] = "ABOVE"
  PROVE  g \in Inner(n) /\ g \notin n.news
BY DEF NetRight, FlagsRight, Inner

(* The flags of a gate of the cone.                                        *)
LEMMA FlagOf ==
  ASSUME NEW n, NetRight(n), NEW f, FlagsRight(n, f), NEW g \in n.gates
  PROVE  /\ g \in Gate /\ f[g] \in {"ABOVE", "BELOW", "CUT", "TAKEN", "DUP"}
         /\ f[g] = "DUP" <=> g \in n.dups
BY DEF NetRight, FlagsRight, Flags

-----------------------------------------------------------------------------
(* One flag, or one cover, is set.                                         *)
Put(f, g, x) == [f EXCEPT ![g] = x]

(* Setting one entry changes that entry.                                   *)
LEMMA PutIs ==
  ASSUME NEW E, NEW f \in [Gate -> E], NEW g \in Gate, NEW x \in E
  PROVE  /\ Put(f, g, x) \in [Gate -> E] /\ Put(f, g, x)[g] = x
         /\ \A h \in Gate : h # g => Put(f, g, x)[h] = f[h]
BY DEF Put

Movable == {"ABOVE", "BELOW", "CUT", "TAKEN"}

(* A gate that is not merged may get any flag that its place in the cone   *)
(* allows: the root is not popped, and nothing of the lowest cut is above  *)
(* the cut.                                                                *)
LEMMA FlagsPut ==
  ASSUME NEW n, NetRight(n), NEW f, FlagsRight(n, f), NEW g \in n.gates, f[g] # "DUP",
         NEW x \in Movable, x = "ABOVE" => g \notin n.lowest, g = Root => x \in {"ABOVE", "CUT"}
  PROVE  /\ FlagsRight(n, Put(f, g, x)) /\ Put(f, g, x)[g] = x
         /\ \A h \in Gate : h # g => Put(f, g, x)[h] = f[h]
<1>1. g \in Gate /\ f \in [Gate -> Flags] /\ x \in Flags /\ n.lowest \subseteq Gate /\ Root \in Gate
  BY GatesAreNat DEF NetRight, FlagsRight, Flags, Movable
<1> DEFINE p == Put(f, g, x)
<1>2. p \in [Gate -> Flags] /\ p[g] = x /\ \A h \in Gate : h # g => p[h] = f[h]
  BY <1>1, PutIs
<1> HIDE DEF p
<1>3. \A h \in Gate : (p[h] = "EMPTY" <=> h \notin n.gates) /\ (p[h] = "DUP" <=> h \in n.dups)
  BY <1>2 DEF FlagsRight, Movable
<1>4. \A h \in n.lowest : p[h] # "ABOVE"
  BY <1>1, <1>2 DEF FlagsRight
<1>5. p[Root] \in {"ABOVE", "CUT"}
  BY <1>1, <1>2 DEF FlagsRight
<1>6. FlagsRight(n, p)
  BY <1>2, <1>3, <1>4, <1>5 DEF FlagsRight
<1>7. QED
  BY <1>2, <1>6 DEF p

(* The count of new gates on the cut.                                      *)
LEMMA NewsFinite ==
  ASSUME NEW n, NetRight(n), NEW f
  PROVE  /\ IsFiniteSet(n.news) /\ n.news \subseteq n.gates /\ IsFiniteSet(OffCut(n, f))
         /\ Cardinality(OffCut(n, f)) \in Nat /\ Cardinality(n.news) \in Nat
         /\ Cardinality(OffCut(n, f)) <= Cardinality(n.news)
         /\ Cardinality(n.news) <= N
         /\ Total(n) \in Nat /\ Count(n, f) \in Nat
<1>1. n.news \subseteq n.gates /\ n.news \subseteq Gate
  BY DEF NetRight
<1>2. N \in Nat /\ Cardinality(Gate) = N
  <2>1. N \in Nat \ {0}
    BY CutEnumAssumption
  <2>2. Cardinality(1 .. N) = N
    BY <2>1, FS_Interval
  <2>3. QED
    BY <2>1, <2>2 DEF Gate
<1>3. IsFiniteSet(n.news) /\ Cardinality(n.news) <= N /\ Cardinality(n.news) \in Nat
  BY <1>1, <1>2, GatesAreNat, FS_Subset, FS_CardinalityType
<1>4. OffCut(n, f) \subseteq n.news
  BY DEF OffCut
<1>5. /\ IsFiniteSet(OffCut(n, f)) /\ Cardinality(OffCut(n, f)) \in Nat
      /\ Cardinality(OffCut(n, f)) <= Cardinality(n.news)
  BY <1>3, <1>4, FS_Subset, FS_CardinalityType
<1>6. Total(n) \in Nat /\ Total(n) >= Cardinality(n.news)
  BY <1>2, <1>3, CutEnumAssumption DEF Total
<1>7. QED
  BY <1>1, <1>3, <1>5, <1>6 DEF Count

(* The count of new gates depends on which of them are on the cut.         *)
LEMMA CountSame ==
  ASSUME NEW n, NEW f, NEW p, \A h \in n.news : f[h] \in OnCut <=> p[h] \in OnCut
  PROVE  Count(n, p) = Count(n, f)
BY DEF Count, OffCut

(* It is one less when one of them leaves it.                              *)
LEMMA CountDown ==
  ASSUME NEW n, NetRight(n), NEW f, NEW p, NEW g \in n.news, f[g] \in OnCut, p[g] \notin OnCut,
         \A h \in n.news : h # g => p[h] = f[h]
  PROVE  Count(n, p) = Count(n, f) - 1
<1>1. OffCut(n, p) = OffCut(n, f) \union {g} /\ g \notin OffCut(n, f)
  BY DEF OffCut
<1>2. IsFiniteSet(OffCut(n, f))
  BY NewsFinite
<1>3. Cardinality(OffCut(n, p)) = Cardinality(OffCut(n, f)) + 1
  BY <1>1, <1>2, FS_AddElement
<1>4. QED
  BY <1>3, NewsFinite DEF Count

(* What a call does.                                                       *)
LEMMA SupportedMore ==
  ASSUME NEW n, NetRight(n), NEW b, NEW f, NEW p, NEW R, NEW T, R \subseteq T,
         Changed(n, b, f) \subseteq Changed(n, b, p), NEW g, Supported(n, b, f, R, g)
  PROVE  Supported(n, b, p, T, g)
BY DEF Supported

-----------------------------------------------------------------------------
(* The steps of a legalization.                                            *)

(* A gate that was below the cut is covered, and then what reads it.       *)
LEMMA CoverBelow ==
  ASSUME NEW n, NetRight(n), NEW b, NEW f, NEW c \in [Gate -> BOOLEAN], NEW Q, NEW W, NEW S, NEW T,
         Legalizing(n, b, f, c, Q, W, S), NEW g \in n.gates, f[g] = "BELOW",
         S \subseteq T \union {g}, \A h \in n.gates : g \in Reads(n, h) => h \in T
  PROVE  Legalizing(n, b, f, Put(c, g, TRUE), Q, W, T)
<1> DEFINE d == Put(c, g, TRUE)
<1>1. n.gates \subseteq Gate
  BY DEF NetRight
<1>2. d \in [Gate -> BOOLEAN] /\ d[g] /\ \A h \in Gate : h # g => d[h] = c[h]
  BY <1>1 DEF Put
<1> HIDE DEF d
<1>3. FanoutsCovered(n, b, f, d, T)
  <2>1. SUFFICES ASSUME NEW x \in n.gates, f[x] = "BELOW", b[x] # "BELOW"
        PROVE  /\ b[x] = "CUT" => d[x]
               /\ d[x] => \A h \in n.gates : x \in Reads(n, h) =>
                            f[h] \in OnCut \/ (f[h] = "BELOW" /\ d[h]) \/ h \in T
    BY DEF FanoutsCovered
  <2>2. CASE x = g
    BY <1>2, <2>2
  <2>3. CASE x # g
    <3>1. d[x] = c[x] /\ (b[x] = "CUT" => c[x])
          /\ (c[x] => \A h \in n.gates : x \in Reads(n, h) =>
                            f[h] \in OnCut \/ (f[h] = "BELOW" /\ c[h]) \/ h \in S)
      BY <1>1, <1>2, <2>1, <2>3 DEF Legalizing, FanoutsCovered
    <3>2. \A h \in n.gates : c[h] => d[h]
      BY <1>1, <1>2
    <3>3. QED
      BY <1>2, <3>1, <3>2
  <2>4. QED
    BY <2>2, <2>3
<1>4. QED
  BY <1>3 DEF Legalizing, d

(* A gate that was above the cut comes on it.                              *)
LEMMA CoverAbove ==
  ASSUME NEW n, NetRight(n), NEW b, FlagsRight(n, b), NEW f, FlagsRight(n, f),
         NEW c \in [Gate -> BOOLEAN],
         NEW Q, NEW W, NEW S, NEW T, Legalizing(n, b, f, c, Q, W, S),
         NEW g \in n.gates, f[g] = "ABOVE", S \subseteq T \union {g}
  PROVE  Legalizing(n, b, Put(f, g, "CUT"), Put(c, g, FALSE), Q \union {g}, W, T)
<1> DEFINE d == Put(c, g, FALSE)
           p == Put(f, g, "CUT")
<1>1. n.gates \subseteq Gate /\ f \in [Gate -> Flags]
  BY DEF NetRight, FlagsRight
<1>2. d \in [Gate -> BOOLEAN] /\ ~d[g] /\ \A h \in Gate : h # g => d[h] = c[h]
  BY <1>1 DEF Put
<1>3. p[g] = "CUT" /\ \A h \in Gate : h # g => p[h] = f[h]
  BY <1>1 DEF Put, Flags
<1> HIDE DEF d, p
<1>4. b[g] = "ABOVE"
  <2>1. b[g] \in {"ABOVE", "BELOW", "CUT", "TAKEN", "DUP"}
    BY FlagOf
  <2>2. QED
    BY <2>1 DEF Legalizing, Moved
<1>5. Moved(n, b, p)
  BY <1>1, <1>3, <1>4 DEF Legalizing, Moved
<1>6. FaninsPending(n, p, Q \union {g}, W)
  BY <1>1, <1>3 DEF Legalizing, FaninsPending, Reads
<1>7. FanoutsCovered(n, b, p, d, T)
  <2>1. SUFFICES ASSUME NEW x \in n.gates, p[x] = "BELOW", b[x] # "BELOW"
        PROVE  /\ b[x] = "CUT" => d[x]
               /\ d[x] => \A h \in n.gates : x \in Reads(n, h) =>
                            p[h] \in OnCut \/ (p[h] = "BELOW" /\ d[h]) \/ h \in T
    BY DEF FanoutsCovered
  <2>2. x # g /\ f[x] = "BELOW" /\ d[x] = c[x]
    BY <1>1, <1>2, <1>3, <2>1
  <2>3. /\ b[x] = "CUT" => c[x]
        /\ c[x] => \A h \in n.gates : x \in Reads(n, h) =>
                            f[h] \in OnCut \/ (f[h] = "BELOW" /\ c[h]) \/ h \in S
    BY <2>1, <2>2 DEF Legalizing, FanoutsCovered
  <2>4. ASSUME c[x], NEW h \in n.gates, x \in Reads(n, h)
        PROVE  p[h] \in OnCut \/ (p[h] = "BELOW" /\ d[h]) \/ h \in T
    <3>1. CASE h = g
      BY <1>3, <3>1 DEF OnCut
    <3>2. CASE h # g
      BY <1>1, <1>2, <1>3, <2>3, <2>4, <3>2
    <3>3. QED
      BY <3>1, <3>2
  <2>5. QED
    BY <2>2, <2>3, <2>4
<1>8. \A h \in Q \union {g} : p[h] # "ABOVE"
  <2>1. \A h \in Q : f[h] # "ABOVE"
    BY DEF Legalizing
  <2>2. \A h \in Q : h # g
    BY <2>1
  <2>3. \A h : h # g => p[h] = f[h]
    BY <1>1 DEF p, Put
  <2>4. QED
    BY <1>3, <2>1, <2>2, <2>3
<1>9. QED
  BY <1>5, <1>6, <1>7, <1>8 DEF Legalizing, p, d

(* Nothing to do: on the cut, or covered already.                          *)
LEMMA CoverNothing ==
  ASSUME NEW n, NetRight(n), NEW b, NEW f, NEW c, NEW Q, NEW W, NEW S, NEW T,
         Legalizing(n, b, f, c, Q, W, S), NEW g, S \subseteq T \union {g},
         g \in n.gates => f[g] \in OnCut \/ (f[g] = "BELOW" /\ c[g])
  PROVE  Legalizing(n, b, f, c, Q, W, T)
<1>1. FanoutsCovered(n, b, f, c, T)
  BY DEF Legalizing, FanoutsCovered
<1>2. QED
  BY <1>1 DEF Legalizing

(* A gate is popped from the cut, and what it reads is checked.            *)
LEMMA PopKeeps ==
  ASSUME NEW n, NetRight(n), NEW b, FlagsRight(n, b), NEW f, FlagsRight(n, f),
         NEW c \in [Gate -> BOOLEAN],
         NEW Q, NEW W, NEW V, NEW T, Legalizing(n, b, f, c, Q, W, {}),
         NEW g \in n.gates, f[g] = "CUT", g \in W, W \subseteq V \union {g}, Root \notin V,
         Range(n.fanin[g]) \subseteq V, \A h \in n.gates : g \in Reads(n, h) => h \in T
  PROVE  Legalizing(n, b, Put(f, g, "BELOW"), Put(c, g, TRUE), Q, V, T)
<1> DEFINE d == Put(c, g, TRUE)
           p == Put(f, g, "BELOW")
<1>1. n.gates \subseteq Gate /\ f \in [Gate -> Flags]
  BY DEF NetRight, FlagsRight
<1>2. d[g] /\ \A h \in Gate : h # g => d[h] = c[h]
  BY <1>1 DEF Put
<1>3. p[g] = "BELOW" /\ \A h : h # g => p[h] = f[h]
  BY <1>1 DEF Put
<1> HIDE DEF d, p
<1>4. b[g] \in {"ABOVE", "CUT"}
  <2>1. b[g] \in {"ABOVE", "BELOW", "CUT", "TAKEN", "DUP"}
    BY FlagOf
  <2>2. QED
    BY <2>1 DEF Legalizing, Moved
<1>5. Moved(n, b, p)
  BY <1>3, <1>4 DEF Legalizing, Moved
<1>6. FaninsPending(n, p, Q, V)
  <2>1. SUFFICES ASSUME NEW x \in n.gates, p[x] # "ABOVE"
                 PROVE  \/ p[x] # "BELOW" /\ x \in Q
                        \/ \A h \in Reads(n, x) : p[h] = "BELOW" \/ h \in V
    BY DEF FaninsPending
  <2>2. CASE x = g
    BY <2>2 DEF Reads
  <2>3. CASE x # g
    <3>1. \/ f[x] # "BELOW" /\ x \in Q
          \/ \A h \in Reads(n, x) : f[h] = "BELOW" \/ h \in W
      BY <1>3, <2>1, <2>3 DEF Legalizing, FaninsPending
    <3>2. QED
      BY <1>3, <2>3, <3>1
  <2>4. QED
    BY <2>2, <2>3
<1>7. FanoutsCovered(n, b, p, d, T)
  <2>1. SUFFICES ASSUME NEW x \in n.gates, p[x] = "BELOW", b[x] # "BELOW"
        PROVE  /\ b[x] = "CUT" => d[x]
               /\ d[x] => \A h \in n.gates : x \in Reads(n, h) =>
                            p[h] \in OnCut \/ (p[h] = "BELOW" /\ d[h]) \/ h \in T
    BY DEF FanoutsCovered
  <2>2. CASE x = g
    BY <1>2, <2>2
  <2>3. CASE x # g
    <3>1. /\ d[x] = c[x] /\ (b[x] = "CUT" => c[x])
          /\ c[x] => \A h \in n.gates : x \in Reads(n, h) =>
                            f[h] \in OnCut \/ (f[h] = "BELOW" /\ c[h])
      BY <1>1, <1>2, <1>3, <2>1, <2>3 DEF Legalizing, FanoutsCovered
    <3>2. ASSUME c[x], NEW h \in n.gates, x \in Reads(n, h)
          PROVE  p[h] \in OnCut \/ (p[h] = "BELOW" /\ d[h]) \/ h \in T
      BY <1>1, <1>2, <1>3, <3>1, <3>2
    <3>3. QED
      BY <3>1, <3>2
  <2>4. QED
    BY <2>2, <2>3
<1>8. \A h \in Q : p[h] # "ABOVE"
  BY <1>3 DEF Legalizing
<1>9. QED
  BY <1>5, <1>6, <1>7, <1>8 DEF Legalizing, p, d

(* A gate that was above the cut moves below it.                           *)
LEMMA MoveKeeps ==
  ASSUME NEW n, NetRight(n), NEW b, FlagsRight(n, b), NEW f, FlagsRight(n, f),
         NEW c \in [Gate -> BOOLEAN],
         NEW Q, NEW W, NEW V, Legalizing(n, b, f, c, Q, W, {}),
         NEW g \in n.gates, f[g] = "ABOVE", g \in W, W \subseteq V \union {g}, Root \notin V,
         Range(n.fanin[g]) \subseteq V
  PROVE  Legalizing(n, b, Put(f, g, "BELOW"), Put(c, g, FALSE), Q, V, {})
<1> DEFINE d == Put(c, g, FALSE)
           p == Put(f, g, "BELOW")
<1>1. n.gates \subseteq Gate /\ f \in [Gate -> Flags]
  BY DEF NetRight, FlagsRight
<1>2. ~d[g] /\ \A h \in Gate : h # g => d[h] = c[h]
  BY <1>1 DEF Put
<1>3. p[g] = "BELOW" /\ \A h : h # g => p[h] = f[h]
  BY <1>1 DEF Put
<1> HIDE DEF d, p
<1>4. b[g] = "ABOVE"
  <2>1. b[g] \in {"ABOVE", "BELOW", "CUT", "TAKEN", "DUP"}
    BY FlagOf
  <2>2. QED
    BY <2>1 DEF Legalizing, Moved
<1>5. Moved(n, b, p)
  BY <1>3, <1>4 DEF Legalizing, Moved
<1>6. FaninsPending(n, p, Q, V)
  <2>1. SUFFICES ASSUME NEW x \in n.gates, p[x] # "ABOVE"
                 PROVE  \/ p[x] # "BELOW" /\ x \in Q
                        \/ \A h \in Reads(n, x) : p[h] = "BELOW" \/ h \in V
    BY DEF FaninsPending
  <2>2. CASE x = g
    BY <2>2 DEF Reads
  <2>3. CASE x # g
    <3>1. \/ f[x] # "BELOW" /\ x \in Q
          \/ \A h \in Reads(n, x) : f[h] = "BELOW" \/ h \in W
      BY <1>3, <2>1, <2>3 DEF Legalizing, FaninsPending
    <3>2. QED
      BY <1>3, <2>3, <3>1
  <2>4. QED
    BY <2>2, <2>3
<1>7. FanoutsCovered(n, b, p, d, {})
  <2>1. SUFFICES ASSUME NEW x \in n.gates, p[x] = "BELOW", b[x] # "BELOW"
        PROVE  /\ b[x] = "CUT" => d[x]
               /\ d[x] => \A h \in n.gates : x \in Reads(n, h) =>
                            p[h] \in OnCut \/ (p[h] = "BELOW" /\ d[h])
    BY DEF FanoutsCovered
  <2>2. CASE x = g
    BY <1>2, <1>4, <2>2
  <2>3. CASE x # g
    <3>1. /\ d[x] = c[x] /\ (b[x] = "CUT" => c[x])
          /\ c[x] => \A h \in n.gates : x \in Reads(n, h) =>
                            f[h] \in OnCut \/ (f[h] = "BELOW" /\ c[h])
      BY <1>1, <1>2, <1>3, <2>1, <2>3 DEF Legalizing, FanoutsCovered
    <3>2. ASSUME c[x], NEW h \in n.gates, x \in Reads(n, h)
          PROVE  p[h] \in OnCut \/ (p[h] = "BELOW" /\ d[h])
      <4>1. f[h] \in OnCut \/ (f[h] = "BELOW" /\ c[h])
        BY <3>1, <3>2
      <4>2. h # g
        BY <4>1 DEF OnCut
      <4>3. QED
        BY <1>1, <1>2, <1>3, <4>1, <4>2
    <3>3. QED
      BY <3>1, <3>2
  <2>4. QED
    BY <2>2, <2>3
<1>8. \A h \in Q : p[h] # "ABOVE"
  BY <1>3 DEF Legalizing
<1>9. QED
  BY <1>5, <1>6, <1>7, <1>8 DEF Legalizing, p, d

(* A gate that is below the cut, or that the cone does not have.           *)
LEMMA BelowKeeps ==
  ASSUME NEW n, NetRight(n), NEW b, NEW f, NEW c, NEW Q, NEW W, NEW V, NEW S,
         Legalizing(n, b, f, c, Q, W, S), NEW g, V \subseteq W, W \subseteq V \union {g},
         g \in n.gates => f[g] = "BELOW"
  PROVE  Legalizing(n, b, f, c, Q, V, S)
<1>1. FaninsPending(n, f, Q, V)
  BY DEF Legalizing, FaninsPending, Reads
<1>2. QED
  BY <1>1 DEF Legalizing

(* The next gate of checkFanin is checked.                                 *)
LEMMA CheckKeeps ==
  ASSUME NEW n, NetRight(n), NEW b, NEW f, NEW c, NEW Q, NEW P, NEW V, NEW S,
         Legalizing(n, b, f, c, Q, {}, S), NEW g \in n.gates, P \subseteq Q, Q \subseteq P \union {g},
         Root \notin V, f[g] # "BELOW" => Range(n.fanin[g]) \subseteq V
  PROVE  Legalizing(n, b, f, c, P, V, S)
<1>1. FaninsPending(n, f, P, V)
  BY DEF Legalizing, FaninsPending, Reads
<1>2. QED
  BY <1>1 DEF Legalizing

-----------------------------------------------------------------------------
(* What a legalization does is supported, step by step.                    *)

(* A gate on the legal cut b, or above it, that is not any more.           *)
LEMMA FlagBefore ==
  ASSUME NEW n, NetRight(n), NEW b, FlagsRight(n, b), NEW f, FlagsRight(n, f), Moved(n, b, f),
         NEW g \in n.gates
  PROVE  /\ f[g] = "ABOVE" => b[g] = "ABOVE"
         /\ f[g] = "CUT" => b[g] \in {"ABOVE", "CUT"}
         /\ f[g] \in {"TAKEN", "DUP"} => b[g] = f[g]
         /\ f[g] = "BELOW" => b[g] \in {"ABOVE", "CUT", "BELOW"}
<1>1. b[g] \in {"ABOVE", "BELOW", "CUT", "TAKEN", "DUP"}
  BY FlagOf
<1>2. QED
  BY <1>1 DEF Moved

(* A gate below the cut is passed on its way up.                           *)
LEMMA SupportCoverBelow ==
  ASSUME NEW n, NetRight(n), NEW b, IsLegal(n, b), NEW f, FlagsRight(n, f), Moved(n, b, f),
         NEW R, NEW F, NEW S, NEW T, Supporting(n, b, f, R, F, S),
         NEW g \in n.gates, g \in S, f[g] = "BELOW",
         \A h \in T \intersect n.gates : h \in S \/ g \in Reads(n, h)
  PROVE  Supporting(n, b, f, R, F, T)
<1>1. PICK u \in Reads(n, g) : u \in R \/ u \in Changed(n, b, f)
  BY DEF Supporting, Supported
<1>2. b[u] # "BELOW"
  BY <1>1 DEF Supporting, RemovedRight, Changed
<1>3. b[g] = "ABOVE"
  BY <1>1, <1>2 DEF IsLegal, Closed
<1>4. g \in Changed(n, b, f)
  BY <1>3 DEF Changed
<1>5. \A h \in T \intersect n.gates : Supported(n, b, f, R, h)
  BY <1>4 DEF Supporting, Supported
<1>6. QED
  BY <1>5 DEF Supporting

(* A gate above the cut comes onto it, because a gate that it reads left   *)
(* it.                                                                     *)
LEMMA SupportCoverAbove ==
  ASSUME NEW n, NetRight(n), NEW b, IsLegal(n, b), NEW f, FlagsRight(n, f), Moved(n, b, f),
         NEW R, NEW F, NEW S, NEW T, Supporting(n, b, f, R, F, S),
         NEW g \in n.gates, g \in S, f[g] = "ABOVE", T \subseteq S
  PROVE  Supporting(n, b, Put(f, g, "CUT"), R, F, T)
<1> DEFINE p == Put(f, g, "CUT")
<1>1. p[g] = "CUT" /\ \A h : h # g => p[h] = f[h]
  BY DEF Put, NetRight, FlagsRight
<1> HIDE DEF p
<1>2. b[g] = "ABOVE"
  BY FlagBefore DEF IsLegal
<1>3. Changed(n, b, p) = Changed(n, b, f) \union {g}
  BY <1>1, <1>2 DEF Changed
<1>4. RemovedRight(n, b, p, R)
  BY <1>1, <1>2 DEF Supporting, RemovedRight
<1>5. \A h : Supported(n, b, f, R, h) => Supported(n, b, p, R, h)
  BY <1>3 DEF Supported
<1>6. QED
  BY <1>3, <1>4, <1>5 DEF Supporting, p

(* What need not be visited any more.                                      *)
LEMMA SupportLess ==
  ASSUME NEW n, NEW b, NEW f, NEW R, NEW F, NEW S, NEW T, Supporting(n, b, f, R, F, S), T \subseteq S
  PROVE  Supporting(n, b, f, R, F, T)
BY DEF Supporting

(* A gate of the cut is removed from it.                                   *)
LEMMA SupportPop ==
  ASSUME NEW n, NetRight(n), NEW b, IsLegal(n, b), NEW f, FlagsRight(n, f), Moved(n, b, f),
         NEW R, NEW F, NEW S, NEW T, NEW g \in n.gates, Supporting(n, b, f, R, {g}, S),
         f[g] = "CUT", \A h \in T \intersect n.gates : g \in Reads(n, h)
  PROVE  Supporting(n, b, Put(f, g, "BELOW"), R \union {g}, F, T)
<1> DEFINE p == Put(f, g, "BELOW")
<1>1. p[g] = "BELOW" /\ \A h : h # g => p[h] = f[h]
  BY DEF Put, NetRight, FlagsRight
<1> HIDE DEF p
<1>2. b[g] \in {"ABOVE", "CUT"}
  BY FlagBefore DEF IsLegal
<1>3. Changed(n, b, p) = Changed(n, b, f)
  BY <1>1 DEF Changed
<1>4. RemovedRight(n, b, p, R \union {g})
  BY <1>1, <1>2 DEF Supporting, RemovedRight
<1>5. \A h : Supported(n, b, f, R, h) \/ g \in Reads(n, h) => Supported(n, b, p, R \union {g}, h)
  BY <1>3 DEF Supported
<1>6. QED
  BY <1>3, <1>4, <1>5 DEF Supporting, p

(* A gate above the cut, below one that is on it, moves below.             *)
LEMMA SupportMove ==
  ASSUME NEW n, NetRight(n), NEW b, IsLegal(n, b), NEW f, FlagsRight(n, f), Moved(n, b, f),
         NEW R, NEW F, NEW S, NEW g \in n.gates, Supporting(n, b, f, R, {g}, S),
         f[g] = "ABOVE", \E h \in F : h \in Reads(n, g)
  PROVE  Supporting(n, b, Put(f, g, "BELOW"), R, F, S)
<1> DEFINE p == Put(f, g, "BELOW")
<1>1. p[g] = "BELOW" /\ \A h : h # g => p[h] = f[h]
  BY DEF Put, NetRight, FlagsRight
<1> HIDE DEF p
<1>2. b[g] = "ABOVE"
  BY FlagBefore DEF IsLegal
<1>3. Changed(n, b, p) = Changed(n, b, f) \union {g}
  BY <1>1, <1>2 DEF Changed
<1>4. RemovedRight(n, b, p, R)
  BY <1>1, <1>2 DEF Supporting, RemovedRight
<1>5. \A h : Supported(n, b, f, R, h) \/ g \in Reads(n, h) => Supported(n, b, p, R, h)
  BY <1>3 DEF Supported
<1>6. QED
  BY <1>3, <1>4, <1>5 DEF Supporting, p

(* A gate that is below the cut already.                                   *)
LEMMA SupportBelow ==
  ASSUME NEW n, NetRight(n), NEW b, IsLegal(n, b), NEW f, FlagsRight(n, f), Moved(n, b, f),
         NEW R, NEW F, NEW S, NEW g, Supporting(n, b, f, R, {g}, S),
         g \in n.gates => f[g] = "BELOW"
  PROVE  Supporting(n, b, f, R, F, S)
<1>1. ASSUME NEW x \in Changed(n, b, f), g \in Reads(n, x) PROVE Supported(n, b, f, R, x)
  <2>1. g \in n.gates /\ f[g] = "BELOW"
    BY <1>1 DEF Reads
  <2>2. b[g] # "BELOW"
    BY <1>1 DEF Changed, IsLegal, Split
  <2>3. b[g] \in {"ABOVE", "CUT"}
    BY <2>1, <2>2, FlagBefore DEF IsLegal
  <2>4. g \in R \/ g \in Changed(n, b, f)
    BY <2>1, <2>3 DEF Supporting, RemovedRight, Changed
  <2>5. QED
    BY <1>1, <2>4 DEF Supported
<1>2. QED
  BY <1>1 DEF Supporting

(* The call ends: a gate cannot be popped, or there is none left to check. *)
LEMMA SupportFails ==
  ASSUME NEW n, NetRight(n), NEW b, IsLegal(n, b), NEW f, FlagsRight(n, f), Moved(n, b, f),
         NEW R, NEW S, NEW g \in n.gates, Supporting(n, b, f, R, {g}, S), f[g] \in OnCut
  PROVE  Popped(n, b, f, R \union {g})
<1>1. b[g] # "BELOW"
  BY DEF Moved, OnCut
<1>2. RemovedRight(n, b, f, R \union {g})
  BY <1>1 DEF Supporting, RemovedRight, OnCut
<1>3. QED
  BY <1>2 DEF Supporting, Popped, Supported

(* When nothing waits, the cut is what a pop leaves.                       *)
LEMMA SupportEnds ==
  ASSUME NEW n, NEW b, NEW f, Moved(n, b, f), NEW R, NEW S, Supporting(n, b, f, R, {}, S)
  PROVE  Popped(n, b, f, R)
BY DEF Supporting, Popped

(* A call begins: it pops a gate of a legal cut.                           *)
LEMMA PopBegins ==
  ASSUME NEW n, NetRight(n), NEW b, IsLegal(n, b), NEW c \in [Gate -> BOOLEAN],
         NEW g \in n.gates, b[g] = "CUT", NEW F, NEW T,
         \A h \in n.gates : h \in T <=> g \in Reads(n, h)
  PROVE  /\ Legalizing(n, b, Put(b, g, "BELOW"), Put(c, g, TRUE), {}, {}, T)
         /\ Supporting(n, b, Put(b, g, "BELOW"), {g}, F, T)
<1> DEFINE d == Put(c, g, TRUE)
           p == Put(b, g, "BELOW")
<1>1. n.gates \subseteq Gate /\ b \in [Gate -> Flags]
  BY DEF NetRight, IsLegal, FlagsRight
<1>2. d[g] /\ \A h \in Gate : h # g => d[h] = c[h]
  BY <1>1 DEF Put
<1>3. p[g] = "BELOW" /\ \A h : h # g => p[h] = b[h]
  BY <1>1 DEF Put
<1> HIDE DEF d, p
<1>4. Moved(n, b, p)
  <2>1. SUFFICES ASSUME NEW h \in n.gates
        PROVE /\ b[h] \in {"BELOW", "TAKEN", "DUP"} => p[h] = b[h]
              /\ b[h] = "CUT" => p[h] \in {"CUT", "BELOW"}
              /\ b[h] = "ABOVE" => p[h] \in {"ABOVE", "CUT", "BELOW"}
    BY DEF Moved
  <2>2. QED
    BY <1>3
<1>5. FaninsPending(n, p, {}, {})
  <2>1. \A x \in n.gates : b[x] # "ABOVE" => \A h \in Reads(n, x) : b[h] = "BELOW"
    BY DEF IsLegal, Closed
  <2>2. \A x \in n.gates : p[x] # "ABOVE" => b[x] # "ABOVE"
    BY <1>3
  <2>3. \A h : b[h] = "BELOW" => p[h] = "BELOW"
    BY <1>3
  <2>4. QED
    BY <2>1, <2>2, <2>3 DEF FaninsPending
<1>6. FanoutsCovered(n, b, p, d, T)
  <2>1. \A x \in n.gates : p[x] = "BELOW" /\ b[x] # "BELOW" => x = g
    BY <1>3
  <2>2. QED
    BY <1>2, <2>1 DEF FanoutsCovered
<1>7. Changed(n, b, p) = {}
  BY <1>3 DEF Changed
<1>8. RemovedRight(n, b, p, {g})
  BY <1>3 DEF RemovedRight
<1>9. \A h \in T \intersect n.gates : Supported(n, b, p, {g}, h)
  BY DEF Supported
<1>10. Supporting(n, b, p, {g}, F, T)
  BY <1>7, <1>8, <1>9 DEF Supporting
<1>11. QED
  BY <1>4, <1>5, <1>6, <1>10 DEF Legalizing, p, d

-----------------------------------------------------------------------------
(* The end of a legalization.                                              *)

(* A legal cut is one to start from, and so is the lowest one.             *)
LEMMA LegalIsBase ==
  ASSUME NEW n, NetRight(n), NEW b, IsLegal(n, b)
  PROVE  BaseRight(n, b)
<1>1. SUFFICES ASSUME NEW g \in n.gates \ {Root}, b[g] # "BELOW"
               PROVE  \E h \in n.gates : g \in Reads(n, h) /\ b[h] = "ABOVE"
  BY DEF BaseRight, IsLegal
<1>2. PICK h \in Inner(n) : g \in Reads(n, h)
  BY DEF NetRight
<1>3. h \in n.gates
  BY DEF Inner
<1>4. b[h] = "ABOVE"
  BY <1>1, <1>2, <1>3 DEF IsLegal, Closed
<1>5. QED
  BY <1>2, <1>3, <1>4

(* Every gate below the cut that was not is covered in the end.            *)
LEMMA AllCovered ==
  ASSUME NEW n, NetRight(n), NEW b, BaseRight(n, b), NEW f, FlagsRight(n, f), NEW c,
         Legalizing(n, b, f, c, {}, {}, {}), NEW x \in n.gates, f[x] = "BELOW", b[x] # "BELOW"
  PROVE  c[x]
<1> DEFINE X == {g \in n.gates : f[g] = "BELOW" /\ b[g] # "BELOW" /\ ~c[g]}
<1>1. SUFFICES ASSUME X # {} PROVE FALSE
  OBVIOUS
<1>2. X \in SUBSET Gate
  BY DEF NetRight
<1>3. PICK g \in X : \A h \in X : g <= h
  BY <1>1, <1>2, LeastGate
<1>4. b[g] = "ABOVE"
  <2>1. b[g] \in {"ABOVE", "CUT", "BELOW"}
    BY <1>3, FlagBefore DEF Legalizing, BaseRight
  <2>2. b[g] # "CUT"
    BY <1>3 DEF Legalizing, FanoutsCovered
  <2>3. QED
    BY <1>3, <2>1, <2>2
<1>5. g \in Inner(n)
  BY <1>3, <1>4, AboveIsInner DEF BaseRight
<1>6. PICK u : u \in Reads(n, g)
  BY <1>5, InnerReads
<1>7. u \in n.gates /\ u \in Gate /\ g \in Gate /\ u < g
  BY <1>3, <1>6, ReadsLess
<1>8. f[u] = "BELOW"
  BY <1>3, <1>6 DEF Legalizing, FaninsPending
<1>9. b[u] # "BELOW"
  BY <1>3, <1>4, <1>6 DEF BaseRight, Split
<1>10. c[u]
  <2>1. ~c[u] => u \in X
    BY <1>7, <1>8, <1>9
  <2>2. u \in X => g <= u
    BY <1>3
  <2>3. g \in Nat /\ u \in Nat
    BY <1>7, GatesAreNat
  <2>4. QED
    BY <1>7, <2>1, <2>2, <2>3
<1>11. c[g]
  BY <1>3, <1>6, <1>7, <1>8, <1>9, <1>10 DEF Legalizing, FanoutsCovered, OnCut
<1>12. QED
  BY <1>3, <1>11

(* So the cut is legal.                                                    *)
LEMMA LegalInTheEnd ==
  ASSUME NEW n, NetRight(n), NEW b, BaseRight(n, b), NEW f, FlagsRight(n, f), NEW c,
         Legalizing(n, b, f, c, {}, {}, {})
  PROVE  IsLegal(n, f)
<1>1. Closed(n, f)
  BY DEF Legalizing, FaninsPending, Closed
<1>2. ASSUME NEW g \in n.gates, f[g] = "ABOVE", NEW h \in Reads(n, g), f[h] = "BELOW" PROVE FALSE
  <2>1. h \in n.gates
    BY DEF Reads
  <2>2. b[g] = "ABOVE"
    BY <1>2, FlagBefore DEF Legalizing, BaseRight
  <2>3. b[h] # "BELOW"
    BY <1>2, <2>2 DEF BaseRight, Split
  <2>4. c[h]
    BY <1>2, <2>1, <2>3, AllCovered
  <2>5. QED
    BY <1>2, <2>1, <2>3, <2>4 DEF Legalizing, FanoutsCovered, OnCut
<1>3. QED
  BY <1>1, <1>2 DEF IsLegal, Split

(* With a new gate on it, the cut is below the root.                       *)
LEMMA RootIsAbove ==
  ASSUME NEW n, NetRight(n), NEW f, IsLegal(n, f), Count(n, f) >= 1
  PROVE  f[Root] = "ABOVE"
<1>1. SUFFICES ASSUME f[Root] # "ABOVE" PROVE FALSE
  OBVIOUS
<1> DEFINE X == {g \in n.gates \ {Root} : f[g] # "BELOW"}
<1>2. X = {}
  <2>1. SUFFICES ASSUME X # {} PROVE FALSE
    OBVIOUS
  <2>2. X \in SUBSET Gate
    BY DEF NetRight
  <2>3. PICK g \in X : \A h \in X : h <= g
    BY <2>1, <2>2, LargestGate
  <2>4. PICK h \in Inner(n) : g \in Reads(n, h)
    BY <2>3 DEF NetRight
  <2>5. h \in n.gates /\ h \in Gate /\ g \in Gate /\ g < h
    BY <2>4, ReadsLess DEF Inner
  <2>6. h = Root \/ f[h] = "BELOW"
    <3>1. h \in X => h <= g
      BY <2>3
    <3>2. h \in Nat /\ g \in Nat
      BY <2>5, GatesAreNat
    <3>3. QED
      BY <2>5, <3>1, <3>2
  <2>7. f[h] # "ABOVE"
    BY <1>1, <2>6
  <2>8. f[g] = "BELOW"
    BY <2>4, <2>5, <2>7 DEF IsLegal, Closed
  <2>9. QED
    BY <2>3, <2>8
<1>3. n.dups = {} /\ n.news \subseteq n.gates \ {Root}
  <2>1. \A g \in n.dups : g \in n.gates \ {Root} /\ f[g] = "DUP"
    BY DEF NetRight, IsLegal, FlagsRight
  <2>2. n.dups = {}
    BY <1>2, <2>1
  <2>3. QED
    BY <2>2 DEF NetRight
<1>4. ~n.changed
  BY <1>3 DEF NetRight
<1>5. OffCut(n, f) = n.news
  BY <1>2, <1>3 DEF OffCut, OnCut
<1>6. Count(n, f) = 0
  BY <1>4, <1>5, NewsFinite DEF Count, Total
<1>7. QED
  BY <1>6

(* And it has a gate to decide on.                                         *)
LEMMA CutIsThere ==
  ASSUME NEW n, NetRight(n), NEW b, BaseRight(n, b), NEW f, IsLegal(n, f), Moved(n, b, f),
         \E g \in n.gates : b[g] = "CUT"
  PROVE  \E g \in n.gates : f[g] = "CUT"
<1>1. PICK x \in n.gates : b[x] = "CUT"
  OBVIOUS
<1> DEFINE X == {g \in n.gates : f[g] = "BELOW" /\ b[g] # "BELOW"}
<1>2. f[x] = "CUT" \/ x \in X
  BY <1>1 DEF Moved
<1>3. CASE x \in X
  <2>1. X \in SUBSET Gate /\ X # {}
    BY <1>3 DEF NetRight
  <2>2. PICK g \in X : \A h \in X : h <= g
    BY <2>1, LargestGate
  <2>3. g # Root
    BY <2>2 DEF IsLegal, FlagsRight
  <2>4. PICK h \in n.gates : g \in Reads(n, h) /\ b[h] = "ABOVE"
    BY <2>2, <2>3 DEF BaseRight
  <2>5. h \in Gate /\ g \in Gate /\ g < h
    BY <2>4, ReadsLess
  <2>6. f[h] # "BELOW"
    <3>1. h \in X => h <= g
      BY <2>2
    <3>2. h \in Nat /\ g \in Nat
      BY <2>5, GatesAreNat
    <3>3. QED
      BY <2>4, <2>5, <3>1, <3>2
  <2>7. f[h] # "ABOVE"
    BY <2>2, <2>4 DEF IsLegal, Split
  <2>8. f[h] = "CUT"
    BY <2>4, <2>6, <2>7 DEF Moved
  <2>9. QED
    BY <2>8
<1>4. QED
  BY <1>1, <1>2, <1>3

-----------------------------------------------------------------------------
(* The steps of a recovery.                                                *)
LEMMA RecoverBegins ==
  ASSUME NEW n, NEW b, NEW f, NEW R, Popped(n, b, f, R)
  PROVE  PuttingBack(n, b, f, {}, R, R)
BY DEF Popped, PuttingBack, RemovedRight

(* A gate is back on the cut, or still there.                              *)
LEMMA StillThere ==
  ASSUME NEW n, NEW b, NEW f, NEW Q, NEW W, NEW V, NEW R, PuttingBack(n, b, f, Q, W, R),
         NEW g \in W, f[g] \in OnCut, V \subseteq W, W \subseteq V \union {g}
  PROVE  PuttingBack(n, b, f, Q \union {g}, V, R)
BY DEF PuttingBack, OnCut

(* A gate that was removed is on the cut again.                            *)
LEMMA BackAgain ==
  ASSUME NEW n, NetRight(n), NEW b, FlagsRight(n, b), NEW f, FlagsRight(n, f),
         NEW Q, NEW W, NEW V, NEW R, PuttingBack(n, b, f, Q, W, R),
         NEW g \in W, f[g] \notin OnCut, V \subseteq W, W \subseteq V \union {g}
  PROVE  f[g] = "BELOW" /\ PuttingBack(n, b, Put(f, g, "CUT"), Q \union {g}, V, R)
<1> DEFINE p == Put(f, g, "CUT")
<1>1. g \in n.gates /\ b[g] # "BELOW" /\ (b[g] = "ABOVE" => f[g] # "ABOVE")
  BY DEF PuttingBack
<1>2. p[g] = "CUT" /\ \A h : h # g => p[h] = f[h]
  BY <1>1 DEF Put, NetRight, FlagsRight
<1> HIDE DEF p
<1>3. Moved(n, b, f)
  BY DEF PuttingBack
<1>4. f[g] = "BELOW" /\ b[g] \in {"ABOVE", "CUT"}
  BY <1>1, <1>3, FlagBefore, FlagOf DEF OnCut
<1>5. Moved(n, b, p)
  BY <1>2, <1>3, <1>4 DEF Moved
<1>6. Changed(n, b, p) = Changed(n, b, f)
  BY <1>2, <1>4 DEF Changed
<1>7. \A h : Supported(n, b, f, R, h) => Supported(n, b, p, R, h)
  BY <1>6 DEF Supported
<1>8. R \subseteq (Q \union {g}) \union V
  BY DEF PuttingBack
<1>9. \A h \in (Q \union {g}) \union V :
        h \in n.gates /\ b[h] # "BELOW" /\ (b[h] = "ABOVE" => p[h] # "ABOVE")
  <2>1. \A h \in (Q \union {g}) \union V : h \in Q \union W
    OBVIOUS
  <2>2. \A h \in Q \union W : h \in n.gates /\ b[h] # "BELOW" /\ (b[h] = "ABOVE" => f[h] # "ABOVE")
    BY DEF PuttingBack
  <2>3. QED
    BY <1>2, <2>1, <2>2
<1>10. \A h \in n.gates : b[h] = "CUT" /\ p[h] = "BELOW" => h \in V
  <2>1. \A h \in n.gates : b[h] = "CUT" /\ f[h] = "BELOW" => h \in W
    BY DEF PuttingBack
  <2>2. QED
    BY <1>2, <2>1
<1>11. \A h \in Changed(n, b, p) : Supported(n, b, p, R, h)
  BY <1>6, <1>7 DEF PuttingBack
<1>12. PuttingBack(n, b, p, Q \union {g}, V, R)
  BY <1>5, <1>8, <1>9, <1>10, <1>11 DEF PuttingBack
<1>13. QED
  BY <1>4, <1>12 DEF p

(* All are back on the cut: what is above it is to be looked at.           *)
LEMMA AllBack ==
  ASSUME NEW n, NetRight(n), NEW b, FlagsRight(n, b), NEW f, FlagsRight(n, f),
         NEW Q, NEW R, PuttingBack(n, b, f, Q, {}, R)
  PROVE  Recovering(n, b, f, Q, {}, {})
<1>1. Moved(n, b, f)
  BY DEF PuttingBack
<1>2. \A g \in n.gates : b[g] = "CUT" => f[g] = "CUT"
  BY <1>1 DEF PuttingBack, Moved
<1>3. ASSUME NEW g \in Changed(n, b, f)
      PROVE  \E u \in Reads(n, g) : u \in Changed(n, b, f) \/ (b[u] \in OnCut /\ u \in Q)
  <2>1. PICK u \in Reads(n, g) : u \in R \/ u \in Changed(n, b, f)
    BY DEF PuttingBack, Supported
  <2>2. CASE u \in R
    <3>1. u \in Q /\ u \in n.gates /\ b[u] # "BELOW" /\ (b[u] = "ABOVE" => f[u] # "ABOVE")
      BY <2>2 DEF PuttingBack
    <3>2. b[u] \in {"ABOVE", "BELOW", "CUT", "TAKEN", "DUP"}
      BY <3>1, FlagOf
    <3>3. QED
      BY <2>1, <3>1, <3>2 DEF Changed, OnCut
  <2>3. QED
    BY <2>1, <2>2
<1>4. QED
  BY <1>1, <1>2, <1>3 DEF Recovering, PuttingBack

(* The next gate whose fanouts are visited.                                *)
LEMMA FanoutsNext ==
  ASSUME NEW n, NetRight(n), NEW b, IsLegal(n, b), NEW f, FlagsRight(n, f),
         NEW Q, NEW P, NEW V, Recovering(n, b, f, Q, {}, {}),
         NEW g \in Q, P \subseteq Q, Q \subseteq P \union {g},
         \A h \in V \intersect n.gates : g \in Reads(n, h),
         f[g] # "ABOVE" => \A h \in n.gates : g \in Reads(n, h) => h \in V
  PROVE  Recovering(n, b, f, P, V, {})
<1>1. g \in n.gates /\ b[g] # "BELOW"
  BY DEF Recovering
<1>2. \A h \in V \intersect n.gates : b[h] = "ABOVE"
  BY <1>1 DEF IsLegal, Closed
<1>3. ASSUME NEW x \in Changed(n, b, f)
      PROVE  x \in V \/ \E u \in Reads(n, x) : u \in Changed(n, b, f) \/ (b[u] \in OnCut /\ u \in P)
  <2>1. PICK u \in Reads(n, x) : u \in Changed(n, b, f) \/ (b[u] \in OnCut /\ u \in Q)
    BY DEF Recovering
  <2>2. CASE u = g /\ b[g] \in OnCut
    <3>1. f[g] # "ABOVE"
      BY <1>1, <2>2 DEF Recovering, Moved, OnCut
    <3>2. QED
      BY <2>1, <2>2, <3>1 DEF Changed
  <2>3. CASE ~(u = g /\ b[g] \in OnCut)
    BY <2>1, <2>3
  <2>4. QED
    BY <2>2, <2>3
<1>4. QED
  BY <1>2, <1>3 DEF Recovering

(* A gate of the cone above the cut, or one that the cone does not have.   *)
LEMMA FanoutAbove ==
  ASSUME NEW n, NEW b, NEW f, NEW Q, NEW W, NEW V, NEW S, Recovering(n, b, f, Q, W, S),
         NEW g, V \subseteq W, W \subseteq V \union {g}, g \in n.gates => f[g] = "ABOVE"
  PROVE  Recovering(n, b, f, Q, V, S)
<1>1. \A x \in Changed(n, b, f) : x # g
  BY DEF Changed
<1>2. QED
  BY <1>1 DEF Recovering

(* No taken or merged gate is in the way.                                  *)
LEMMA FanoutFree ==
  ASSUME NEW n, NEW b, NEW f, NEW Q, NEW W, NEW S, Recovering(n, b, f, Q, W, S),
         NEW g \in W, g \in n.gates
  PROVE  b[g] = "ABOVE" /\ f[g] \in {"ABOVE", "CUT", "BELOW"}
BY DEF Recovering, Moved

(* A gate above one of the cut is above the cut.                           *)
LEMMA FanoutKeeps ==
  ASSUME NEW n, NetRight(n), NEW b, IsLegal(n, b), NEW f, FlagsRight(n, f),
         NEW Q, NEW W, NEW V, NEW T, Recovering(n, b, f, Q, W, {}),
         NEW g \in W, g \in n.gates, W \subseteq V \union {g},
         \A h \in V \intersect n.gates : h \in W \/ g \in Reads(n, h),
         \A h \in n.gates : g \in Reads(n, h) => h \in V,
         T \intersect n.gates \subseteq Reads(n, g)
  PROVE  Recovering(n, b, Put(f, g, "ABOVE"), Q, V, T)
<1> DEFINE p == Put(f, g, "ABOVE")
<1>1. p[g] = "ABOVE" /\ \A h : h # g => p[h] = f[h]
  BY DEF Put, NetRight, FlagsRight
<1> HIDE DEF p
<1>2. b[g] = "ABOVE"
  BY DEF Recovering
<1>3. Moved(n, b, p)
  BY <1>1, <1>2 DEF Recovering, Moved
<1>4. \A h \in n.gates : b[h] = "CUT" => p[h] = "CUT"
  BY <1>1, <1>2 DEF Recovering
<1>5. \A h \in V \intersect n.gates : b[h] = "ABOVE"
  BY <1>2 DEF Recovering, IsLegal, Closed
<1>6. \A h \in T \intersect n.gates : b[h] # "BELOW"
  BY <1>2 DEF IsLegal, Split
<1>7. Changed(n, b, p) = Changed(n, b, f) \ {g}
  BY <1>1 DEF Changed
<1>8. ASSUME NEW x \in Changed(n, b, p)
      PROVE  x \in V \/ \E u \in Reads(n, x) : u \in Changed(n, b, p) \/ (b[u] \in OnCut /\ u \in Q)
  <2>1. x \in Changed(n, b, f) /\ x # g /\ x \in n.gates
    BY <1>7 DEF Changed
  <2>2. CASE x \in W
    BY <2>1, <2>2
  <2>3. CASE x \notin W
    <3>1. PICK u \in Reads(n, x) : u \in Changed(n, b, f) \/ (b[u] \in OnCut /\ u \in Q)
      BY <2>1, <2>3 DEF Recovering
    <3>2. CASE u = g
      BY <2>1, <3>1, <3>2
    <3>3. CASE u # g
      BY <1>7, <3>1, <3>3
    <3>4. QED
      BY <3>2, <3>3
  <2>4. QED
    BY <2>2, <2>3
<1>9. QED
  BY <1>3, <1>4, <1>5, <1>6, <1>8 DEF Recovering, p

(* What a gate that is above the cut again reads.                          *)
LEMMA FaninAbove ==
  ASSUME NEW n, NetRight(n), NEW b, IsLegal(n, b), NEW f, FlagsRight(n, f),
         NEW Q, NEW W, NEW S, NEW T, Recovering(n, b, f, Q, W, S),
         NEW g \in n.gates, f[g] = "ABOVE", \A h \in T \intersect n.gates : h \in S \/ h \in Reads(n, g)
  PROVE  Recovering(n, b, f, Q, W, T)
<1>1. b[g] = "ABOVE"
  BY FlagBefore DEF Recovering, IsLegal
<1>2. \A h \in T \intersect n.gates : b[h] # "BELOW"
  BY <1>1 DEF Recovering, IsLegal, Split
<1>3. QED
  BY <1>2 DEF Recovering

(* A gate that the gate above it uncovers is on the cut again.             *)
LEMMA FaninBelow ==
  ASSUME NEW n, NetRight(n), NEW b, IsLegal(n, b), NEW f, FlagsRight(n, f),
         NEW Q, NEW W, NEW S, NEW T, Recovering(n, b, f, Q, W, S),
         NEW g \in S, g \in n.gates, f[g] = "BELOW", T \subseteq S
  PROVE  b[g] = "ABOVE" /\ Recovering(n, b, Put(f, g, "CUT"), Q \union {g}, W, T)
<1> DEFINE p == Put(f, g, "CUT")
<1>1. p[g] = "CUT" /\ \A h : h # g => p[h] = f[h]
  BY DEF Put, NetRight, FlagsRight
<1> HIDE DEF p
<1>2. b[g] = "ABOVE"
  <2>1. b[g] \in {"ABOVE", "CUT", "BELOW"} /\ b[g] # "BELOW"
    BY FlagBefore DEF Recovering, IsLegal
  <2>2. b[g] # "CUT"
    BY DEF Recovering
  <2>3. QED
    BY <2>1, <2>2
<1>3. Moved(n, b, p)
  BY <1>1, <1>2 DEF Recovering, Moved
<1>4. \A h \in n.gates : b[h] = "CUT" => p[h] = "CUT"
  BY <1>1, <1>2 DEF Recovering
<1>5. Changed(n, b, p) = Changed(n, b, f)
  BY <1>1 DEF Changed
<1>6. \A h \in Q \union {g} : h \in n.gates /\ b[h] # "BELOW"
  BY <1>2 DEF Recovering
<1>7. QED
  BY <1>2, <1>3, <1>4, <1>5, <1>6 DEF Recovering, p

(* A fanin that need not be visited.                                       *)
LEMMA FaninLess ==
  ASSUME NEW n, NEW b, NEW f, NEW Q, NEW W, NEW S, NEW T, Recovering(n, b, f, Q, W, S), T \subseteq S
  PROVE  Recovering(n, b, f, Q, W, T)
BY DEF Recovering

(* In the end the cut is what it was.                                      *)
LEMMA BackToBase ==
  ASSUME NEW n, NetRight(n), NEW b, IsLegal(n, b), NEW f, FlagsRight(n, f),
         Recovering(n, b, f, {}, {}, {})
  PROVE  f = b
<1>1. Changed(n, b, f) = {}
  <2>1. SUFFICES ASSUME Changed(n, b, f) # {} PROVE FALSE
    OBVIOUS
  <2>2. Changed(n, b, f) \in SUBSET Gate
    BY DEF Changed, NetRight
  <2>3. PICK g \in Changed(n, b, f) : \A h \in Changed(n, b, f) : g <= h
    BY <2>1, <2>2, LeastGate
  <2>4. PICK u \in Reads(n, g) : u \in Changed(n, b, f)
    BY DEF Recovering
  <2>5. u \in Gate /\ g \in Gate /\ u < g /\ g <= u
    BY <2>3, <2>4, ReadsLess DEF Changed
  <2>6. u \in Nat /\ g \in Nat
    BY <2>5, GatesAreNat
  <2>7. QED
    BY <2>5, <2>6
<1>2. b \in [Gate -> Flags] /\ f \in [Gate -> Flags] /\ n.gates \subseteq Gate
  BY DEF IsLegal, FlagsRight, NetRight
<1>3. ASSUME NEW g \in Gate PROVE f[g] = b[g]
  <2>1. CASE g \in n.gates
    <3>1. b[g] \in {"ABOVE", "BELOW", "CUT", "TAKEN", "DUP"}
      BY <2>1, FlagOf DEF IsLegal
    <3>2. QED
      BY <1>1, <2>1, <3>1 DEF Recovering, Moved, Changed
  <2>2. CASE g \notin n.gates
    BY <2>2 DEF IsLegal, FlagsRight
  <2>3. QED
    BY <2>1, <2>2
<1>4. QED
  BY <1>2, <1>3

-----------------------------------------------------------------------------
(* Lists.                                                                  *)
LEMMA RangeTail ==
  ASSUME NEW E, NEW q \in Seq(E), q # <<>>
  PROVE  /\ Head(q) \in E /\ Tail(q) \in Seq(E) /\ Head(q) \in Range(q)
         /\ Range(q) = {Head(q)} \union Range(Tail(q)) /\ Range(q) \subseteq E
<1>1. Len(q) \in Nat /\ Len(q) >= 1 /\ Tail(q) \in Seq(E) /\ Len(Tail(q)) = Len(q) - 1
      /\ Head(q) = q[1] /\ DOMAIN q = 1 .. Len(q) /\ \A i \in 1 .. Len(q) : q[i] \in E
  OBVIOUS
<1>2. \A i \in 1 .. (Len(q) - 1) : Tail(q)[i] = q[i + 1]
  OBVIOUS
<1>3. DOMAIN Tail(q) = 1 .. (Len(q) - 1)
  BY <1>1
<1>4. Range(Tail(q)) \subseteq Range(q)
  BY <1>1, <1>2, <1>3 DEF Range
<1>5. ASSUME NEW i \in 1 .. Len(q) PROVE q[i] = Head(q) \/ q[i] \in Range(Tail(q))
  <2>1. CASE i = 1
    BY <1>1, <2>1
  <2>2. CASE i # 1
    <3>1. i - 1 \in DOMAIN Tail(q) /\ Tail(q)[i - 1] = q[i]
      BY <1>1, <1>2, <1>3, <2>2
    <3>2. QED
      BY <3>1 DEF Range
  <2>3. QED
    BY <2>1, <2>2
<1>6. Head(q) \in Range(q) /\ Range(q) \subseteq E
  BY <1>1 DEF Range
<1>7. \A x \in Range(q) : x = Head(q) \/ x \in Range(Tail(q))
  BY <1>1, <1>5 DEF Range
<1>8. QED
  BY <1>1, <1>4, <1>6, <1>7

(* What is on two lists.                                                   *)
LEMMA RangeConcat ==
  ASSUME NEW E, NEW p \in Seq(E), NEW q \in Seq(E)
  PROVE  p \o q \in Seq(E) /\ Range(p \o q) = Range(p) \union Range(q)
<1>1. /\ Len(p) \in Nat /\ Len(q) \in Nat /\ p \o q \in Seq(E) /\ Len(p \o q) = Len(p) + Len(q)
      /\ DOMAIN p = 1 .. Len(p) /\ DOMAIN q = 1 .. Len(q)
  OBVIOUS
<1>2. DOMAIN (p \o q) = 1 .. (Len(p) + Len(q))
  BY <1>1
<1>3. /\ \A i \in 1 .. Len(p) : (p \o q)[i] = p[i] /\ i \in 1 .. (Len(p) + Len(q))
      /\ \A i \in 1 .. Len(q) : (p \o q)[i + Len(p)] = q[i] /\ i + Len(p) \in 1 .. (Len(p) + Len(q))
  OBVIOUS
<1>4. \A i \in 1 .. (Len(p) + Len(q)) :
        \/ i \in 1 .. Len(p) /\ (p \o q)[i] = p[i]
        \/ i - Len(p) \in 1 .. Len(q) /\ (p \o q)[i] = q[i - Len(p)]
  BY <1>1
<1>5. Range(p) \subseteq Range(p \o q) /\ Range(q) \subseteq Range(p \o q)
  BY <1>1, <1>2, <1>3 DEF Range
<1>6. Range(p \o q) \subseteq Range(p) \union Range(q)
  BY <1>1, <1>2, <1>4 DEF Range
<1>7. QED
  BY <1>1, <1>5, <1>6

(* What is on a list with one more.                                        *)
LEMMA RangeAppend ==
  ASSUME NEW E, NEW q \in Seq(E), NEW x \in E
  PROVE  Append(q, x) \in Seq(E) /\ Range(Append(q, x)) = Range(q) \union {x}
<1> DEFINE y == <<x>>
<1>1. y \in Seq(E) /\ Range(y) = {x}
  BY DEF Range
<1>2. Append(q, x) = q \o y
  OBVIOUS
<1> HIDE DEF y
<1>3. q \o y \in Seq(E) /\ Range(q \o y) = Range(q) \union Range(y)
  BY <1>1, RangeConcat
<1>4. QED
  BY <1>1, <1>2, <1>3

(* Nothing is on the empty list, and on no other.                          *)
LEMMA RangeEmpty ==
  /\ Range(<<>>) = {} /\ \A E : <<>> \in Seq(E)
  /\ \A E : \A q \in Seq(E) : Range(q) \subseteq E /\ (Range(q) = {} => q = <<>>)
<1>1. ASSUME NEW E, NEW q \in Seq(E), q # <<>> PROVE Range(q) # {}
  BY <1>1, RangeTail
<1>2. ASSUME NEW E, NEW q \in Seq(E) PROVE Range(q) \subseteq E
  BY DEF Range
<1>3. Range(<<>>) = {}
  BY DEF Range
<1>4. \A E : <<>> \in Seq(E)
  OBVIOUS
<1>5. QED
  BY <1>1, <1>2, <1>3, <1>4

(* The last of a list and the others.                                      *)
LEMMA FrontIs ==
  ASSUME NEW E, NEW q \in Seq(E), q # <<>>
  PROVE  /\ Len(q) \in Nat /\ Len(q) >= 1 /\ Last(q) = q[Len(q)] /\ Last(q) \in E
         /\ Front(q) \in Seq(E) /\ Len(Front(q)) = Len(q) - 1
         /\ \A i \in 1 .. (Len(q) - 1) : Front(q)[i] = q[i]
<1>1. Len(q) \in Nat /\ Len(q) >= 1 /\ q[Len(q)] \in E
  OBVIOUS
<1>2. Front(q) = [i \in 1 .. (Len(q) - 1) |-> q[i]]
  BY <1>1 DEF Front
<1>3. Front(q) \in Seq(E) /\ Len(Front(q)) = Len(q) - 1
  BY <1>1, <1>2
<1>4. QED
  BY <1>1, <1>2, <1>3 DEF Last

-----------------------------------------------------------------------------
(* The calls: each found a legal cut and took a gate of it, and popped it  *)
(* when it went on to the decisions above it.                              *)
Cut == [flag : [Gate -> Flags], active : SUBSET Gate, numNew : Nat]
Call == [gate : Gate, removed : Seq(Gate), popped : BOOLEAN, before : Cut]
OfCall(c) == {c.gate} \union Range(c.removed)
After(n, c, f) ==
  IF c.popped THEN Popped(n, c.before.flag, f, OfCall(c)) ELSE f = Put(c.before.flag, c.gate, "TAKEN")
CallRight(n, c) ==
  /\ c \in Call /\ IsLegal(n, c.before.flag)
  /\ c.before.active = {g \in Gate : c.before.flag[g] = "CUT"} /\ c.gate \in c.before.active
  /\ c.before.numNew = Count(n, c.before.flag) /\ c.before.numNew >= 1
  /\ ~c.popped => c.removed = <<>>
CallsRight(n, s) ==
  /\ s \in Seq(Call)
  /\ \A j \in 1 .. Len(s) : CallRight(n, s[j])
  /\ \A j \in 2 .. Len(s) : After(n, s[j - 1], s[j].before.flag)

(* The gates taken are those of the calls that did not pop yet.            *)
TakenAt(at, s, t) ==
  /\ \A i, j \in 1 .. Len(t) : i < j => at[i] < at[j]
  /\ \A i \in 1 .. Len(t) : ~s[at[i]].popped /\ t[i] = s[at[i]].gate
  /\ \A j \in 1 .. Len(s) : ~s[j].popped => \E i \in 1 .. Len(t) : at[i] = j
TakenBy(s, t) == \E at \in [1 .. Len(t) -> 1 .. Len(s)] : TakenAt(at, s, t)

(* The taken gates depend on the gates of the calls, and on which of them  *)
(* have popped theirs.                                                     *)
LEMMA TakenSame ==
  ASSUME NEW s \in Seq(Call), NEW r \in Seq(Call), Len(r) = Len(s), NEW t \in Seq(Gate), TakenBy(s, t),
         \A j \in 1 .. Len(s) : r[j].gate = s[j].gate /\ r[j].popped = s[j].popped
  PROVE  TakenBy(r, t)
<1>1. PICK at \in [1 .. Len(t) -> 1 .. Len(s)] : TakenAt(at, s, t)
  BY DEF TakenBy
<1>2. \A i \in 1 .. Len(t) : at[i] \in 1 .. Len(s)
  OBVIOUS
<1>3. TakenAt(at, r, t)
  BY <1>1, <1>2 DEF TakenAt
<1>4. QED
  BY <1>3 DEF TakenBy

(* A call takes one more gate.                                             *)
LEMMA TakenMore ==
  ASSUME NEW s \in Seq(Call), NEW t \in Seq(Gate), TakenBy(s, t), NEW c \in Call, ~c.popped
  PROVE  TakenBy(Append(s, c), Append(t, c.gate))
<1>1. PICK at \in [1 .. Len(t) -> 1 .. Len(s)] :
        /\ \A i, j \in 1 .. Len(t) : i < j => at[i] < at[j]
        /\ \A i \in 1 .. Len(t) : ~s[at[i]].popped /\ t[i] = s[at[i]].gate
        /\ \A j \in 1 .. Len(s) : ~s[j].popped => \E i \in 1 .. Len(t) : at[i] = j
  BY DEF TakenBy, TakenAt
<1> DEFINE u == Append(t, c.gate)
           r == Append(s, c)
           k == Len(t)
           l == Len(s)
           to == [i \in 1 .. (k + 1) |-> IF i = k + 1 THEN l + 1 ELSE at[i]]
<1>2. c.gate \in Gate
  BY DEF Call
<1> HIDE DEF Call
<1>3. /\ k \in Nat /\ l \in Nat /\ Len(u) = k + 1 /\ Len(r) = l + 1
      /\ u[k + 1] = c.gate /\ r[l + 1] = c
      /\ \A i \in 1 .. k : u[i] = t[i]
      /\ \A j \in 1 .. l : r[j] = s[j]
  BY <1>2
<1>4. \A i \in 1 .. k : at[i] \in 1 .. l
  OBVIOUS
<1> HIDE DEF u, r, k, l
<1>5. /\ to \in [1 .. (k + 1) -> 1 .. (l + 1)] /\ to[k + 1] = l + 1
      /\ \A i \in 1 .. k : to[i] = at[i] /\ i # k + 1
  <2>1. \A i \in 1 .. (k + 1) : (IF i = k + 1 THEN l + 1 ELSE at[i]) \in 1 .. (l + 1)
    BY <1>3, <1>4
  <2>2. k + 1 \in 1 .. (k + 1) /\ \A i \in 1 .. k : i \in 1 .. (k + 1) /\ i # k + 1
    BY <1>3
  <2>3. QED
    BY <2>1, <2>2
<1> HIDE DEF to
<1>6. \A i \in 1 .. (k + 1) : i = k + 1 \/ i \in 1 .. k
  BY <1>3
<1>7. \A i, j \in 1 .. (k + 1) : i < j => to[i] < to[j]
  <2>1. SUFFICES ASSUME NEW i \in 1 .. (k + 1), NEW j \in 1 .. (k + 1), i < j PROVE to[i] < to[j]
    OBVIOUS
  <2>2. i \in 1 .. k
    BY <1>3, <2>1
  <2>3. CASE j = k + 1
    BY <1>3, <1>4, <1>5, <2>2, <2>3
  <2>4. CASE j \in 1 .. k
    BY <1>1, <1>5, <2>1, <2>2, <2>4 DEF k
  <2>5. QED
    BY <1>6, <2>3, <2>4
<1>8. \A i \in 1 .. (k + 1) : ~r[to[i]].popped /\ u[i] = r[to[i]].gate
  <2>1. SUFFICES ASSUME NEW i \in 1 .. (k + 1) PROVE ~r[to[i]].popped /\ u[i] = r[to[i]].gate
    OBVIOUS
  <2>2. CASE i = k + 1
    BY <1>3, <1>5, <2>2
  <2>3. CASE i \in 1 .. k
    BY <1>1, <1>3, <1>4, <1>5, <2>3 DEF k
  <2>4. QED
    BY <1>6, <2>2, <2>3
<1>9. \A j \in 1 .. (l + 1) : ~r[j].popped => \E i \in 1 .. (k + 1) : to[i] = j
  <2>1. SUFFICES ASSUME NEW j \in 1 .. (l + 1), ~r[j].popped PROVE \E i \in 1 .. (k + 1) : to[i] = j
    OBVIOUS
  <2>2. CASE j = l + 1
    BY <1>3, <1>5, <2>2
  <2>3. CASE j # l + 1
    <3>1. j \in 1 .. l
      BY <1>3, <2>3
    <3>2. PICK i \in 1 .. k : at[i] = j
      BY <1>1, <1>3, <2>1, <3>1 DEF k, l
    <3>3. i \in 1 .. (k + 1)
      BY <1>3
    <3>4. QED
      BY <1>5, <3>2, <3>3
  <2>4. QED
    BY <2>2, <2>3
<1>10. QED
  <2>1. TakenAt(to, r, u)
    BY <1>3, <1>7, <1>8, <1>9 DEF TakenAt
  <2>2. QED
    BY <1>3, <1>5, <2>1 DEF TakenBy, u, r

(* The last call pops: its gate was the last that was taken.               *)
LEMMA TakenLess ==
  ASSUME NEW s \in Seq(Call), NEW r \in Seq(Call), Len(r) = Len(s), s # <<>>,
         NEW t \in Seq(Gate), TakenBy(s, t),
         \A j \in 1 .. (Len(s) - 1) : r[j] = s[j], ~s[Len(s)].popped, r[Len(s)].popped
  PROVE  t # <<>> /\ Last(t) = s[Len(s)].gate /\ TakenBy(r, Front(t))
<1> DEFINE k == Len(t)
           l == Len(s)
<1>1. PICK at \in [1 .. k -> 1 .. l] :
        /\ \A i, j \in 1 .. k : i < j => at[i] < at[j]
        /\ \A i \in 1 .. k : ~s[at[i]].popped /\ t[i] = s[at[i]].gate
        /\ \A j \in 1 .. l : ~s[j].popped => \E i \in 1 .. k : at[i] = j
  BY DEF TakenBy, TakenAt
<1>2. k \in Nat /\ l \in Nat /\ l >= 1
  OBVIOUS
<1> HIDE DEF k, l
<1>3. PICK m \in 1 .. k : at[m] = l
  <2>1. l \in 1 .. l
    BY <1>2
  <2>2. ~s[l].popped
    BY DEF l
  <2>3. QED
    BY <1>1, <2>1, <2>2
<1>4. m = k
  <2>1. m # k => m < k /\ k \in 1 .. k
    BY <1>2
  <2>2. m # k => at[m] < at[k] /\ at[k] \in 1 .. l
    BY <1>1, <2>1
  <2>3. QED
    BY <1>2, <1>3, <2>2
<1>5. t # <<>> /\ Last(t) = t[k]
  BY <1>2, <1>4 DEF k, Last
<1>6. Last(t) = s[l].gate
  BY <1>1, <1>3, <1>4, <1>5
<1>7. Front(t) \in Seq(Gate) /\ Len(Front(t)) = k - 1 /\ \A i \in 1 .. (k - 1) : Front(t)[i] = t[i]
  BY <1>5, FrontIs DEF k
<1> DEFINE to == [i \in 1 .. (k - 1) |-> at[i]]
           u == Front(t)
<1>8. /\ \A i \in 1 .. (k - 1) : i \in 1 .. k /\ at[i] \in 1 .. l /\ at[i] < l
      /\ \A i \in 1 .. (k - 1) : at[i] \in 1 .. (l - 1)
  <2>1. ASSUME NEW i \in 1 .. (k - 1) PROVE i \in 1 .. k /\ at[i] \in 1 .. l /\ at[i] < at[k]
    BY <1>1, <1>2, <1>3, <1>4
  <2>2. QED
    BY <1>2, <1>3, <1>4, <2>1
<1>9. to \in [1 .. (k - 1) -> 1 .. l] /\ \A i \in 1 .. (k - 1) : to[i] = at[i]
  BY <1>8
<1> HIDE DEF to, u
<1>10. \A i, j \in 1 .. (k - 1) : i < j => to[i] < to[j]
  BY <1>1, <1>8, <1>9
<1>11. \A i \in 1 .. (k - 1) : ~r[to[i]].popped /\ u[i] = r[to[i]].gate
  <2>1. ASSUME NEW i \in 1 .. (k - 1) PROVE r[at[i]] = s[at[i]]
    BY <1>8 DEF l
  <2>2. QED
    BY <1>1, <1>7, <1>8, <1>9, <2>1 DEF u
<1>12. \A j \in 1 .. l : ~r[j].popped => \E i \in 1 .. (k - 1) : to[i] = j
  <2>1. SUFFICES ASSUME NEW j \in 1 .. l, ~r[j].popped PROVE \E i \in 1 .. (k - 1) : to[i] = j
    OBVIOUS
  <2>2. j # l
    BY <2>1 DEF l
  <2>3. j \in 1 .. (l - 1)
    BY <1>2, <2>2
  <2>4. PICK i \in 1 .. k : at[i] = j
    BY <1>1, <2>1, <2>3 DEF l
  <2>5. i # k
    BY <1>3, <1>4, <2>2, <2>4
  <2>6. i \in 1 .. (k - 1)
    BY <1>2, <2>5
  <2>7. QED
    BY <1>9, <2>4, <2>6
<1>13. TakenBy(r, u)
  <2>1. Len(r) = l /\ Len(u) = k - 1
    BY <1>7 DEF l, u
  <2>2. TakenAt(to, r, u)
    BY <1>10, <1>11, <1>12, <2>1 DEF TakenAt
  <2>3. QED
    BY <1>9, <2>1, <2>2 DEF TakenBy
<1>14. QED
  BY <1>5, <1>6, <1>13 DEF l, u

(* The last call returns.                                                  *)
LEMMA TakenReturns ==
  ASSUME NEW s \in Seq(Call), s # <<>>, NEW t \in Seq(Gate), TakenBy(s, t), s[Len(s)].popped
  PROVE  TakenBy(Front(s), t)
<1> DEFINE k == Len(t)
           l == Len(s)
           r == Front(s)
<1>1. PICK at \in [1 .. k -> 1 .. l] :
        /\ \A i, j \in 1 .. k : i < j => at[i] < at[j]
        /\ \A i \in 1 .. k : ~s[at[i]].popped /\ t[i] = s[at[i]].gate
        /\ \A j \in 1 .. l : ~s[j].popped => \E i \in 1 .. k : at[i] = j
  BY DEF TakenBy, TakenAt
<1>2. k \in Nat /\ l \in Nat /\ l >= 1
  OBVIOUS
<1>3. Len(r) = l - 1 /\ \A i \in 1 .. (l - 1) : r[i] = s[i]
  BY FrontIs
<1> HIDE DEF k, l, r
<1>4. \A i \in 1 .. k : at[i] \in 1 .. (l - 1)
  <2>1. ASSUME NEW i \in 1 .. k PROVE at[i] \in 1 .. l /\ at[i] # l
    BY <1>1 DEF l
  <2>2. QED
    BY <1>2, <2>1
<1>5. at \in [1 .. k -> 1 .. (l - 1)]
  BY <1>4
<1>6. \A i \in 1 .. k : ~r[at[i]].popped /\ t[i] = r[at[i]].gate
  BY <1>1, <1>3, <1>4
<1>7. \A j \in 1 .. (l - 1) : ~r[j].popped => \E i \in 1 .. k : at[i] = j
  <2>1. \A j \in 1 .. (l - 1) : j \in 1 .. l
    BY <1>2
  <2>2. QED
    BY <1>1, <1>3, <2>1
<1>8. QED
  <2>1. TakenAt(at, r, t)
    BY <1>1, <1>3, <1>6, <1>7 DEF TakenAt, k
  <2>2. QED
    BY <1>3, <1>5, <2>1 DEF TakenBy, k, r

-----------------------------------------------------------------------------
(* The inductive invariant.                                                *)
LowestFlags(n) ==
  [g \in Gate |-> IF g \notin n.gates THEN "EMPTY" ELSE IF g \in n.dups THEN "DUP"
                  ELSE IF g \in n.lowest THEN "CUT" ELSE "ABOVE"]

(* The last call, the cut that it found, and what it removed so far.       *)
Top == stack[Len(stack)]
Base == IF stack = <<>> THEN LowestFlags(Net) ELSE Top.before.flag
RemovedNow == {Top.gate} \union Range(removed)
First(w) == IF w = <<>> THEN {} ELSE {Head(w)}

InputsRight ==
  /\ NetRight(Net)
  /\ fanout \in [Gate -> Seq(Gate)]
  /\ \A g \in Gate : Range(fanout[g]) = {h \in Gate : g \in Range(fanin[h])}
  /\ isNew \in [Gate -> BOOLEAN] /\ dup \in Seq(Gate) /\ minCheckSize \in Nat
CutRight ==
  /\ FlagsRight(Net, flag) /\ covered \in [Gate -> BOOLEAN]
  /\ active = {g \in Gate : flag[g] = "CUT"} /\ numNew = Count(Net, flag)
ListsRight ==
  /\ queue \in Seq(Gate) /\ waiting \in Seq(Gate) /\ spread \in Seq(Gate) /\ removed \in Seq(Gate)
  /\ Range(queue) \subseteq reached
TakenRight ==
  /\ taken \in Seq(Gate) /\ IsInjective(taken) /\ Len(taken) <= minCheckSize
  /\ Range(taken) = {g \in Gate : flag[g] = "TAKEN"} /\ TakenBy(stack, taken)
StackRight == CallsRight(Net, stack)
LegalizeRight ==
  pc \in {"pop", "legalize"} =>
    /\ Legalizing(Net, Base, flag, covered, Range(queue), Range(waiting), Range(spread))
    /\ stack # <<>> =>
         Top.popped /\ Supporting(Net, Base, flag, RemovedNow, First(waiting), Range(spread))
PopDownRight ==
  pc = "recover" => PuttingBack(Net, Base, flag, Range(queue), Range(waiting), OfCall(Top))
FanoutsRight ==
  pc = "fanouts" => Recovering(Net, Base, flag, Range(queue), Range(waiting), Range(spread))

(* Where the search is.                                                    *)
PhaseRight ==
  /\ pc \in {"enumerate", "pop", "legalize", "decide", "return", "recover", "fanouts", "done"}
  /\ pc \in {"enumerate", "done"} => stack = <<>>
  /\ pc = "enumerate" => flag = LowestFlags(Net)
  /\ pc \notin {"enumerate", "done"} => lowest # {}
  /\ pc \in {"return", "recover", "fanouts"} => stack # <<>>
  /\ pc \in {"recover", "fanouts"} => Top.popped
  /\ pc \in {"decide", "return"} /\ stack # <<>> => After(Net, Top, flag)
  /\ pc = "decide" => IsLegal(Net, flag) /\ active # {}
  /\ stack # <<>> \/ pc \in {"legalize", "decide"} => numNew >= 1
  /\ pc \notin {"pop", "legalize", "fanouts"} => spread = <<>>
  /\ pc \in {"enumerate", "pop", "decide", "return"} => waiting = <<>>
  /\ pc = "decide" \/ (pc = "return" /\ ~Top.popped) => queue = <<>>

IInv ==
  /\ InputsRight /\ CutRight /\ ListsRight /\ TakenRight /\ StackRight
  /\ LegalizeRight /\ PopDownRight /\ FanoutsRight /\ PhaseRight

-----------------------------------------------------------------------------
(* What a step keeps.                                                      *)
LEMMA NetKept ==
  ASSUME InputsRight, UNCHANGED inputs
  PROVE  /\ Net' = Net /\ InputsRight'
         /\ fanin' = fanin /\ fanout' = fanout /\ reached' = reached /\ minCheckSize' = minCheckSize
         /\ lowest' = lowest
<1>1. /\ fanin' = fanin /\ fanout' = fanout /\ reached' = reached /\ minCheckSize' = minCheckSize
      /\ lowest' = lowest /\ isNew' = isNew /\ dup' = dup /\ dupMergeChange' = dupMergeChange
  BY DEF inputs
<1>2. Net' = Net
  BY <1>1 DEF Net
<1>3. QED
  BY <1>1, <1>2 DEF InputsRight

(* The calls stay right when neither they nor the netlist change.          *)
LEMMA StackKept ==
  ASSUME StackRight, Net' = Net, stack' = stack
  PROVE  /\ StackRight' /\ Base' = Base /\ Top' = Top
         /\ removed' = removed => RemovedNow' = RemovedNow
BY DEF StackRight, Base, Top, RemovedNow

(* The taken gates stay right when no flag of one changes.                 *)
LEMMA TakenKept ==
  ASSUME TakenRight, stack' = stack, taken' = taken, minCheckSize' = minCheckSize,
         \A g \in Gate : flag'[g] = "TAKEN" <=> flag[g] = "TAKEN"
  PROVE  TakenRight'
BY DEF TakenRight

(* The lists of the netlist.                                               *)
LEMMA NetLists ==
  ASSUME InputsRight, NEW g \in Gate
  PROVE  /\ fanin[g] \in Seq(Gate) /\ fanout[g] \in Seq(Gate)
         /\ Range(fanin[g]) = Range(Net.fanin[g]) /\ Net.gates = reached
         /\ \A h \in Net.gates : g \in Net.gates => (h \in Range(fanout[g]) <=> g \in Reads(Net, h))
         /\ isNew[g] <=> g \in Net.news
         /\ Root \notin Range(fanin[g])
         /\ Range(fanin[g]) \intersect Net.gates = Reads(Net, g)
<1>1. /\ Net.fanin = fanin /\ Net.gates = reached /\ Net.news = {h \in Gate : isNew[h]}
  BY DEF Net
<1>2. fanin \in [Gate -> Seq(Gate)] /\ Net.gates \subseteq Gate /\ Range(fanin[g]) \subseteq 1 .. (g - 1)
  BY <1>1 DEF InputsRight, NetRight
<1>3. Root \notin Range(fanin[g])
  <2>1. N \in Nat /\ g \in 1 .. N
    BY CutEnumAssumption DEF Gate
  <2>2. QED
    BY <1>2, <2>1 DEF Root
<1>4. \A h \in Net.gates : g \in Net.gates => (h \in Range(fanout[g]) <=> g \in Reads(Net, h))
  BY <1>1, <1>2 DEF InputsRight, Reads
<1>5. QED
  BY <1>1, <1>2, <1>3, <1>4 DEF InputsRight, Reads

(* The base is a cut to start from, and a legal one once there is a call.  *)
LEMMA LowestIsBase ==
  ASSUME NEW n, NetRight(n)
  PROVE  BaseRight(n, LowestFlags(n))
<1> DEFINE b == LowestFlags(n)
<1>1. \A g \in Gate : b[g] = IF g \notin n.gates THEN "EMPTY" ELSE IF g \in n.dups THEN "DUP"
                             ELSE IF g \in n.lowest THEN "CUT" ELSE "ABOVE"
  BY DEF LowestFlags
<1>2. b \in [Gate -> Flags]
  BY DEF LowestFlags, Flags
<1> HIDE DEF b
<1>3. n.gates \subseteq Gate /\ n.dups \subseteq n.gates \ {Root} /\ n.lowest \subseteq n.gates \ {Root}
      /\ n.lowest \intersect n.dups = {} /\ Root \in n.gates
  BY DEF NetRight
<1>4. FlagsRight(n, b)
  BY <1>1, <1>2, <1>3 DEF FlagsRight
<1>5. Split(n, b)
  BY <1>1, <1>3 DEF Split, Reads
<1>6. \A g \in Inner(n) : g \in n.gates /\ b[g] = "ABOVE"
  BY <1>1, <1>3 DEF Inner
<1>7. \A g \in n.gates \ {Root} : \E h \in n.gates : g \in Reads(n, h) /\ b[h] = "ABOVE"
  <2>1. SUFFICES ASSUME NEW g \in n.gates \ {Root}
                 PROVE  \E h \in n.gates : g \in Reads(n, h) /\ b[h] = "ABOVE"
    OBVIOUS
  <2>2. PICK h \in Inner(n) : g \in Reads(n, h)
    BY DEF NetRight
  <2>3. QED
    BY <1>6, <2>2
<1>8. QED
  BY <1>4, <1>5, <1>7 DEF BaseRight, b

(* The cut that a legalization starts from, that of the last call or the   *)
(* lowest one.                                                             *)
LEMMA BaseIs ==
  ASSUME InputsRight, StackRight
  PROVE  /\ NetRight(Net) /\ BaseRight(Net, Base)
         /\ FlagsRight(Net, Base)
         /\ stack # <<>> => /\ Len(stack) \in Nat /\ Len(stack) >= 1 /\ CallRight(Net, Top)
                            /\ IsLegal(Net, Base) /\ Base = Top.before.flag
<1>1. NetRight(Net)
  BY DEF InputsRight
<1>2. CASE stack = <<>>
  BY <1>1, <1>2, LowestIsBase DEF Base, BaseRight
<1>3. CASE stack # <<>>
  <2>1. stack \in Seq(Call)
    BY DEF StackRight, CallsRight
  <2>2. Len(stack) \in Nat /\ Len(stack) >= 1
    BY <1>3, <2>1
  <2>3. CallRight(Net, Top)
    BY <2>2 DEF StackRight, CallsRight, Top
  <2>4. IsLegal(Net, Base) /\ Base = Top.before.flag
    BY <1>3, <2>3 DEF CallRight, Base
  <2>5. QED
    BY <1>1, <1>3, <2>2, <2>3, <2>4, LegalIsBase DEF BaseRight
<1>4. QED
  BY <1>2, <1>3

-----------------------------------------------------------------------------
(* The steps of the search.                                                *)

(* The cut to legalize is the lowest one.                                  *)
LEMMA SetInOrder ==
  ASSUME NEW S \in SUBSET Gate
  PROVE  SetToSeq(S) \in Seq(Gate) /\ Range(SetToSeq(S)) = S
<1> DEFINE k == Cardinality(S)
<1>1. IsFiniteSet(S) /\ k \in Nat
  BY GatesAreNat, FS_Subset, FS_CardinalityType
<1>2. \E f \in [1 .. k -> S] : IsInjective(f)
  <2>1. ExistsBijection(1 .. k, S)
    BY <1>1, FS_CardinalityType
  <2> HIDE DEF k
  <2>2. PICK f \in Bijection(1 .. k, S) : TRUE
    BY <2>1 DEF ExistsBijection
  <2>3. f \in [1 .. k -> S] /\ \A a, b \in 1 .. k : f[a] = f[b] => a = b
    BY DEF Bijection, Injection, IsInjective
  <2>4. DOMAIN f = 1 .. k
    BY <2>3
  <2>5. QED
    BY <2>3, <2>4 DEF IsInjective
<1> DEFINE q == SetToSeq(S)
<1>3. q \in [1 .. k -> S] /\ IsInjective(q)
  BY <1>2 DEF SetToSeq
<1> HIDE DEF q
<1>4. q \in Seq(Gate) /\ DOMAIN q = 1 .. k
  BY <1>1, <1>3
<1>5. Range(q) = S
  <2>1. q \in Injection(1 .. k, S)
    BY <1>3 DEF Injection, IsInjective
  <2>2. Cardinality(1 .. k) = k /\ IsFiniteSet(1 .. k)
    BY <1>1, FS_Interval
  <2>3. q \in Surjection(1 .. k, S)
    BY <1>1, <2>1, <2>2, FS_Injection
  <2>4. QED
    BY <1>4, <2>3 DEF Surjection, Range
<1>6. QED
  BY <1>4, <1>5 DEF q

(* The search begins with the lowest cut.                                  *)
LEMMA EnumerateCutsKeeps == ASSUME IInv, EnumerateCuts PROVE IInv'
<1>1. /\ InputsRight /\ CutRight /\ ListsRight /\ TakenRight /\ StackRight /\ PhaseRight
      /\ pc = "enumerate" /\ stack = <<>> /\ flag = LowestFlags(Net)
  BY DEF IInv, EnumerateCuts, PhaseRight
<1>2. /\ UNCHANGED inputs /\ UNCHANGED cut /\ waiting' = waiting /\ spread' = spread /\ removed' = removed
      /\ taken' = taken /\ stack' = stack
      /\ queue' = dup \o SetToSeq(active) /\ pc' = IF active = {} THEN "done" ELSE "pop"
  BY <1>1 DEF EnumerateCuts
<1>3. flag' = flag /\ covered' = covered /\ active' = active /\ numNew' = numNew
  BY <1>2 DEF cut
<1>4. /\ Net' = Net /\ InputsRight' /\ fanin' = fanin /\ fanout' = fanout /\ reached' = reached
      /\ minCheckSize' = minCheckSize /\ lowest' = lowest
  BY <1>1, <1>2, NetKept
<1>5. StackRight' /\ Base' = Base /\ Top' = Top /\ TakenRight'
  BY <1>1, <1>2, <1>3, <1>4, StackKept, TakenKept
<1>6. CutRight'
  BY <1>1, <1>3, <1>4 DEF CutRight
<1>7. NetRight(Net) /\ Net.gates = reached /\ Net.dups = Range(dup) /\ Net.lowest = lowest /\ dup \in Seq(Gate)
  BY <1>1 DEF InputsRight, Net
<1>8. queue' \in Seq(Gate) /\ Range(queue') = Range(dup) \union active
  <2>1. active \in SUBSET Gate
    BY <1>1 DEF CutRight
  <2>2. SetToSeq(active) \in Seq(Gate) /\ Range(SetToSeq(active)) = active
    BY <2>1, SetInOrder
  <2>3. QED
    BY <1>2, <1>7, <2>2, RangeConcat
<1>9. waiting = <<>> /\ spread = <<>>
  <2>1. spread = <<>>
    BY <1>1 DEF PhaseRight
  <2>2. waiting = <<>>
    BY <1>1 DEF PhaseRight
  <2>3. QED
    BY <2>1, <2>2
<1>10. active = lowest /\ \A g \in Range(dup) \union active : flag[g] \in OnCut /\ g \in reached
  <2>1. Range(dup) \subseteq reached /\ lowest \subseteq reached /\ reached \subseteq Gate
        /\ lowest \intersect Range(dup) = {}
    BY <1>7 DEF NetRight
  <2>2. \A g \in Gate : flag[g] = IF g \notin reached THEN "EMPTY" ELSE IF g \in Range(dup) THEN "DUP"
                                    ELSE IF g \in lowest THEN "CUT" ELSE "ABOVE"
    BY <1>1, <1>7 DEF LowestFlags
  <2>3. active = lowest
    BY <1>1, <2>1, <2>2 DEF CutRight
  <2>4. QED
    BY <2>1, <2>2, <2>3 DEF OnCut
<1>11. ListsRight'
  BY <1>1, <1>2, <1>4, <1>8, <1>10 DEF ListsRight
<1>12. LegalizeRight'
  <2>1. Base = flag
    BY <1>1 DEF Base
  <2>2. \A g \in reached : flag[g] \in {"DUP", "CUT", "ABOVE"}
    BY <1>1, <1>7 DEF LowestFlags, NetRight
  <2>3. Moved(Net, flag, flag)
    BY <1>7, <2>2 DEF Moved
  <2>4. FaninsPending(Net, flag, Range(queue'), {})
    <3>1. \A g \in reached : flag[g] # "ABOVE" => g \in Range(dup) \union active
      <4>1. SUFFICES ASSUME NEW g \in reached, flag[g] # "ABOVE" PROVE g \in Range(dup) \union active
        OBVIOUS
      <4>2. g \in Gate /\ flag[g] \in {"DUP", "CUT"}
        BY <1>7, <2>2, <4>1 DEF NetRight
      <4>3. QED
        BY <1>1, <1>7, <4>2 DEF CutRight, FlagsRight
    <3>2. QED
      BY <1>7, <1>8, <2>2, <3>1 DEF FaninsPending
  <2>5. FanoutsCovered(Net, flag, flag, covered, {})
    BY DEF FanoutsCovered
  <2>6. Legalizing(Net, flag, flag, covered, Range(queue'), {}, {})
    BY <1>8, <1>10, <2>3, <2>4, <2>5 DEF Legalizing, OnCut
  <2>7. Range(waiting') = {} /\ Range(spread') = {}
    BY <1>2, <1>9, RangeEmpty
  <2>8. QED
    BY <1>1, <1>2, <1>3, <1>4, <1>5, <2>1, <2>6, <2>7 DEF LegalizeRight
<1>13. PopDownRight' /\ FanoutsRight'
  BY <1>2 DEF PopDownRight, FanoutsRight
<1>14. PhaseRight'
  BY <1>1, <1>2, <1>4, <1>9, <1>10 DEF PhaseRight
<1>15. QED
  BY <1>4, <1>5, <1>6, <1>11, <1>12, <1>13, <1>14 DEF IInv

(* What a step of a legalization finds, and what it has to give.           *)
LEMMA LegalizeFinds ==
  ASSUME IInv, pc \in {"pop", "legalize"}
  PROVE  /\ InputsRight /\ CutRight /\ ListsRight /\ TakenRight /\ StackRight /\ PhaseRight
         /\ NetRight(Net) /\ FlagsRight(Net, Base) /\ BaseRight(Net, Base) /\ FlagsRight(Net, flag)
         /\ covered \in [Gate -> BOOLEAN] /\ Net.gates = reached /\ reached \subseteq Gate
         /\ queue \in Seq(Gate) /\ waiting \in Seq(Gate) /\ spread \in Seq(Gate) /\ removed \in Seq(Gate)
         /\ Range(queue) \subseteq reached
         /\ Legalizing(Net, Base, flag, covered, Range(queue), Range(waiting), Range(spread))
         /\ Moved(Net, Base, flag)
         /\ stack # <<>> =>
              /\ Top.popped /\ CallRight(Net, Top) /\ IsLegal(Net, Base) /\ Base = Top.before.flag
              /\ Len(stack) \in Nat /\ Len(stack) >= 1 /\ stack \in Seq(Call)
              /\ Supporting(Net, Base, flag, RemovedNow, First(waiting), Range(spread))
<1>1. /\ InputsRight /\ CutRight /\ ListsRight /\ TakenRight /\ StackRight /\ PhaseRight /\ LegalizeRight
  BY DEF IInv
<1>2. Legalizing(Net, Base, flag, covered, Range(queue), Range(waiting), Range(spread))
      /\ (stack # <<>> => /\ Top.popped
                          /\ Supporting(Net, Base, flag, RemovedNow, First(waiting), Range(spread)))
  BY <1>1 DEF LegalizeRight
<1>3. Moved(Net, Base, flag)
  BY <1>2 DEF Legalizing
<1>4. FlagsRight(Net, flag) /\ covered \in [Gate -> BOOLEAN]
  BY <1>1 DEF CutRight
<1>5. Net.gates = reached
  BY DEF Net
<1>6. reached \subseteq Gate
  BY <1>1, <1>5 DEF InputsRight, NetRight
<1>7. stack \in Seq(Call)
  BY <1>1 DEF StackRight, CallsRight
<1>8. QED
  BY <1>1, <1>2, <1>3, <1>4, <1>5, <1>6, <1>7, BaseIs DEF ListsRight

(* What a step of a legalization has to give.                              *)
LEMMA LegalizeGives ==
  ASSUME IInv, pc \in {"pop", "legalize"}, UNCHANGED <<inputs, taken, stack, pc>>,
         FlagsRight(Net, flag'), covered' \in [Gate -> BOOLEAN],
         active' = {g \in Gate : flag'[g] = "CUT"}, numNew' = Count(Net, flag'),
         stack # <<>> \/ pc = "legalize" => numNew' >= 1,
         \A g \in Gate : flag'[g] = "TAKEN" <=> flag[g] = "TAKEN",
         queue' \in Seq(Gate), waiting' \in Seq(Gate), spread' \in Seq(Gate), removed' \in Seq(Gate),
         Range(queue') \subseteq reached, pc = "pop" => waiting' = <<>>,
         Legalizing(Net, Base, flag', covered', Range(queue'), Range(waiting'), Range(spread')),
         stack # <<>> => Supporting(Net, Base, flag', {Top.gate} \union Range(removed'),
                                    First(waiting'), Range(spread'))
  PROVE  IInv'
<1>1. /\ InputsRight /\ CutRight /\ ListsRight /\ TakenRight /\ StackRight /\ PhaseRight
      /\ stack # <<>> => Top.popped
  BY LegalizeFinds
<1>2. /\ Net' = Net /\ InputsRight' /\ reached' = reached /\ minCheckSize' = minCheckSize
      /\ lowest' = lowest /\ pc' = pc /\ stack' = stack /\ taken' = taken
  BY <1>1, NetKept
<1>3. StackRight' /\ Base' = Base /\ Top' = Top /\ TakenRight'
  BY <1>1, <1>2, StackKept, TakenKept
<1>4. CutRight'
  BY <1>2 DEF CutRight
<1>5. ListsRight'
  BY <1>2 DEF ListsRight
<1>6. LegalizeRight'
  BY <1>1, <1>2, <1>3 DEF LegalizeRight, RemovedNow
<1>7. PopDownRight' /\ FanoutsRight'
  BY <1>2 DEF PopDownRight, FanoutsRight
<1>8. PhaseRight'
  BY <1>1, <1>2 DEF PhaseRight
<1>9. QED
  BY <1>2, <1>3, <1>4, <1>5, <1>6, <1>7, <1>8 DEF IInv

(* A fanout of a gate that leaves the cut comes onto it, or is passed.     *)
LEMMA CoverFanoutKeeps == ASSUME IInv, CoverFanout PROVE IInv'
<1>1. pc \in {"pop", "legalize"} /\ spread # <<>>
      /\ UNCHANGED <<inputs, numNew, waiting, removed, taken, stack, pc>>
  BY DEF CoverFanout
<1>2. /\ InputsRight /\ CutRight /\ ListsRight /\ StackRight /\ PhaseRight
      /\ NetRight(Net) /\ FlagsRight(Net, Base) /\ FlagsRight(Net, flag)
      /\ covered \in [Gate -> BOOLEAN] /\ Net.gates = reached /\ reached \subseteq Gate
      /\ queue \in Seq(Gate) /\ waiting \in Seq(Gate) /\ spread \in Seq(Gate) /\ removed \in Seq(Gate)
      /\ Range(queue) \subseteq reached
      /\ Legalizing(Net, Base, flag, covered, Range(queue), Range(waiting), Range(spread))
      /\ Moved(Net, Base, flag)
      /\ stack # <<>> => /\ IsLegal(Net, Base)
                         /\ Supporting(Net, Base, flag, RemovedNow, First(waiting), Range(spread))
  BY <1>1, LegalizeFinds
<1>3. /\ stack # <<>> \/ pc = "legalize" => numNew >= 1
      /\ pc = "pop" => waiting = <<>>
      /\ active = {g \in Gate : flag[g] = "CUT"} /\ numNew = Count(Net, flag)
  BY <1>2 DEF PhaseRight, CutRight
<1>4. PICK g : g = Head(spread)
  OBVIOUS
<1>5. /\ g \in Gate /\ Tail(spread) \in Seq(Gate) /\ g \in Range(spread)
      /\ Range(spread) = {g} \union Range(Tail(spread))
  BY <1>1, <1>2, <1>4, RangeTail
<1>6. /\ fanout[g] \in Seq(Gate)
      /\ \A h \in Net.gates : g \in Net.gates => (h \in Range(fanout[g]) <=> g \in Reads(Net, h))
  BY <1>2, <1>5, NetLists
<1>7. CASE g \in reached /\ flag[g] = "BELOW" /\ ~covered[g]
  <2>1. /\ covered' = Put(covered, g, TRUE) /\ spread' = Tail(spread) \o fanout[g]
        /\ flag' = flag /\ active' = active /\ queue' = queue
    BY <1>4, <1>7 DEF CoverFanout, Put
  <2>2. spread' \in Seq(Gate) /\ Range(spread') = Range(Tail(spread)) \union Range(fanout[g])
    <3>1. PICK p \in Seq(Gate), q \in Seq(Gate) : p = Tail(spread) /\ q = fanout[g]
      BY <1>5, <1>6
    <3>2. p \o q \in Seq(Gate) /\ Range(p \o q) = Range(p) \union Range(q)
      BY RangeConcat
    <3>3. QED
      BY <2>1, <3>1, <3>2
  <2>3. covered' \in [Gate -> BOOLEAN]
    BY <1>2, <1>5, <2>1 DEF Put
  <2>4. Legalizing(Net, Base, flag, covered', Range(queue), Range(waiting), Range(spread'))
    BY <1>2, <1>5, <1>6, <1>7, <2>1, <2>2, CoverBelow
  <2>5. stack # <<>> => Supporting(Net, Base, flag, RemovedNow, First(waiting), Range(spread'))
    BY <1>2, <1>5, <1>6, <1>7, <2>2, SupportCoverBelow
  <2>6. QED
    BY <1>1, <1>2, <1>3, <2>1, <2>2, <2>3, <2>4, <2>5, LegalizeGives DEF RemovedNow
<1>8. CASE ~(g \in reached /\ flag[g] = "BELOW" /\ ~covered[g]) /\ g \in reached /\ flag[g] \in {"EMPTY", "ABOVE"}
  <2>1. /\ flag' = Put(flag, g, "CUT") /\ covered' = Put(covered, g, FALSE) /\ spread' = Tail(spread)
        /\ active' = active \union {g} /\ queue' = Append(queue, g)
    BY <1>4, <1>8 DEF CoverFanout, Put
  <2>2. flag[g] = "ABOVE"
    BY <1>2, <1>5, <1>8 DEF FlagsRight
  <2>3. /\ FlagsRight(Net, flag') /\ flag'[g] = "CUT" /\ \A h \in Gate : h # g => flag'[h] = flag[h]
    BY <1>2, <1>8, <2>1, <2>2, FlagsPut DEF Movable
  <2>4. covered' \in [Gate -> BOOLEAN]
    BY <1>2, <1>5, <2>1 DEF Put
  <2>5. queue' \in Seq(Gate) /\ Range(queue') = Range(queue) \union {g}
    BY <1>2, <1>5, <2>1, RangeAppend
  <2>6. active' = {h \in Gate : flag'[h] = "CUT"}
    BY <1>3, <1>5, <2>1, <2>3
  <2>7. numNew' = Count(Net, flag')
    <3>1. g \notin Net.news
      BY <1>2, <1>8, <2>2, AboveIsInner
    <3>2. \A h \in Net.news : flag[h] \in OnCut <=> flag'[h] \in OnCut
      BY <1>2, <2>3, <3>1, NewsFinite
    <3>3. QED
      BY <1>1, <1>3, <3>2, CountSame
  <2>8. Legalizing(Net, Base, flag', covered', Range(queue'), Range(waiting), Range(spread'))
    <3>1. Range(spread) \subseteq Range(Tail(spread)) \union {g}
      BY <1>5
    <3>2. Legalizing(Net, Base, Put(flag, g, "CUT"), Put(covered, g, FALSE), Range(queue) \union {g},
                     Range(waiting), Range(Tail(spread)))
      BY <1>2, <1>8, <2>2, <3>1, CoverAbove
    <3>3. QED
      BY <2>1, <2>5, <3>2
  <2>9. stack # <<>> => Supporting(Net, Base, flag', RemovedNow, First(waiting), Range(spread'))
    BY <1>2, <1>5, <1>8, <2>1, <2>2, SupportCoverAbove
  <2>10. \A h \in Gate : flag'[h] = "TAKEN" <=> flag[h] = "TAKEN"
    BY <2>2, <2>3
  <2>11. Range(queue') \subseteq reached
    BY <1>2, <1>8, <2>5
  <2>12. QED
    BY <1>1, <1>2, <1>3, <1>5, <2>1, <2>3, <2>4, <2>5, <2>6, <2>7, <2>8, <2>9, <2>10, <2>11, LegalizeGives
       DEF RemovedNow
<1>9. CASE /\ ~(g \in reached /\ flag[g] = "BELOW" /\ ~covered[g])
           /\ ~(g \in reached /\ flag[g] \in {"EMPTY", "ABOVE"})
  <2>1. /\ flag' = flag /\ covered' = covered /\ spread' = Tail(spread)
        /\ active' = active /\ queue' = queue
    BY <1>4, <1>9 DEF CoverFanout
  <2>2. g \in Net.gates => flag[g] \in OnCut \/ (flag[g] = "BELOW" /\ covered[g])
    <3>1. g \in Net.gates => flag[g] \in Flags
      BY <1>2, <1>5 DEF FlagsRight
    <3>2. QED
      BY <1>2, <1>9, <3>1 DEF Flags, OnCut
  <2>3. Legalizing(Net, Base, flag, covered, Range(queue), Range(waiting), Range(spread'))
    BY <1>2, <1>5, <2>1, <2>2, CoverNothing
  <2>4. stack # <<>> => Supporting(Net, Base, flag, RemovedNow, First(waiting), Range(spread'))
    BY <1>2, <1>5, <2>1, SupportLess
  <2>5. QED
    BY <1>1, <1>2, <1>3, <1>5, <2>1, <2>3, <2>4, LegalizeGives DEF RemovedNow
<1>10. QED
  BY <1>7, <1>8, <1>9

(* A call gets what it removed, and goes on.                               *)
LEMMA ResultKeeps ==
  ASSUME IInv, pc \in {"pop", "legalize"}, stack # <<>>, UNCHANGED <<inputs, cut, taken>>,
         removed' \in Seq(Gate), stack' = Result,
         Popped(Net, Base, flag, {Top.gate} \union Range(removed'))
  PROVE  /\ stack' # <<>> /\ StackRight' /\ TakenRight' /\ Top'.popped /\ After(Net, Top', flag)
<1>1. /\ InputsRight /\ TakenRight /\ StackRight
      /\ Top.popped /\ CallRight(Net, Top) /\ Base = Top.before.flag
      /\ Len(stack) \in Nat /\ Len(stack) >= 1 /\ stack \in Seq(Call)
  BY LegalizeFinds
<1>2. /\ Net' = Net /\ flag' = flag /\ taken' = taken /\ minCheckSize' = minCheckSize
  BY <1>1, NetKept DEF cut
<1> DEFINE k == Len(stack)
           c == [stack[k] EXCEPT !.removed = removed']
<1>3. stack[k] = Top /\ Top \in Call
  BY <1>1 DEF Top, CallRight
<1>4. c \in Call /\ c.gate = Top.gate /\ c.popped = Top.popped /\ c.before = Top.before /\ c.removed = removed'
  BY <1>3 DEF Call
<1>5. stack' = [stack EXCEPT ![k] = c]
  BY DEF Result
<1> HIDE DEF c
<1>6. /\ stack' \in Seq(Call) /\ Len(stack') = k /\ stack'[k] = c
      /\ \A j \in 1 .. k : j # k => stack'[j] = stack[j]
  <2>1. k \in Nat /\ k \in 1 .. k /\ stack \in [1 .. k -> Call]
    BY <1>1
  <2> HIDE DEF k
  <2>2. stack' \in [1 .. k -> Call] /\ stack'[k] = c /\ \A j \in 1 .. k : j # k => stack'[j] = stack[j]
    BY <1>4, <1>5, <2>1
  <2>3. stack' \in Seq(Call) /\ Len(stack') = k
    BY <2>1, <2>2
  <2>4. QED
    BY <2>2, <2>3
<1>7. Top' = c
  BY <1>6 DEF Top
<1>8. CallRight(Net, c)
  BY <1>1, <1>4 DEF CallRight
<1>9. StackRight'
  <2>1. \A j \in 1 .. k : CallRight(Net, stack[j])
    BY <1>1 DEF StackRight, CallsRight
  <2>2. \A j \in 1 .. k : CallRight(Net, stack'[j])
    BY <1>6, <1>8, <2>1
  <2>3. ASSUME NEW j \in 2 .. k PROVE After(Net, stack'[j - 1], stack'[j].before.flag)
    <3>1. After(Net, stack[j - 1], stack[j].before.flag)
      BY <1>1 DEF StackRight, CallsRight
    <3>2. j - 1 \in 1 .. k /\ j - 1 # k /\ j \in 1 .. k
      BY <1>1
    <3>3. stack'[j - 1] = stack[j - 1] /\ stack'[j].before = stack[j].before
      BY <1>3, <1>4, <1>6, <3>2
    <3>4. QED
      BY <3>1, <3>3
  <2>4. QED
    BY <1>2, <1>6, <2>2, <2>3 DEF StackRight, CallsRight
<1>10. TakenRight'
  <2>1. \A j \in 1 .. k : stack'[j].gate = stack[j].gate /\ stack'[j].popped = stack[j].popped
    BY <1>3, <1>4, <1>6
  <2>2. TakenBy(stack', taken)
    BY <1>1, <1>6, <2>1, TakenSame DEF TakenRight
  <2>3. QED
    BY <1>1, <1>2, <2>2 DEF TakenRight
<1>11. After(Net, c, flag)
  BY <1>1, <1>4 DEF After, OfCall
<1>12. stack' # <<>>
  BY <1>1, <1>6
<1>13. QED
  BY <1>1, <1>4, <1>7, <1>9, <1>10, <1>11, <1>12

(* A cut without new gates fails; another one is checked.                  *)
LEMMA LegalizeCutKeeps == ASSUME IInv, LegalizeCut PROVE IInv'
<1>1. /\ pc = "pop" /\ spread = <<>> /\ UNCHANGED inputs /\ UNCHANGED cut
      /\ queue' = queue /\ spread' = spread /\ removed' = removed /\ taken' = taken
  BY DEF LegalizeCut
<1>2. /\ InputsRight /\ CutRight /\ ListsRight /\ TakenRight /\ StackRight /\ PhaseRight
  BY <1>1, LegalizeFinds
<1>3. /\ waiting = <<>> /\ lowest # {} /\ (stack # <<>> => numNew >= 1)
  BY <1>1, <1>2 DEF PhaseRight
<1>4. numNew \in Nat
  BY <1>2, NewsFinite DEF CutRight, InputsRight
<1>5. /\ Net' = Net /\ InputsRight' /\ reached' = reached /\ minCheckSize' = minCheckSize
      /\ lowest' = lowest
      /\ flag' = flag /\ covered' = covered /\ active' = active /\ numNew' = numNew
  BY <1>1, <1>2, NetKept DEF cut
<1>6. CutRight'
  BY <1>2, <1>5 DEF CutRight
<1>7. /\ stack' = stack /\ waiting' = waiting
      /\ (numNew = 0 => pc' = "done" /\ stack = <<>>) /\ (numNew # 0 => pc' = "legalize" /\ numNew >= 1)
  <2>1. CASE numNew = 0
    BY <1>3, <2>1 DEF LegalizeCut, Fail, Result
  <2>2. CASE numNew # 0
    BY <1>4, <2>2 DEF LegalizeCut
  <2>3. QED
    BY <2>1, <2>2
<1>8. ListsRight'
  BY <1>1, <1>2, <1>5, <1>7 DEF ListsRight
<1>9. StackRight' /\ Base' = Base /\ Top' = Top /\ TakenRight' /\ RemovedNow' = RemovedNow
  BY <1>1, <1>2, <1>5, <1>7, StackKept, TakenKept
<1>10. LegalizeRight'
  BY <1>1, <1>5, <1>7, <1>9 DEF IInv, LegalizeRight
<1>11. PopDownRight' /\ FanoutsRight'
  BY <1>7 DEF PopDownRight, FanoutsRight
<1>12. PhaseRight'
  BY <1>1, <1>3, <1>5, <1>7 DEF PhaseRight
<1>13. QED
  BY <1>5, <1>6, <1>8, <1>9, <1>10, <1>11, <1>12 DEF IInv

(* The fanins of the next gate are to visit.                               *)
LEMMA CheckNextKeeps == ASSUME IInv, CheckNext PROVE IInv'
<1>1. /\ pc = "legalize" /\ spread = <<>> /\ waiting = <<>> /\ queue # <<>>
      /\ UNCHANGED <<inputs, spread, removed, taken, stack, pc>> /\ UNCHANGED cut
      /\ queue' = Tail(queue)
  BY DEF CheckNext
<1>2. /\ InputsRight /\ CutRight /\ NetRight(Net) /\ FlagsRight(Net, flag)
      /\ covered \in [Gate -> BOOLEAN] /\ Net.gates = reached /\ reached \subseteq Gate
      /\ queue \in Seq(Gate) /\ spread \in Seq(Gate) /\ removed \in Seq(Gate)
      /\ Range(queue) \subseteq reached /\ PhaseRight
      /\ Legalizing(Net, Base, flag, covered, Range(queue), Range(waiting), Range(spread))
      /\ stack # <<>> => Supporting(Net, Base, flag, RemovedNow, First(waiting), Range(spread))
  BY <1>1, LegalizeFinds
<1>3. flag' = flag /\ covered' = covered /\ active' = active /\ numNew' = numNew
  BY <1>1 DEF cut
<1>4. PICK g : g = Head(queue)
  OBVIOUS
<1>5. /\ g \in Gate /\ g \in reached /\ Tail(queue) \in Seq(Gate)
      /\ Range(queue) = {g} \union Range(Tail(queue))
  <2>1. /\ g \in Gate /\ Tail(queue) \in Seq(Gate) /\ Range(queue) = {g} \union Range(Tail(queue))
    BY <1>1, <1>2, <1>4, RangeTail
  <2>2. QED
    BY <1>2, <2>1
<1>6. /\ fanin[g] \in Seq(Gate) /\ Range(fanin[g]) = Range(Net.fanin[g])
      /\ Root \notin Range(fanin[g]) /\ Range(fanin[g]) \intersect Net.gates = Reads(Net, g)
  BY <1>2, <1>5, NetLists
<1>7. waiting' = IF g \in reached /\ flag[g] # "BELOW" THEN fanin[g] ELSE <<>>
  BY <1>4 DEF CheckNext
<1>8. waiting' \in Seq(Gate) /\ Root \notin Range(waiting') /\ Range(waiting) = {}
      /\ (flag[g] # "BELOW" => Range(Net.fanin[g]) \subseteq Range(waiting'))
  BY <1>1, <1>5, <1>6, <1>7, RangeEmpty
<1>9. Legalizing(Net, Base, flag, covered, Range(queue'), Range(waiting'), Range(spread))
  <2>1. Legalizing(Net, Base, flag, covered, Range(queue), {}, Range(spread))
    BY <1>2, <1>8
  <2>2. Range(queue') \subseteq Range(queue) /\ Range(queue) \subseteq Range(queue') \union {g}
    BY <1>1, <1>5
  <2>3. QED
    BY <1>2, <1>5, <1>8, <2>1, <2>2, CheckKeeps
<1>10. stack # <<>> => Supporting(Net, Base, flag, {Top.gate} \union Range(removed), First(waiting'), Range(spread))
  <2>1. First(waiting) = {}
    BY <1>1 DEF First
  <2>2. QED
    BY <1>2, <2>1 DEF Supporting, RemovedNow
<1>11. active' = {h \in Gate : flag'[h] = "CUT"} /\ numNew' = Count(Net, flag') /\ numNew' >= 1
  BY <1>1, <1>2, <1>3 DEF CutRight, PhaseRight
<1>12. queue' \in Seq(Gate) /\ Range(queue') \subseteq reached
  BY <1>1, <1>2, <1>5
<1>13. QED
  BY <1>1, <1>2, <1>3, <1>8, <1>9, <1>10, <1>11, <1>12, LegalizeGives

(* A gate below the cut already.                                           *)
LEMMA IsBelowKeeps == ASSUME IInv, NEW g \in Gate, IsBelow(g) PROVE IInv'
<1>1. /\ pc = "legalize" /\ spread = <<>> /\ waiting # <<>> /\ g = Head(waiting)
      /\ UNCHANGED <<inputs, queue, spread, removed, taken, stack, pc>> /\ UNCHANGED cut
      /\ waiting' = Tail(waiting) /\ (g \notin reached \/ flag[g] = "BELOW")
  BY DEF IsBelow, Checked
<1>2. /\ InputsRight /\ CutRight /\ NetRight(Net) /\ FlagsRight(Net, flag)
      /\ covered \in [Gate -> BOOLEAN] /\ Net.gates = reached /\ reached \subseteq Gate
      /\ queue \in Seq(Gate) /\ waiting \in Seq(Gate) /\ spread \in Seq(Gate) /\ removed \in Seq(Gate)
      /\ Range(queue) \subseteq reached /\ PhaseRight /\ Moved(Net, Base, flag)
      /\ Legalizing(Net, Base, flag, covered, Range(queue), Range(waiting), Range(spread))
      /\ stack # <<>> => /\ IsLegal(Net, Base)
                         /\ Supporting(Net, Base, flag, RemovedNow, First(waiting), Range(spread))
  BY <1>1, LegalizeFinds
<1>3. flag' = flag /\ covered' = covered /\ active' = active /\ numNew' = numNew
  BY <1>1 DEF cut
<1>4. Tail(waiting) \in Seq(Gate) /\ Range(waiting) = {g} \union Range(Tail(waiting))
  BY <1>1, <1>2, RangeTail
<1>5. Legalizing(Net, Base, flag, covered, Range(queue), Range(waiting'), Range(spread))
  <2>1. Range(waiting') \subseteq Range(waiting) /\ Range(waiting) \subseteq Range(waiting') \union {g}
    BY <1>1, <1>4
  <2>2. g \in Net.gates => flag[g] = "BELOW"
    BY <1>1, <1>2
  <2>3. QED
    BY <1>2, <2>1, <2>2, BelowKeeps
<1>6. stack # <<>> => Supporting(Net, Base, flag, {Top.gate} \union Range(removed), First(waiting'), Range(spread))
  <2>1. First(waiting) = {g} /\ (g \in Net.gates => flag[g] = "BELOW")
    BY <1>1, <1>2 DEF First
  <2>2. QED
    BY <1>2, <2>1, SupportBelow DEF RemovedNow
<1>7. active' = {h \in Gate : flag'[h] = "CUT"} /\ numNew' = Count(Net, flag') /\ numNew' >= 1
  BY <1>1, <1>2, <1>3 DEF CutRight, PhaseRight
<1>8. QED
  BY <1>1, <1>2, <1>3, <1>4, <1>5, <1>6, <1>7, LegalizeGives

(* The head of two lists is that of the first.                             *)
LEMMA HeadConcat ==
  ASSUME NEW E, NEW p \in Seq(E), NEW q \in Seq(E), p # <<>>
  PROVE  p \o q # <<>> /\ Head(p \o q) = Head(p) /\ Head(p) \in Range(p)
<1>1. Len(p) \in Nat /\ Len(p) >= 1 /\ Len(q) \in Nat /\ Len(p \o q) = Len(p) + Len(q) /\ (p \o q)[1] = p[1]
  OBVIOUS
<1>2. p \o q \in Seq(E) /\ Head(p) = p[1] /\ Head(p \o q) = (p \o q)[1] /\ 1 \in DOMAIN p
  BY <1>1
<1>3. QED
  BY <1>1, <1>2 DEF Range

(* A gate above the cut moves below it.                                    *)
LEMMA MoveBelowKeeps == ASSUME IInv, NEW g \in Gate, MoveBelow(g) PROVE IInv'
<1>1. /\ pc = "legalize" /\ spread = <<>> /\ waiting # <<>> /\ g = Head(waiting)
      /\ g \in reached /\ flag[g] \in {"EMPTY", "ABOVE"}
      /\ UNCHANGED <<inputs, active, numNew, queue, spread, removed, taken, stack, pc>>
      /\ flag' = Put(flag, g, "BELOW") /\ covered' = Put(covered, g, FALSE)
      /\ waiting' = fanin[g] \o Tail(waiting)
  BY DEF MoveBelow, Checked, Put
<1>2. /\ InputsRight /\ CutRight /\ NetRight(Net) /\ FlagsRight(Net, flag) /\ FlagsRight(Net, Base)
      /\ covered \in [Gate -> BOOLEAN] /\ Net.gates = reached /\ reached \subseteq Gate
      /\ queue \in Seq(Gate) /\ waiting \in Seq(Gate) /\ spread \in Seq(Gate) /\ removed \in Seq(Gate)
      /\ Range(queue) \subseteq reached /\ PhaseRight /\ Moved(Net, Base, flag)
      /\ Legalizing(Net, Base, flag, covered, Range(queue), Range(waiting), Range(spread))
      /\ stack # <<>> => /\ IsLegal(Net, Base)
                         /\ Supporting(Net, Base, flag, RemovedNow, First(waiting), Range(spread))
  BY <1>1, LegalizeFinds
<1>3. flag[g] = "ABOVE"
  BY <1>1, <1>2 DEF FlagsRight
<1>4. g \in Inner(Net) /\ g \notin Net.news
  BY <1>1, <1>2, <1>3, AboveIsInner
<1>5. Tail(waiting) \in Seq(Gate) /\ Range(waiting) = {g} \union Range(Tail(waiting))
  BY <1>1, <1>2, RangeTail
<1>6. /\ fanin[g] \in Seq(Gate) /\ Range(fanin[g]) = Range(Net.fanin[g]) /\ Root \notin Range(fanin[g])
  BY <1>2, NetLists
<1>7. fanin[g] # <<>> /\ Reads(Net, g) = Range(fanin[g])
  <2>1. Net.fanin[g] # <<>> /\ Net.fanin = fanin
    BY <1>2, <1>4 DEF NetRight, Net
  <2>2. QED
    BY <1>2, <1>4, <1>6, <2>1, InnerReads
<1>8. waiting' \in Seq(Gate) /\ Range(waiting') = Range(fanin[g]) \union Range(Tail(waiting))
  <2>1. PICK p \in Seq(Gate), q \in Seq(Gate) : p = fanin[g] /\ q = Tail(waiting)
    BY <1>5, <1>6
  <2>2. p \o q \in Seq(Gate) /\ Range(p \o q) = Range(p) \union Range(q)
    BY RangeConcat
  <2>3. QED
    BY <1>1, <2>1, <2>2
<1>9. Root \notin Range(waiting) /\ g # Root
  BY <1>2, <1>5 DEF Legalizing
<1>10. /\ FlagsRight(Net, flag') /\ flag'[g] = "BELOW" /\ \A h \in Gate : h # g => flag'[h] = flag[h]
  BY <1>1, <1>2, <1>3, <1>9, FlagsPut DEF Movable
<1>11. covered' \in [Gate -> BOOLEAN]
  BY <1>1, <1>2 DEF Put
<1>12. active' = {h \in Gate : flag'[h] = "CUT"}
  BY <1>1, <1>2, <1>3, <1>10 DEF CutRight
<1>13. numNew' = Count(Net, flag') /\ numNew' >= 1
  <2>1. \A h \in Net.news : flag[h] \in OnCut <=> flag'[h] \in OnCut
    BY <1>2, <1>4, <1>10, NewsFinite
  <2>2. Count(Net, flag') = Count(Net, flag)
    BY <2>1, CountSame
  <2>3. QED
    BY <1>1, <1>2, <2>2 DEF CutRight, PhaseRight
<1>14. Legalizing(Net, Base, flag', covered', Range(queue), Range(waiting'), Range(spread))
  <2>1. Range(spread) = {}
    BY <1>1, RangeEmpty
  <2>2. /\ Range(waiting) \subseteq Range(waiting') \union {g} /\ Root \notin Range(waiting')
        /\ Range(Net.fanin[g]) \subseteq Range(waiting') /\ g \in Range(waiting)
    BY <1>5, <1>6, <1>8, <1>9
  <2>3. Legalizing(Net, Base, flag, covered, Range(queue), Range(waiting), {})
    BY <1>2, <2>1
  <2>4. Legalizing(Net, Base, Put(flag, g, "BELOW"), Put(covered, g, FALSE), Range(queue), Range(waiting'), {})
    BY <1>1, <1>2, <1>3, <2>2, <2>3, MoveKeeps
  <2>5. QED
    BY <1>1, <2>1, <2>4
<1>15. stack # <<>> => Supporting(Net, Base, flag', {Top.gate} \union Range(removed), First(waiting'), Range(spread))
  <2>1. First(waiting) = {g}
    BY <1>1 DEF First
  <2>2. \E h \in First(waiting') : h \in Reads(Net, g)
    <3>1. PICK p \in Seq(Gate), q \in Seq(Gate) : p = fanin[g] /\ q = Tail(waiting)
      BY <1>5, <1>6
    <3>2. p \o q # <<>> /\ Head(p \o q) \in Range(p)
      BY <1>7, <3>1, HeadConcat
    <3>3. waiting' = p \o q
      BY <1>1, <3>1
    <3>4. QED
      BY <1>7, <3>1, <3>2, <3>3 DEF First
  <2>3. QED
    BY <1>1, <1>2, <1>3, <2>1, <2>2, SupportMove DEF RemovedNow
<1>16. \A h \in Gate : flag'[h] = "TAKEN" <=> flag[h] = "TAKEN"
  BY <1>3, <1>10
<1>17. QED
  BY <1>1, <1>2, <1>8, <1>10, <1>11, <1>12, <1>13, <1>14, <1>15, <1>16, LegalizeGives

(* What the count is when a gate leaves the cut.                           *)
LEMMA CountLeaves ==
  ASSUME InputsRight, CutRight, NEW g \in Gate, g \in reached, flag[g] \in OnCut, flag' = Put(flag, g, "BELOW"),
         numNew >= 1, ~LastNew(g)
  PROVE  LET k == IF isNew[g] THEN numNew - 1 ELSE numNew IN k = Count(Net, flag') /\ k >= 1
<1>1. /\ NetRight(Net) /\ (isNew[g] <=> g \in Net.news) /\ numNew = Count(Net, flag)
      /\ flag \in [Gate -> Flags]
  BY NetLists DEF InputsRight, CutRight, FlagsRight
<1>2. numNew \in Nat /\ Net.news \subseteq Gate
  BY <1>1, NewsFinite DEF NetRight, Net
<1>3. flag'[g] = "BELOW" /\ \A h \in Gate : h # g => flag'[h] = flag[h]
  BY <1>1 DEF Put
<1>4. CASE isNew[g]
  <2>1. Count(Net, flag') = Count(Net, flag) - 1
    BY <1>1, <1>2, <1>3, <1>4, CountDown DEF OnCut
  <2>2. numNew # 1
    BY <1>4 DEF LastNew
  <2>3. numNew - 1 = Count(Net, flag') /\ numNew - 1 >= 1
    BY <1>1, <1>2, <2>1, <2>2
  <2>4. QED
    BY <1>4, <2>3
<1>5. CASE ~isNew[g]
  <2>1. \A h \in Net.news : flag[h] \in OnCut <=> flag'[h] \in OnCut
    BY <1>1, <1>2, <1>3, <1>5
  <2>2. Count(Net, flag') = Count(Net, flag)
    BY <2>1, CountSame
  <2>3. QED
    BY <1>1, <1>5, <2>2
<1>6. QED
  BY <1>4, <1>5

(* A gate of the cut below another one is removed.                         *)
LEMMA RemoveFromCutKeeps == ASSUME IInv, NEW g \in Gate, RemoveFromCut(g) PROVE IInv'
<1>1. /\ pc = "legalize" /\ spread = <<>> /\ waiting # <<>> /\ g = Head(waiting)
      /\ g \in reached /\ flag[g] = "CUT" /\ ~LastNew(g)
      /\ UNCHANGED <<inputs, queue, taken, stack, pc>>
      /\ removed' = Append(removed, g) /\ waiting' = fanin[g] \o Tail(waiting)
      /\ numNew' = IF isNew[g] THEN numNew - 1 ELSE numNew
      /\ flag' = Put(flag, g, "BELOW") /\ covered' = Put(covered, g, TRUE)
      /\ active' = active \ {g} /\ spread' = fanout[g]
  BY DEF RemoveFromCut, Checked, PopUp, Put
<1>2. /\ InputsRight /\ CutRight /\ NetRight(Net) /\ FlagsRight(Net, flag) /\ FlagsRight(Net, Base)
      /\ covered \in [Gate -> BOOLEAN] /\ Net.gates = reached /\ reached \subseteq Gate
      /\ queue \in Seq(Gate) /\ waiting \in Seq(Gate) /\ removed \in Seq(Gate)
      /\ Range(queue) \subseteq reached /\ PhaseRight /\ Moved(Net, Base, flag)
      /\ Legalizing(Net, Base, flag, covered, Range(queue), Range(waiting), Range(spread))
      /\ stack # <<>> => /\ IsLegal(Net, Base)
                         /\ Supporting(Net, Base, flag, RemovedNow, First(waiting), Range(spread))
  BY <1>1, LegalizeFinds
<1>3. Tail(waiting) \in Seq(Gate) /\ Range(waiting) = {g} \union Range(Tail(waiting))
  BY <1>1, <1>2, RangeTail
<1>4. /\ fanin[g] \in Seq(Gate) /\ Range(fanin[g]) = Range(Net.fanin[g]) /\ Root \notin Range(fanin[g])
      /\ fanout[g] \in Seq(Gate)
      /\ \A h \in Net.gates : g \in Net.gates => (h \in Range(fanout[g]) <=> g \in Reads(Net, h))
  BY <1>2, NetLists
<1>5. waiting' \in Seq(Gate) /\ Range(waiting') = Range(fanin[g]) \union Range(Tail(waiting))
  <2>1. PICK p \in Seq(Gate), q \in Seq(Gate) : p = fanin[g] /\ q = Tail(waiting)
    BY <1>3, <1>4
  <2>2. p \o q \in Seq(Gate) /\ Range(p \o q) = Range(p) \union Range(q)
    BY RangeConcat
  <2>3. QED
    BY <1>1, <2>1, <2>2
<1>6. Root \notin Range(waiting) /\ g # Root
  BY <1>2, <1>3 DEF Legalizing
<1>7. /\ FlagsRight(Net, flag') /\ flag'[g] = "BELOW" /\ \A h \in Gate : h # g => flag'[h] = flag[h]
  BY <1>1, <1>2, <1>6, FlagsPut DEF Movable
<1>8. covered' \in [Gate -> BOOLEAN]
  BY <1>1, <1>2 DEF Put
<1>9. active' = {h \in Gate : flag'[h] = "CUT"}
  BY <1>1, <1>2, <1>7 DEF CutRight
<1>10. numNew' = Count(Net, flag') /\ numNew' >= 1
  <2>1. numNew >= 1 /\ flag[g] \in OnCut
    BY <1>1, <1>2 DEF PhaseRight, OnCut
  <2>2. QED
    BY <1>1, <1>2, <2>1, CountLeaves
<1>11. \A h \in Net.gates : h \in Range(spread') <=> g \in Reads(Net, h)
  BY <1>1, <1>2, <1>4
<1>12. removed' \in Seq(Gate) /\ Range(removed') = Range(removed) \union {g}
  BY <1>1, <1>2, RangeAppend
<1>13. Legalizing(Net, Base, flag', covered', Range(queue), Range(waiting'), Range(spread'))
  <2>1. Range(spread) = {}
    BY <1>1, RangeEmpty
  <2>2. /\ Range(waiting) \subseteq Range(waiting') \union {g} /\ Root \notin Range(waiting')
        /\ Range(Net.fanin[g]) \subseteq Range(waiting') /\ g \in Range(waiting)
    BY <1>3, <1>4, <1>5, <1>6
  <2>3. Legalizing(Net, Base, flag, covered, Range(queue), Range(waiting), {})
    BY <1>2, <2>1
  <2>4. Legalizing(Net, Base, Put(flag, g, "BELOW"), Put(covered, g, TRUE), Range(queue), Range(waiting'),
                   Range(spread'))
    BY <1>1, <1>2, <1>11, <2>2, <2>3, PopKeeps
  <2>5. QED
    BY <1>1, <2>4
<1>14. stack # <<>> => Supporting(Net, Base, flag', {Top.gate} \union Range(removed'), First(waiting'), Range(spread'))
  <2>1. First(waiting) = {g} /\ {Top.gate} \union Range(removed') = RemovedNow \union {g}
    BY <1>1, <1>12 DEF First, RemovedNow
  <2>2. \A h \in Range(spread') \intersect Net.gates : g \in Reads(Net, h)
    BY <1>11
  <2>3. ASSUME stack # <<>>
        PROVE  Supporting(Net, Base, Put(flag, g, "BELOW"), RemovedNow \union {g}, First(waiting'), Range(spread'))
    <3>1. IsLegal(Net, Base) /\ Supporting(Net, Base, flag, RemovedNow, {g}, Range(spread))
      BY <1>2, <2>1, <2>3
    <3>2. g \in Net.gates
      BY <1>1, <1>2
    <3>3. QED
      BY <1>1, <1>2, <2>2, <3>1, <3>2, SupportPop
  <2>4. QED
    BY <1>1, <2>1, <2>3
<1>15. \A h \in Gate : flag'[h] = "TAKEN" <=> flag[h] = "TAKEN"
  BY <1>1, <1>7
<1>16. spread' \in Seq(Gate)
  BY <1>1, <1>4
<1>17. QED
  BY <1>1, <1>2, <1>5, <1>7, <1>8, <1>9, <1>10, <1>12, <1>13, <1>14, <1>15, <1>16, LegalizeGives

(* A legalization that fails, and one that ends.                           *)
LEMMA CannotRemoveKeeps == ASSUME IInv, NEW g \in Gate, CannotRemove(g) PROVE IInv'
<1>1. /\ pc = "legalize" /\ spread = <<>> /\ waiting # <<>> /\ g = Head(waiting)
      /\ g \in reached /\ flag[g] \in OnCut
      /\ UNCHANGED inputs /\ UNCHANGED cut /\ queue' = queue /\ spread' = spread /\ taken' = taken
      /\ removed' = Append(removed, g) /\ stack' = Result /\ waiting' = <<>>
      /\ pc' = IF stack = <<>> THEN "done" ELSE "return"
  BY DEF CannotRemove, Checked, Stays, Fail, OnCut
<1>2. /\ InputsRight /\ CutRight /\ ListsRight /\ TakenRight /\ StackRight /\ PhaseRight
      /\ NetRight(Net) /\ FlagsRight(Net, flag) /\ Net.gates = reached
      /\ removed \in Seq(Gate) /\ Moved(Net, Base, flag)
      /\ stack # <<>> => /\ IsLegal(Net, Base)
                         /\ Supporting(Net, Base, flag, RemovedNow, First(waiting), Range(spread))
  BY <1>1, LegalizeFinds
<1>3. /\ Net' = Net /\ InputsRight' /\ reached' = reached /\ minCheckSize' = minCheckSize
      /\ lowest' = lowest
      /\ flag' = flag /\ covered' = covered /\ active' = active /\ numNew' = numNew
  BY <1>1, <1>2, NetKept DEF cut
<1>4. CutRight'
  BY <1>2, <1>3 DEF CutRight
<1>5. removed' \in Seq(Gate) /\ Range(removed') = Range(removed) \union {g}
  BY <1>1, <1>2, RangeAppend
<1>6. ListsRight'
  BY <1>1, <1>2, <1>3, <1>5, RangeEmpty DEF ListsRight
<1>7. LegalizeRight' /\ PopDownRight' /\ FanoutsRight'
  BY <1>1 DEF LegalizeRight, PopDownRight, FanoutsRight
<1>8. lowest # {} /\ numNew >= 1
  BY <1>1, <1>2 DEF PhaseRight
<1>9. CASE stack = <<>>
  <2>1. stack' = stack /\ pc' = "done"
    BY <1>1, <1>9 DEF Result
  <2>2. StackRight' /\ TakenRight'
    BY <1>1, <1>2, <1>3, <2>1, StackKept, TakenKept
  <2>3. PhaseRight'
    BY <1>1, <1>3, <1>9, <2>1 DEF PhaseRight
  <2>4. QED
    BY <1>3, <1>4, <1>6, <1>7, <2>2, <2>3 DEF IInv
<1>10. CASE stack # <<>>
  <2>1. Popped(Net, Base, flag, {Top.gate} \union Range(removed'))
    <3>1. First(waiting) = {g} /\ {Top.gate} \union Range(removed') = RemovedNow \union {g}
      BY <1>1, <1>5 DEF First, RemovedNow
    <3>2. /\ IsLegal(Net, Base) /\ Supporting(Net, Base, flag, RemovedNow, {g}, Range(spread))
          /\ FlagsRight(Net, Base) /\ g \in Net.gates
      BY <1>1, <1>2, <1>10, <3>1 DEF IsLegal
    <3>3. Popped(Net, Base, flag, RemovedNow \union {g})
      BY <1>1, <1>2, <3>2, SupportFails
    <3>4. QED
      BY <3>1, <3>3
  <2>2. /\ stack' # <<>> /\ StackRight' /\ TakenRight' /\ Top'.popped /\ After(Net, Top', flag)
    BY <1>1, <1>5, <1>10, <2>1, ResultKeeps
  <2>3. pc' = "return"
    BY <1>1, <1>10
  <2>4. PhaseRight'
    BY <1>1, <1>3, <1>8, <2>2, <2>3 DEF PhaseRight
  <2>5. QED
    BY <1>3, <1>4, <1>6, <1>7, <2>2, <2>4 DEF IInv
<1>11. QED
  BY <1>9, <1>10

(* There is a gate on the cut to legalize from.                            *)
LEMMA BaseHasCut ==
  ASSUME InputsRight, StackRight, lowest # {}
  PROVE  \E g \in Net.gates : Base[g] = "CUT"
<1>1. NetRight(Net) /\ Net.lowest = lowest
  BY DEF InputsRight, Net
<1>2. CASE stack = <<>>
  <2>1. PICK g : g \in lowest
    BY DEF InputsRight
  <2>2. g \in Net.gates /\ g \in Gate /\ g \notin Net.dups
    BY <1>1, <2>1 DEF NetRight
  <2>3. QED
    BY <1>1, <1>2, <2>1, <2>2 DEF Base, LowestFlags
<1>3. CASE stack # <<>>
  <2>1. CallRight(Net, Top) /\ Base = Top.before.flag /\ FlagsRight(Net, Base)
    BY <1>3, BaseIs
  <2>2. Top.gate \in Gate /\ Base[Top.gate] = "CUT"
    BY <2>1 DEF CallRight
  <2>3. Top.gate \in Net.gates
    BY <2>1, <2>2 DEF FlagsRight
  <2>4. QED
    BY <2>2, <2>3
<1>4. QED
  BY <1>2, <1>3

(* The cut is legal: the call goes on to decide on it.                     *)
LEMMA LegalKeeps == ASSUME IInv, Legal PROVE IInv'
<1>1. /\ pc = "legalize" /\ spread = <<>> /\ waiting = <<>> /\ queue = <<>>
      /\ UNCHANGED inputs /\ UNCHANGED cut /\ UNCHANGED <<queue, waiting, spread, taken>>
      /\ removed' = removed /\ stack' = Result /\ pc' = "decide"
  BY DEF Legal
<1>2. /\ InputsRight /\ CutRight /\ ListsRight /\ TakenRight /\ StackRight /\ PhaseRight
      /\ NetRight(Net) /\ FlagsRight(Net, flag) /\ BaseRight(Net, Base) /\ Net.gates = reached
      /\ removed \in Seq(Gate) /\ Moved(Net, Base, flag) /\ reached \subseteq Gate
      /\ Legalizing(Net, Base, flag, covered, Range(queue), Range(waiting), Range(spread))
      /\ stack # <<>> => Supporting(Net, Base, flag, RemovedNow, First(waiting), Range(spread))
  BY <1>1, LegalizeFinds
<1>3. /\ Net' = Net /\ InputsRight' /\ reached' = reached /\ minCheckSize' = minCheckSize
      /\ lowest' = lowest
      /\ flag' = flag /\ covered' = covered /\ active' = active /\ numNew' = numNew
  BY <1>1, <1>2, NetKept DEF cut
<1>4. CutRight'
  BY <1>2, <1>3 DEF CutRight
<1>5. ListsRight'
  BY <1>1, <1>2, <1>3 DEF ListsRight
<1>6. LegalizeRight' /\ PopDownRight' /\ FanoutsRight'
  BY <1>1 DEF LegalizeRight, PopDownRight, FanoutsRight
<1>7. lowest # {} /\ numNew >= 1
  BY <1>1, <1>2 DEF PhaseRight
<1>8. IsLegal(Net, flag)
  <2>1. Range(queue) = {} /\ Range(waiting) = {} /\ Range(spread) = {}
    BY <1>1, RangeEmpty
  <2>2. Legalizing(Net, Base, flag, covered, {}, {}, {})
    BY <1>2, <2>1
  <2>3. QED
    BY <1>2, <2>2, LegalInTheEnd
<1>9. active # {}
  <2>1. \E g \in Net.gates : Base[g] = "CUT"
    BY <1>2, <1>7, BaseHasCut
  <2>2. PICK g \in Net.gates : flag[g] = "CUT"
    BY <1>2, <1>8, <2>1, CutIsThere
  <2>3. QED
    BY <1>2, <2>2 DEF CutRight
<1>10. StackRight' /\ TakenRight' /\ (stack' # <<>> => After(Net, Top', flag))
  <2>1. CASE stack = <<>>
    <3>1. stack' = stack
      BY <1>1, <2>1 DEF Result
    <3>2. QED
      BY <1>1, <1>2, <1>3, <2>1, <3>1, StackKept, TakenKept
  <2>2. CASE stack # <<>>
    <3>1. First(waiting) = {}
      BY <1>1 DEF First
    <3>2. Supporting(Net, Base, flag, RemovedNow, {}, Range(spread))
      BY <1>2, <2>2, <3>1
    <3>3. Popped(Net, Base, flag, RemovedNow)
      BY <1>2, <3>2, SupportEnds
    <3>4. Popped(Net, Base, flag, {Top.gate} \union Range(removed')) /\ removed' \in Seq(Gate)
      BY <1>1, <1>2, <3>3 DEF RemovedNow
    <3>5. QED
      BY <1>1, <2>2, <3>4, ResultKeeps
  <2>3. QED
    BY <2>1, <2>2
<1>11. PhaseRight'
  BY <1>1, <1>3, <1>7, <1>8, <1>9, <1>10 DEF PhaseRight
<1>12. QED
  BY <1>3, <1>4, <1>5, <1>6, <1>10, <1>11 DEF IInv

(* A call that may not take one more gate returns.                         *)
LEMMA TooLongKeeps == ASSUME IInv, TooLong PROVE IInv'
<1>1. /\ pc = "decide" /\ UNCHANGED inputs /\ UNCHANGED cut /\ UNCHANGED <<taken, stack>>
      /\ UNCHANGED <<queue, waiting, spread, removed>>
      /\ pc' = IF stack = <<>> THEN "done" ELSE "return"
  BY DEF TooLong, lists
<1>2. InputsRight /\ CutRight /\ ListsRight /\ TakenRight /\ StackRight /\ PhaseRight
  BY DEF IInv
<1>3. /\ Net' = Net /\ InputsRight' /\ reached' = reached /\ minCheckSize' = minCheckSize
      /\ lowest' = lowest
      /\ flag' = flag /\ covered' = covered /\ active' = active /\ numNew' = numNew
  BY <1>1, <1>2, NetKept DEF cut
<1>4. CutRight'
  BY <1>2, <1>3 DEF CutRight
<1>5. ListsRight'
  BY <1>1, <1>2, <1>3 DEF ListsRight
<1>6. StackRight' /\ Top' = Top /\ TakenRight'
  BY <1>1, <1>2, <1>3, StackKept, TakenKept
<1>7. LegalizeRight' /\ PopDownRight' /\ FanoutsRight'
  BY <1>1 DEF LegalizeRight, PopDownRight, FanoutsRight
<1>8. PhaseRight'
  BY <1>1, <1>2, <1>3, <1>6 DEF PhaseRight
<1>9. QED
  BY <1>3, <1>4, <1>5, <1>6, <1>7, <1>8 DEF IInv

(* The entries of a list with one more.                                    *)
LEMMA AppendIs ==
  ASSUME NEW E, NEW q \in Seq(E), NEW x \in E
  PROVE  /\ Append(q, x) \in Seq(E) /\ Append(q, x) # <<>> /\ Len(q) \in Nat
         /\ Len(Append(q, x)) = Len(q) + 1 /\ Append(q, x)[Len(q) + 1] = x
         /\ \A i \in 1 .. Len(q) : Append(q, x)[i] = q[i]
<1>1. Len(q) \in Nat
  OBVIOUS
<1>3. Append(q, x) \in Seq(E) /\ Len(Append(q, x)) = Len(q) + 1
  OBVIOUS
<1>4. Append(q, x) # <<>>
  BY <1>1, <1>3
<1>5. Append(q, x)[Len(q) + 1] = x /\ \A i \in 1 .. Len(q) : Append(q, x)[i] = q[i]
  BY <1>1
<1>6. QED
  BY <1>1, <1>3, <1>4, <1>5

(* A list without repetitions that gets a new element.                     *)
LEMMA InjectiveMore ==
  ASSUME NEW E, NEW q \in Seq(E), IsInjective(q), NEW x \in E, x \notin Range(q)
  PROVE  IsInjective(Append(q, x))
<1>1. /\ Append(q, x) \in Seq(E) /\ Len(q) \in Nat
      /\ Len(Append(q, x)) = Len(q) + 1 /\ Append(q, x)[Len(q) + 1] = x
      /\ \A i \in 1 .. Len(q) : Append(q, x)[i] = q[i]
  BY AppendIs
<1> DEFINE p == Append(q, x)
           k == Len(q)
<1>2. DOMAIN p = 1 .. (k + 1) /\ DOMAIN q = 1 .. k
  BY <1>1
<1>3. k \in Nat /\ p[k + 1] = x /\ \A i \in 1 .. k : p[i] = q[i] /\ q[i] # x
  BY <1>1, <1>2 DEF Range
<1>4. \A i, j \in 1 .. k : q[i] = q[j] => i = j
  BY <1>2 DEF IsInjective
<1> HIDE DEF p, k
<1>5. \A i, j \in 1 .. (k + 1) : p[i] = p[j] => i = j
  <2>1. SUFFICES ASSUME NEW i \in 1 .. (k + 1), NEW j \in 1 .. (k + 1), p[i] = p[j] PROVE i = j
    OBVIOUS
  <2>2. (i \in 1 .. k \/ i = k + 1) /\ (j \in 1 .. k \/ j = k + 1)
    BY <1>3
  <2>3. QED
    BY <1>3, <1>4, <2>1, <2>2
<1>6. IsInjective(p)
  BY <1>2, <1>5 DEF IsInjective
<1>7. QED
  BY <1>6 DEF p

(* A list without repetitions, without its last entry.                     *)
LEMMA InjectiveLess ==
  ASSUME NEW E, NEW q \in Seq(E), IsInjective(q), q # <<>>
  PROVE  IsInjective(Front(q)) /\ Range(Front(q)) = Range(q) \ {Last(q)}
<1>1. /\ Len(q) \in Nat /\ Len(q) >= 1 /\ Last(q) = q[Len(q)]
      /\ Front(q) \in Seq(E) /\ Len(Front(q)) = Len(q) - 1
      /\ \A i \in 1 .. (Len(q) - 1) : Front(q)[i] = q[i]
  BY FrontIs
<1> DEFINE p == Front(q)
           k == Len(q)
<1>2. DOMAIN p = 1 .. (k - 1) /\ DOMAIN q = 1 .. k
  BY <1>1
<1>3. k \in Nat /\ k >= 1 /\ Last(q) = q[k] /\ \A i \in 1 .. (k - 1) : p[i] = q[i]
  BY <1>1
<1>4. \A i, j \in 1 .. k : q[i] = q[j] => i = j
  BY <1>2 DEF IsInjective
<1> HIDE DEF p, k
<1>5. \A i, j \in 1 .. (k - 1) : p[i] = p[j] => i = j
  BY <1>3, <1>4
<1>6. \A i \in 1 .. k : (i \in 1 .. (k - 1) /\ q[i] # q[k]) \/ i = k
  BY <1>3, <1>4
<1>7. IsInjective(p)
  BY <1>2, <1>5 DEF IsInjective
<1>8. Range(p) = Range(q) \ {Last(q)}
  <2>1. ASSUME NEW x \in Range(p) PROVE x \in Range(q) \ {Last(q)}
    <3>1. PICK i \in 1 .. (k - 1) : x = p[i]
      BY <1>2 DEF Range
    <3>2. i \in 1 .. k /\ i # k /\ x = q[i]
      BY <1>3, <3>1
    <3>3. x # Last(q)
      BY <1>3, <1>6, <3>2
    <3>4. QED
      BY <1>2, <3>2, <3>3 DEF Range
  <2>2. ASSUME NEW x \in Range(q), x # Last(q) PROVE x \in Range(p)
    <3>1. PICK i \in 1 .. k : x = q[i]
      BY <1>2 DEF Range
    <3>2. i \in 1 .. (k - 1)
      BY <1>3, <1>6, <2>2, <3>1
    <3>3. QED
      BY <1>2, <1>3, <3>1, <3>2 DEF Range
  <2>3. QED
    BY <2>1, <2>2
<1>9. QED
  BY <1>7, <1>8 DEF p

(* What is decided on.                                                     *)
LEMMA DecideFinds ==
  ASSUME IInv, pc = "decide"
  PROVE  /\ InputsRight /\ CutRight /\ ListsRight /\ TakenRight /\ StackRight /\ PhaseRight
         /\ NetRight(Net) /\ IsLegal(Net, flag) /\ active # {} /\ active \subseteq Gate
         /\ active \subseteq reached /\ Root \notin active /\ Net.gates = reached
         /\ numNew = Count(Net, flag) /\ numNew >= 1 /\ numNew \in Nat
         /\ Min(active) \in active
         /\ stack # <<>> => After(Net, Top, flag)
<1>1. /\ InputsRight /\ CutRight /\ ListsRight /\ TakenRight /\ StackRight /\ PhaseRight
  BY DEF IInv
<1>2. /\ NetRight(Net) /\ IsLegal(Net, flag) /\ active # {} /\ Net.gates = reached /\ numNew >= 1
      /\ (stack # <<>> => After(Net, Top, flag))
  BY <1>1 DEF PhaseRight, InputsRight, Net
<1>3. active = {g \in Gate : flag[g] = "CUT"} /\ numNew = Count(Net, flag)
  BY <1>1 DEF CutRight
<1>4. active \subseteq reached
  BY <1>2, <1>3 DEF IsLegal, FlagsRight
<1>5. flag[Root] = "ABOVE"
  BY <1>2, <1>3, RootIsAbove
<1>6. numNew \in Nat
  BY <1>2, <1>3, NewsFinite
<1>7. Min(active) \in active
  <2>1. active \in SUBSET Nat /\ active \in SUBSET Gate /\ IsFiniteSet(Gate)
    BY <1>3, GatesAreNat
  <2>2. IsFiniteSet(active)
    BY <2>1, FS_Subset
  <2>3. QED
    BY <1>2, <2>1, <2>2, MinOfNats
<1>8. QED
  BY <1>1, <1>2, <1>3, <1>4, <1>5, <1>6, <1>7

(* A call begins: the lowest gate is taken.                                *)
LEMMA TakeKeeps == ASSUME IInv, Take PROVE IInv'
<1>1. pc = "decide" /\ UNCHANGED inputs /\ covered' = covered /\ numNew' = numNew
      /\ UNCHANGED <<queue, waiting, spread, removed>> /\ Len(taken) < minCheckSize
  BY DEF Take, lists
<1>2. /\ InputsRight /\ CutRight /\ ListsRight /\ TakenRight /\ StackRight /\ PhaseRight
      /\ NetRight(Net) /\ IsLegal(Net, flag) /\ active # {} /\ active \subseteq Gate
      /\ active \subseteq reached /\ Root \notin active /\ Net.gates = reached
      /\ numNew = Count(Net, flag) /\ numNew >= 1 /\ numNew \in Nat
      /\ Min(active) \in active
      /\ stack # <<>> => After(Net, Top, flag)
  BY <1>1, DecideFinds
<1>3. PICK g : g = Min(active)
  OBVIOUS
<1> DEFINE rest == active \ {g}
           c == [gate |-> g, removed |-> <<>>, popped |-> FALSE,
                 before |-> [flag |-> flag, active |-> active, numNew |-> numNew]]
<1>4. /\ active' = rest /\ flag' = Put(flag, g, "TAKEN") /\ taken' = Append(taken, g)
      /\ stack' = Append(stack, c) /\ pc' = IF rest = {} THEN "return" ELSE "decide"
  BY <1>2, <1>3 DEF Take, Put
<1>5. g \in active /\ g \in Gate /\ g \in reached /\ g # Root /\ flag[g] = "CUT"
  BY <1>2, <1>3 DEF CutRight
<1>6. /\ Net' = Net /\ InputsRight' /\ reached' = reached /\ minCheckSize' = minCheckSize
      /\ lowest' = lowest
  BY <1>1, <1>2, NetKept
<1>7. /\ FlagsRight(Net, flag) /\ Split(Net, flag) /\ Closed(Net, flag)
  BY <1>2 DEF IsLegal
<1>8. /\ FlagsRight(Net, flag') /\ flag'[g] = "TAKEN" /\ \A h \in Gate : h # g => flag'[h] = flag[h]
  BY <1>2, <1>4, <1>5, <1>7, FlagsPut DEF Movable
<1>9. CutRight'
  <2>1. active' = {h \in Gate : flag'[h] = "CUT"}
    BY <1>2, <1>4, <1>5, <1>8 DEF CutRight
  <2>2. \A h \in Net.news : flag[h] \in OnCut <=> flag'[h] \in OnCut
    BY <1>2, <1>5, <1>8 DEF NetRight, OnCut
  <2>3. numNew' = Count(Net, flag')
    BY <1>1, <1>2, <2>2, CountSame
  <2>4. QED
    BY <1>1, <1>2, <1>6, <1>8, <2>1, <2>3 DEF CutRight
<1>10. ListsRight'
  BY <1>1, <1>2, <1>6 DEF ListsRight
<1>11. c \in Call /\ ~c.popped /\ c.gate = g /\ c.before.flag = flag /\ c.before.active = active
       /\ c.before.numNew = numNew /\ c.removed = <<>>
  <2>1. flag \in [Gate -> Flags] /\ active \in SUBSET Gate /\ <<>> \in Seq(Gate)
    BY <1>2, <1>7, RangeEmpty DEF FlagsRight
  <2>2. QED
    BY <1>2, <1>5, <2>1 DEF Call, Cut
<1> HIDE DEF c
<1>12. /\ taken \in Seq(Gate) /\ stack \in Seq(Call) /\ TakenBy(stack, taken)
  BY <1>2 DEF TakenRight, StackRight, CallsRight
<1>13. /\ stack' \in Seq(Call) /\ stack' # <<>> /\ Len(stack) \in Nat /\ Len(stack') = Len(stack) + 1
       /\ stack'[Len(stack) + 1] = c /\ \A j \in 1 .. Len(stack) : stack'[j] = stack[j]
  BY <1>4, <1>11, <1>12, AppendIs
<1>14. Top' = c
  BY <1>13 DEF Top
<1>15. TakenRight'
  <2>1. g \notin Range(taken) /\ IsInjective(taken)
    BY <1>2, <1>5 DEF TakenRight
  <2>2. taken' \in Seq(Gate) /\ Range(taken') = Range(taken) \union {g} /\ IsInjective(taken')
        /\ Len(taken') = Len(taken) + 1 /\ Len(taken) \in Nat
    BY <1>4, <1>5, <1>12, <2>1, RangeAppend, InjectiveMore, AppendIs
  <2>3. Len(taken') <= minCheckSize
    BY <1>1, <1>2, <2>2 DEF InputsRight
  <2>4. Range(taken') = {h \in Gate : flag'[h] = "TAKEN"}
    BY <1>2, <1>5, <1>8, <2>2 DEF TakenRight
  <2>5. TakenBy(stack', taken')
    BY <1>4, <1>11, <1>12, TakenMore
  <2>6. QED
    BY <1>6, <2>2, <2>3, <2>4, <2>5 DEF TakenRight
<1>16. StackRight'
  <2>1. CallRight(Net, c)
    BY <1>2, <1>5, <1>11 DEF CallRight, CutRight
  <2>2. /\ \A j \in 1 .. Len(stack) : CallRight(Net, stack[j])
        /\ \A j \in 2 .. Len(stack) : After(Net, stack[j - 1], stack[j].before.flag)
    BY <1>2 DEF StackRight, CallsRight
  <2>3. ASSUME NEW j \in 1 .. (Len(stack) + 1) PROVE CallRight(Net, stack'[j])
    <3>1. j \in 1 .. Len(stack) \/ j = Len(stack) + 1
      BY <1>13
    <3>2. QED
      BY <1>13, <2>1, <2>2, <3>1
  <2>4. ASSUME NEW j \in 2 .. (Len(stack) + 1) PROVE After(Net, stack'[j - 1], stack'[j].before.flag)
    <3>1. CASE j = Len(stack) + 1
      <4>1. j - 1 = Len(stack) /\ Len(stack) \in 1 .. Len(stack) /\ stack # <<>>
        BY <1>13, <3>1
      <4>2. stack'[j - 1] = Top /\ stack'[j].before.flag = flag
        BY <1>11, <1>13, <3>1, <4>1 DEF Top
      <4>3. QED
        BY <1>2, <4>1, <4>2
    <3>2. CASE j # Len(stack) + 1
      <4>1. j \in 2 .. Len(stack) /\ j \in 1 .. Len(stack) /\ j - 1 \in 1 .. Len(stack)
        BY <1>13, <3>2
      <4>2. stack'[j] = stack[j] /\ stack'[j - 1] = stack[j - 1]
        BY <1>13, <4>1
      <4>3. QED
        BY <2>2, <4>1, <4>2
    <3>3. QED
      BY <3>1, <3>2
  <2>5. QED
    BY <1>6, <1>13, <2>3, <2>4 DEF StackRight, CallsRight
<1>17. LegalizeRight' /\ PopDownRight' /\ FanoutsRight'
  BY <1>4 DEF LegalizeRight, PopDownRight, FanoutsRight
<1>18. IsLegal(Net, flag')
  <2>1. /\ \A h \in Gate : flag'[h] = "ABOVE" <=> flag[h] = "ABOVE"
        /\ \A h \in Gate : flag'[h] = "BELOW" <=> flag[h] = "BELOW"
    BY <1>5, <1>8
  <2>2. \A h \in Net.gates : h \in Gate /\ Reads(Net, h) \subseteq Gate
    BY <1>2 DEF NetRight, Reads
  <2>3. Split(Net, flag')
    BY <1>7, <2>1, <2>2 DEF Split
  <2>4. Closed(Net, flag')
    BY <1>7, <2>1, <2>2 DEF Closed
  <2>5. QED
    BY <1>8, <2>3, <2>4 DEF IsLegal
<1>19. After(Net, Top', flag')
  BY <1>4, <1>11, <1>14 DEF After
<1>20. /\ ~Top'.popped /\ lowest # {} /\ waiting = <<>> /\ spread = <<>> /\ queue = <<>>
  BY <1>1, <1>2, <1>11, <1>14 DEF PhaseRight
<1>21. PhaseRight'
  BY <1>1, <1>2, <1>4, <1>6, <1>13, <1>18, <1>19, <1>20 DEF PhaseRight
<1>22. QED
  BY <1>6, <1>9, <1>10, <1>15, <1>16, <1>17, <1>21 DEF IInv

(* What a call finds when a decision returns to it.                        *)
LEMMA ReturnFinds ==
  ASSUME IInv, pc \in {"return", "recover", "fanouts"}
  PROVE  /\ InputsRight /\ CutRight /\ ListsRight /\ TakenRight /\ StackRight /\ PhaseRight
         /\ NetRight(Net) /\ Net.gates = reached /\ reached \subseteq Gate
         /\ FlagsRight(Net, flag) /\ covered \in [Gate -> BOOLEAN]
         /\ queue \in Seq(Gate) /\ waiting \in Seq(Gate) /\ spread \in Seq(Gate)
         /\ stack \in Seq(Call) /\ stack # <<>> /\ Len(stack) \in Nat /\ Len(stack) >= 1
         /\ Last(stack) = Top /\ CallRight(Net, Top) /\ Top \in Call
         /\ IsLegal(Net, Base) /\ Base = Top.before.flag /\ FlagsRight(Net, Base)
         /\ Top.gate \in Gate /\ Base[Top.gate] = "CUT" /\ Top.gate \in reached
         /\ lowest # {} /\ numNew >= 1 /\ numNew \in Nat /\ numNew = Count(Net, flag)
<1>1. /\ InputsRight /\ CutRight /\ ListsRight /\ TakenRight /\ StackRight /\ PhaseRight
  BY DEF IInv
<1>2. stack # <<>> /\ stack \in Seq(Call) /\ lowest # {} /\ numNew >= 1
  BY <1>1 DEF PhaseRight, StackRight, CallsRight
<1>3. /\ NetRight(Net) /\ FlagsRight(Net, Base) /\ Len(stack) \in Nat /\ Len(stack) >= 1 /\ CallRight(Net, Top)
      /\ IsLegal(Net, Base) /\ Base = Top.before.flag
  BY <1>1, <1>2, BaseIs
<1>4. Last(stack) = Top
  BY DEF Last, Top
<1>5. Top \in Call /\ Top.gate \in Gate /\ Base[Top.gate] = "CUT"
  BY <1>3 DEF CallRight
<1>6. Top.gate \in Net.gates
  BY <1>3, <1>5 DEF FlagsRight
<1>7. numNew = Count(Net, flag) /\ numNew \in Nat
  BY <1>1, <1>3, NewsFinite DEF CutRight
<1>8. Net.gates = reached /\ reached \subseteq Gate
  BY <1>3 DEF Net, NetRight
<1>9. FlagsRight(Net, flag) /\ covered \in [Gate -> BOOLEAN]
      /\ queue \in Seq(Gate) /\ waiting \in Seq(Gate) /\ spread \in Seq(Gate)
  BY <1>1 DEF CutRight, ListsRight
<1>10. QED
  BY <1>1, <1>2, <1>3, <1>4, <1>5, <1>6, <1>7, <1>8, <1>9

(* The call pops its gate: the gate is no longer taken.                    *)
LEMMA PoppedKeeps ==
  ASSUME IInv, pc = "return", ~Top.popped, UNCHANGED inputs,
         stack' = [stack EXCEPT ![Len(stack)].popped = TRUE], taken' = Front(taken),
         NEW x \in {"CUT", "BELOW"}, flag' = Put(flag, Top.gate, x)
  PROVE  /\ stack' # <<>> /\ StackRight' /\ TakenRight'
         /\ Top'.popped /\ Top'.gate = Top.gate /\ Top'.before = Top.before /\ Top'.removed = <<>>
         /\ Base' = Base /\ flag = Put(Base, Top.gate, "TAKEN") /\ flag' = Put(Base, Top.gate, x)
<1>1. /\ InputsRight /\ CutRight /\ TakenRight /\ StackRight /\ PhaseRight
      /\ stack \in Seq(Call) /\ stack # <<>> /\ Len(stack) \in Nat /\ Len(stack) >= 1
      /\ CallRight(Net, Top) /\ Top \in Call /\ Base = Top.before.flag /\ FlagsRight(Net, Base)
      /\ FlagsRight(Net, flag) /\ Top.gate \in Gate
  BY ReturnFinds
<1>2. /\ Net' = Net /\ minCheckSize' = minCheckSize
  BY <1>1, NetKept
<1>3. flag = Put(Base, Top.gate, "TAKEN")
  BY <1>1 DEF PhaseRight, After
<1>4. Base \in [Gate -> Flags] /\ flag \in [Gate -> Flags]
  BY <1>1 DEF FlagsRight
<1>5. flag' = Put(Base, Top.gate, x)
  BY <1>1, <1>3, <1>4 DEF Put
<1>6. flag[Top.gate] = "TAKEN" /\ flag'[Top.gate] = x /\ \A h \in Gate : h # Top.gate => flag'[h] = flag[h]
  BY <1>1, <1>3, <1>4 DEF Put
<1> DEFINE k == Len(stack)
           c == [stack[k] EXCEPT !.popped = TRUE]
<1>7. stack[k] = Top
  BY DEF Top
<1>8. c \in Call /\ c.gate = Top.gate /\ c.popped /\ c.before = Top.before /\ c.removed = Top.removed
  BY <1>1, <1>7 DEF Call
<1>9. stack' = [stack EXCEPT ![k] = c]
  OBVIOUS
<1> HIDE DEF c
<1>10. /\ stack' \in Seq(Call) /\ Len(stack') = k /\ stack'[k] = c
       /\ \A j \in 1 .. k : j # k => stack'[j] = stack[j]
  <2>1. k \in Nat /\ k \in 1 .. k /\ stack \in [1 .. k -> Call]
    BY <1>1
  <2> HIDE DEF k
  <2>2. stack' \in [1 .. k -> Call] /\ stack'[k] = c /\ \A j \in 1 .. k : j # k => stack'[j] = stack[j]
    BY <1>8, <1>9, <2>1
  <2>3. stack' \in Seq(Call) /\ Len(stack') = k
    BY <2>1, <2>2
  <2>4. QED
    BY <2>2, <2>3
<1>11. Top' = c /\ stack' # <<>>
  BY <1>1, <1>10 DEF Top
<1>12. Top.removed = <<>> /\ Base' = Base
  BY <1>1, <1>8, <1>11 DEF CallRight, Base
<1>13. StackRight'
  <2>1. CallRight(Net, c)
    BY <1>1, <1>8 DEF CallRight
  <2>2. /\ \A j \in 1 .. k : CallRight(Net, stack[j])
        /\ \A j \in 2 .. k : After(Net, stack[j - 1], stack[j].before.flag)
    BY <1>1 DEF StackRight, CallsRight
  <2>3. \A j \in 1 .. k : CallRight(Net, stack'[j])
    BY <1>10, <2>1, <2>2
  <2>4. ASSUME NEW j \in 2 .. k PROVE After(Net, stack'[j - 1], stack'[j].before.flag)
    <3>1. j - 1 \in 1 .. k /\ j - 1 # k /\ j \in 1 .. k
      BY <1>1
    <3>2. stack'[j - 1] = stack[j - 1] /\ stack'[j].before = stack[j].before
      BY <1>7, <1>8, <1>10, <3>1
    <3>3. QED
      BY <2>2, <3>2
  <2>5. QED
    BY <1>2, <1>10, <2>3, <2>4 DEF StackRight, CallsRight
<1>14. TakenRight'
  <2>1. taken \in Seq(Gate) /\ TakenBy(stack, taken) /\ IsInjective(taken) /\ Len(taken) <= minCheckSize
        /\ Range(taken) = {h \in Gate : flag[h] = "TAKEN"}
    BY <1>1 DEF TakenRight
  <2>2. /\ \A j \in 1 .. (Len(stack) - 1) : stack'[j] = stack[j]
        /\ ~stack[Len(stack)].popped /\ stack'[Len(stack)].popped /\ Len(stack') = Len(stack)
    <3>1. \A j \in 1 .. (k - 1) : j \in 1 .. k /\ j # k
      BY <1>1
    <3>2. QED
      BY <1>7, <1>8, <1>10, <3>1
  <2>3. taken # <<>> /\ Last(taken) = Top.gate /\ TakenBy(stack', Front(taken))
    BY <1>1, <1>7, <1>10, <2>1, <2>2, TakenLess
  <2>4. /\ IsInjective(Front(taken)) /\ Range(Front(taken)) = Range(taken) \ {Top.gate}
        /\ Front(taken) \in Seq(Gate) /\ Len(Front(taken)) = Len(taken) - 1 /\ Len(taken) \in Nat
    BY <2>1, <2>3, InjectiveLess, FrontIs
  <2>5. Range(Front(taken)) = {h \in Gate : flag'[h] = "TAKEN"}
    BY <1>6, <2>1, <2>4
  <2>6. Len(Front(taken)) <= minCheckSize
    BY <1>1, <2>1, <2>4 DEF InputsRight
  <2>7. QED
    BY <1>2, <2>3, <2>4, <2>5, <2>6 DEF TakenRight
<1>15. QED
  BY <1>3, <1>5, <1>8, <1>11, <1>12, <1>13, <1>14

(* A call pops its gate, unless it is the last new one.                    *)
LEMMA PopKeepsIInv == ASSUME IInv, Pop PROVE IInv'
<1>1. /\ pc = "return" /\ ~Last(stack).popped /\ UNCHANGED inputs
      /\ stack' = [stack EXCEPT ![Len(stack)].popped = TRUE] /\ taken' = Front(taken)
      /\ removed' = <<>> /\ queue' = queue /\ waiting' = waiting
  BY DEF Pop
<1>2. /\ InputsRight /\ CutRight /\ ListsRight /\ TakenRight /\ StackRight /\ PhaseRight
      /\ NetRight(Net) /\ Net.gates = reached /\ reached \subseteq Gate
      /\ FlagsRight(Net, flag) /\ covered \in [Gate -> BOOLEAN]
      /\ queue \in Seq(Gate) /\ waiting \in Seq(Gate) /\ spread \in Seq(Gate)
      /\ Last(stack) = Top /\ CallRight(Net, Top) /\ Top \in Call
      /\ IsLegal(Net, Base) /\ Base = Top.before.flag /\ FlagsRight(Net, Base)
      /\ Top.gate \in Gate /\ Base[Top.gate] = "CUT" /\ Top.gate \in reached
      /\ lowest # {} /\ numNew >= 1 /\ numNew \in Nat /\ numNew = Count(Net, flag) /\ stack # <<>>
  BY <1>1, ReturnFinds
<1>3. ~Top.popped /\ queue = <<>> /\ waiting = <<>> /\ spread = <<>>
  BY <1>1, <1>2 DEF PhaseRight
<1>4. PICK g : g = Top.gate
  OBVIOUS
<1>5. /\ Net' = Net /\ InputsRight' /\ reached' = reached /\ minCheckSize' = minCheckSize
      /\ lowest' = lowest
  BY <1>1, <1>2, NetKept
<1>6. flag = Put(Base, g, "TAKEN")
  BY <1>1, <1>2, <1>3, <1>4 DEF PhaseRight, After
<1>7. Base \in [Gate -> Flags] /\ flag \in [Gate -> Flags] /\ flag[g] = "TAKEN" /\ Base[g] = "CUT"
      /\ g \in Gate /\ g \in reached /\ \A h \in Gate : h # g => flag[h] = Base[h]
  BY <1>2, <1>4, <1>6 DEF FlagsRight, Put
<1>8. CASE LastNew(g)
  <2>1. /\ flag' = Put(flag, g, "CUT") /\ active' = active \union {g}
        /\ covered' = covered /\ numNew' = numNew /\ spread' = spread /\ pc' = pc
    BY <1>1, <1>2, <1>4, <1>8 DEF Pop, Put
  <2>2. /\ stack' # <<>> /\ StackRight' /\ TakenRight'
        /\ Top'.popped /\ Top'.gate = g /\ Top'.before = Top.before /\ Top'.removed = <<>>
        /\ Base' = Base /\ flag' = Put(Base, g, "CUT")
    BY <1>1, <1>2, <1>3, <1>4, <2>1, PoppedKeeps
  <2>3. flag' = Base
    BY <1>7, <2>2 DEF Put
  <2>4. CutRight'
    <3>1. active' = {h \in Gate : flag'[h] = "CUT"}
      BY <1>2, <1>7, <2>1, <2>3 DEF CutRight
    <3>2. \A h \in Net.news : flag[h] \in OnCut <=> flag'[h] \in OnCut
      BY <1>2, <1>7, <2>3 DEF NetRight, OnCut
    <3>3. numNew' = Count(Net, flag')
      BY <1>2, <2>1, <3>2, CountSame
    <3>4. QED
      BY <1>2, <1>5, <2>1, <2>3, <3>1, <3>3 DEF CutRight
  <2>5. ListsRight'
    BY <1>1, <1>2, <1>5, <2>1, RangeEmpty DEF ListsRight
  <2>6. After(Net, Top', flag')
    <3>1. OfCall(Top') = {g} /\ Top'.before.flag = Base
      BY <1>2, <2>2, RangeEmpty DEF OfCall
    <3>2. \A h \in Net.gates : Base[h] \in {"ABOVE", "BELOW", "CUT", "TAKEN", "DUP"}
      BY <1>2, FlagOf
    <3>3. Moved(Net, Base, Base)
      BY <3>2 DEF Moved
    <3>4. RemovedRight(Net, Base, Base, {g})
      BY <1>2, <1>7, <3>2 DEF RemovedRight
    <3>5. Popped(Net, Base, Base, {g})
      BY <3>3, <3>4 DEF Popped, Changed
    <3>6. QED
      BY <2>2, <2>3, <3>1, <3>5 DEF After
  <2>7. LegalizeRight' /\ PopDownRight' /\ FanoutsRight'
    BY <1>1, <2>1 DEF LegalizeRight, PopDownRight, FanoutsRight
  <2>8. PhaseRight'
    BY <1>1, <1>2, <1>3, <1>5, <2>1, <2>2, <2>6 DEF PhaseRight
  <2>9. QED
    BY <1>5, <2>2, <2>4, <2>5, <2>7, <2>8 DEF IInv
<1>9. CASE ~LastNew(g)
  <2>1. /\ numNew' = IF isNew[g] THEN numNew - 1 ELSE numNew
        /\ flag' = Put(flag, g, "BELOW") /\ covered' = Put(covered, g, TRUE)
        /\ active' = active \ {g} /\ spread' = fanout[g] /\ pc' = "pop"
    BY <1>1, <1>2, <1>4, <1>9 DEF Pop, PopUp, Put
  <2>2. /\ stack' # <<>> /\ StackRight' /\ TakenRight'
        /\ Top'.popped /\ Top'.gate = g /\ Top'.before = Top.before /\ Top'.removed = <<>>
        /\ Base' = Base /\ flag' = Put(Base, g, "BELOW")
    BY <1>1, <1>2, <1>3, <1>4, <2>1, PoppedKeeps
  <2>3. g # Root
    <3>1. Count(Net, Base) >= 1
      BY <1>2 DEF CallRight
    <3>2. Base[Root] = "ABOVE"
      BY <1>2, <3>1, RootIsAbove
    <3>3. QED
      BY <1>7, <3>2
  <2>4. /\ FlagsRight(Net, flag') /\ flag'[g] = "BELOW" /\ \A h \in Gate : h # g => flag'[h] = flag[h]
    BY <1>2, <1>7, <2>1, <2>3, FlagsPut DEF Movable
  <2>5. covered' \in [Gate -> BOOLEAN]
    BY <1>2, <1>7, <2>1 DEF Put
  <2>6. numNew' = Count(Net, flag') /\ numNew' >= 1
    BY <1>2, <1>7, <1>9, <2>1, CountLeaves DEF OnCut
  <2>7. active' = {h \in Gate : flag'[h] = "CUT"}
    BY <1>2, <1>7, <2>1, <2>4 DEF CutRight
  <2>8. CutRight'
    BY <1>5, <2>4, <2>5, <2>6, <2>7 DEF CutRight
  <2>9. fanout[g] \in Seq(Gate) /\ \A h \in Net.gates : h \in Range(fanout[g]) <=> g \in Reads(Net, h)
    BY <1>2, <1>7, NetLists
  <2>10. ListsRight'
    BY <1>1, <1>2, <1>5, <2>1, <2>9, RangeEmpty DEF ListsRight
  <2>11. LegalizeRight'
    <3>1. g \in Net.gates
      BY <1>2, <1>7
    <3>2. \A F : /\ Legalizing(Net, Base, Put(Base, g, "BELOW"), Put(covered, g, TRUE), {}, {}, Range(fanout[g]))
                 /\ Supporting(Net, Base, Put(Base, g, "BELOW"), {g}, F, Range(fanout[g]))
      BY <1>2, <1>7, <2>9, <3>1, PopBegins
    <3>3. Range(queue') = {} /\ Range(waiting') = {} /\ Range(removed') = {}
      BY <1>1, <1>3, RangeEmpty
    <3>4. RemovedNow' = {g}
      BY <2>2, <3>3 DEF RemovedNow
    <3>5. Legalizing(Net, Base, flag', covered', Range(queue'), Range(waiting'), Range(spread'))
      BY <2>1, <2>2, <3>2, <3>3
    <3>6. Supporting(Net, Base, flag', RemovedNow', First(waiting'), Range(spread'))
      BY <2>1, <2>2, <3>2, <3>4
    <3>7. QED
      BY <1>5, <2>2, <3>5, <3>6 DEF LegalizeRight
  <2>12. PopDownRight' /\ FanoutsRight'
    BY <2>1 DEF PopDownRight, FanoutsRight
  <2>13. PhaseRight'
    BY <1>1, <1>2, <1>3, <1>5, <2>1, <2>2, <2>6 DEF PhaseRight
  <2>14. QED
    BY <1>5, <2>2, <2>8, <2>10, <2>11, <2>12, <2>13 DEF IInv
<1>10. QED
  BY <1>8, <1>9

(* What a step of a recovery has to give.                                  *)
LEMMA RecoverGives ==
  ASSUME IInv, pc \in {"recover", "fanouts"}, UNCHANGED <<inputs, removed, taken, stack>>,
         pc' \in {"recover", "fanouts"}, pc' = "recover" => spread' = <<>>,
         FlagsRight(Net, flag'), covered' \in [Gate -> BOOLEAN],
         active' = {g \in Gate : flag'[g] = "CUT"}, numNew' = Count(Net, flag'), numNew' >= 1,
         \A g \in Gate : flag'[g] = "TAKEN" <=> flag[g] = "TAKEN",
         queue' \in Seq(Gate), waiting' \in Seq(Gate), spread' \in Seq(Gate),
         Range(queue') \subseteq reached,
         pc' = "recover" => PuttingBack(Net, Base, flag', Range(queue'), Range(waiting'), OfCall(Top)),
         pc' = "fanouts" => Recovering(Net, Base, flag', Range(queue'), Range(waiting'), Range(spread'))
  PROVE  IInv'
<1>1. /\ InputsRight /\ CutRight /\ ListsRight /\ TakenRight /\ StackRight /\ PhaseRight
      /\ lowest # {} /\ stack # <<>>
  BY ReturnFinds
<1>2. /\ Net' = Net /\ InputsRight' /\ reached' = reached /\ minCheckSize' = minCheckSize
      /\ lowest' = lowest /\ stack' = stack /\ taken' = taken /\ removed' = removed
  BY <1>1, NetKept
<1>3. StackRight' /\ Base' = Base /\ Top' = Top /\ TakenRight' /\ Top.popped
  BY <1>1, <1>2, StackKept, TakenKept DEF PhaseRight
<1>4. CutRight'
  BY <1>2 DEF CutRight
<1>5. ListsRight'
  BY <1>1, <1>2 DEF ListsRight
<1>6. LegalizeRight'
  BY DEF LegalizeRight
<1>7. PopDownRight' /\ FanoutsRight'
  BY <1>2, <1>3 DEF PopDownRight, FanoutsRight
<1>8. PhaseRight'
  BY <1>1, <1>2, <1>3 DEF PhaseRight
<1>9. QED
  BY <1>2, <1>3, <1>4, <1>5, <1>6, <1>7, <1>8 DEF IInv

(* A call goes on to recover.                                              *)
LEMMA RecoverKeeps == ASSUME IInv, Recover PROVE IInv'
<1>1. /\ pc = "return" /\ Last(stack).popped /\ UNCHANGED inputs /\ UNCHANGED cut
      /\ UNCHANGED <<spread, removed, taken, stack>>
      /\ queue' = <<>> /\ waiting' = <<Last(stack).gate>> \o Last(stack).removed /\ pc' = "recover"
  BY DEF Recover
<1>2. /\ InputsRight /\ CutRight /\ ListsRight /\ TakenRight /\ StackRight /\ PhaseRight
      /\ Last(stack) = Top /\ Top \in Call /\ Base = Top.before.flag /\ stack # <<>>
      /\ Top.gate \in Gate /\ lowest # {} /\ numNew >= 1
  BY <1>1, ReturnFinds
<1>3. /\ Net' = Net /\ InputsRight' /\ reached' = reached /\ minCheckSize' = minCheckSize
      /\ lowest' = lowest
      /\ flag' = flag /\ covered' = covered /\ active' = active /\ numNew' = numNew
  BY <1>1, <1>2, NetKept DEF cut
<1>4. StackRight' /\ Base' = Base /\ Top' = Top /\ TakenRight'
  BY <1>1, <1>2, <1>3, StackKept, TakenKept
<1>5. CutRight'
  BY <1>2, <1>3 DEF CutRight
<1>6. waiting' \in Seq(Gate) /\ Range(waiting') = OfCall(Top)
  <2>1. PICK p \in Seq(Gate), q \in Seq(Gate) : p = <<Top.gate>> /\ q = Top.removed /\ Range(p) = {Top.gate}
    <3>1. <<Top.gate>> \in Seq(Gate) /\ Range(<<Top.gate>>) = {Top.gate}
      BY <1>2 DEF Range
    <3>2. Top.removed \in Seq(Gate)
      BY <1>2 DEF Call
    <3>3. QED
      BY <3>1, <3>2
  <2>2. p \o q \in Seq(Gate) /\ Range(p \o q) = Range(p) \union Range(q)
    BY RangeConcat
  <2>3. QED
    BY <1>1, <1>2, <2>1, <2>2 DEF OfCall
<1>7. ListsRight'
  BY <1>1, <1>2, <1>3, <1>6, RangeEmpty DEF ListsRight
<1>8. LegalizeRight' /\ FanoutsRight'
  BY <1>1 DEF LegalizeRight, FanoutsRight
<1>9. PopDownRight'
  <2>1. Popped(Net, Base, flag, OfCall(Top))
    BY <1>1, <1>2 DEF PhaseRight, After
  <2>2. PuttingBack(Net, Base, flag, {}, OfCall(Top), OfCall(Top))
    BY <2>1, RecoverBegins
  <2>3. Range(queue') = {}
    BY <1>1, RangeEmpty
  <2>4. QED
    BY <1>3, <1>4, <1>6, <2>2, <2>3 DEF PopDownRight
<1>10. PhaseRight'
  BY <1>1, <1>2, <1>3, <1>4 DEF PhaseRight
<1>11. QED
  BY <1>3, <1>4, <1>5, <1>7, <1>8, <1>9, <1>10 DEF IInv

(* What the count is when a gate is put back.                              *)
LEMMA CountComes ==
  ASSUME InputsRight, CutRight, NEW g \in Gate, g \in reached, flag[g] = "BELOW", flag' = Put(flag, g, "CUT"),
         numNew >= 1
  PROVE  LET k == IF isNew[g] THEN numNew + 1 ELSE numNew IN k = Count(Net, flag') /\ k >= 1
<1>1. /\ NetRight(Net) /\ (isNew[g] <=> g \in Net.news) /\ numNew = Count(Net, flag)
      /\ flag \in [Gate -> Flags]
  BY NetLists DEF InputsRight, CutRight, FlagsRight
<1>2. numNew \in Nat /\ Net.news \subseteq Gate
  BY <1>1, NewsFinite DEF NetRight, Net
<1>3. flag'[g] = "CUT" /\ \A h \in Gate : h # g => flag'[h] = flag[h]
  BY <1>1 DEF Put
<1>4. CASE isNew[g]
  <2>1. Count(Net, flag) = Count(Net, flag') - 1
    BY <1>1, <1>2, <1>3, <1>4, CountDown DEF OnCut
  <2>2. Count(Net, flag') \in Nat
    BY <1>1, NewsFinite
  <2>3. numNew + 1 = Count(Net, flag') /\ numNew + 1 >= 1
    BY <1>1, <1>2, <2>1, <2>2
  <2>4. QED
    BY <1>4, <2>3
<1>5. CASE ~isNew[g]
  <2>1. \A h \in Net.news : flag[h] \in OnCut <=> flag'[h] \in OnCut
    BY <1>1, <1>2, <1>3, <1>5
  <2>2. Count(Net, flag') = Count(Net, flag)
    BY <2>1, CountSame
  <2>3. QED
    BY <1>1, <1>5, <2>2
<1>6. QED
  BY <1>4, <1>5

(* What a call removed is put back.                                        *)
LEMMA PopDownKeeps == ASSUME IInv, PopDown PROVE IInv'
<1>1. /\ pc = "recover" /\ waiting # <<>> /\ UNCHANGED <<inputs, spread, removed, taken, stack, pc>>
      /\ queue' = Append(queue, Head(waiting)) /\ waiting' = Tail(waiting)
  BY DEF PopDown
<1>2. /\ InputsRight /\ CutRight /\ PhaseRight /\ NetRight(Net) /\ Net.gates = reached
      /\ reached \subseteq Gate
      /\ FlagsRight(Net, flag) /\ covered \in [Gate -> BOOLEAN]
      /\ queue \in Seq(Gate) /\ waiting \in Seq(Gate) /\ spread \in Seq(Gate)
      /\ FlagsRight(Net, Base) /\ numNew >= 1 /\ numNew = Count(Net, flag)
  BY <1>1, ReturnFinds
<1>3. /\ PuttingBack(Net, Base, flag, Range(queue), Range(waiting), OfCall(Top)) /\ spread = <<>>
      /\ Range(queue) \subseteq reached /\ active = {g \in Gate : flag[g] = "CUT"}
  BY <1>1, <1>2 DEF IInv, PopDownRight, PhaseRight, ListsRight, CutRight
<1>4. PICK g : g = Head(waiting)
  OBVIOUS
<1>5. /\ g \in Gate /\ g \in Range(waiting) /\ Tail(waiting) \in Seq(Gate)
      /\ Range(waiting) = {g} \union Range(Tail(waiting))
  BY <1>1, <1>2, <1>4, RangeTail
<1>6. g \in Net.gates /\ g \in reached
  BY <1>2, <1>3, <1>5 DEF PuttingBack
<1>7. queue' \in Seq(Gate) /\ Range(queue') = Range(queue) \union {g}
  BY <1>1, <1>2, <1>4, <1>5, RangeAppend
<1>8. /\ waiting' \in Seq(Gate) /\ spread' = <<>> /\ spread' \in Seq(Gate) /\ Range(queue') \subseteq reached
      /\ Range(waiting') \subseteq Range(waiting) /\ Range(waiting) \subseteq Range(waiting') \union {g}
  BY <1>1, <1>2, <1>3, <1>5, <1>6, <1>7
<1>9. CASE flag[g] \in OnCut
  <2>1. flag' = flag /\ covered' = covered /\ active' = active /\ numNew' = numNew
    BY <1>4, <1>9 DEF PopDown, OnCut, cut
  <2>2. PuttingBack(Net, Base, flag, Range(queue) \union {g}, Range(waiting'), OfCall(Top))
    BY <1>3, <1>5, <1>8, <1>9, StillThere
  <2>3. QED
    BY <1>1, <1>2, <1>3, <1>7, <1>8, <2>1, <2>2, RecoverGives
<1>10. CASE flag[g] \notin OnCut
  <2>1. /\ flag' = Put(flag, g, "CUT") /\ covered' = Put(covered, g, FALSE)
        /\ active' = active \union {g} /\ numNew' = IF isNew[g] THEN numNew + 1 ELSE numNew
    BY <1>4, <1>10 DEF PopDown, PutBack, OnCut, Put
  <2>2. /\ flag[g] = "BELOW"
        /\ PuttingBack(Net, Base, Put(flag, g, "CUT"), Range(queue) \union {g}, Range(waiting'), OfCall(Top))
    BY <1>2, <1>3, <1>5, <1>8, <1>10, BackAgain
  <2>3. /\ FlagsRight(Net, flag') /\ flag'[g] = "CUT" /\ \A h \in Gate : h # g => flag'[h] = flag[h]
    BY <1>2, <1>6, <2>1, <2>2, FlagsPut DEF Movable
  <2>4. covered' \in [Gate -> BOOLEAN]
    BY <1>2, <1>5, <2>1 DEF Put
  <2>5. numNew' = Count(Net, flag') /\ numNew' >= 1
    BY <1>2, <1>5, <1>6, <2>1, <2>2, CountComes
  <2>6. active' = {h \in Gate : flag'[h] = "CUT"}
    BY <1>3, <1>5, <2>1, <2>3
  <2>7. \A h \in Gate : flag'[h] = "TAKEN" <=> flag[h] = "TAKEN"
    BY <2>2, <2>3
  <2>8. QED
    BY <1>1, <1>7, <1>8, <2>1, <2>2, <2>3, <2>4, <2>5, <2>6, <2>7, RecoverGives
<1>11. QED
  BY <1>9, <1>10

(* All that was removed is on the cut.                                     *)
LEMMA RecoverCutKeeps == ASSUME IInv, RecoverCut PROVE IInv'
<1>1. /\ pc = "recover" /\ waiting = <<>> /\ pc' = "fanouts" /\ UNCHANGED <<inputs, removed, taken, stack>>
      /\ UNCHANGED cut /\ queue' = queue /\ waiting' = waiting /\ spread' = spread
  BY DEF RecoverCut, lists
<1>2. /\ InputsRight /\ CutRight /\ PhaseRight /\ NetRight(Net)
      /\ FlagsRight(Net, flag) /\ covered \in [Gate -> BOOLEAN]
      /\ queue \in Seq(Gate) /\ waiting \in Seq(Gate) /\ spread \in Seq(Gate)
      /\ FlagsRight(Net, Base) /\ numNew >= 1 /\ numNew = Count(Net, flag)
  BY <1>1, ReturnFinds
<1>3. /\ PuttingBack(Net, Base, flag, Range(queue), Range(waiting), OfCall(Top)) /\ spread = <<>>
      /\ Range(queue) \subseteq reached /\ active = {g \in Gate : flag[g] = "CUT"}
  BY <1>1, <1>2 DEF IInv, PopDownRight, PhaseRight, ListsRight, CutRight
<1>4. flag' = flag /\ covered' = covered /\ active' = active /\ numNew' = numNew
  BY <1>1 DEF cut
<1>5. Range(waiting) = {} /\ Range(spread) = {}
  BY <1>1, <1>3, RangeEmpty
<1>6. Recovering(Net, Base, flag, Range(queue), Range(waiting), Range(spread))
  <2>1. PuttingBack(Net, Base, flag, Range(queue), {}, OfCall(Top))
    BY <1>3, <1>5
  <2>2. QED
    BY <1>2, <1>5, <2>1, AllBack
<1>7. QED
  BY <1>1, <1>2, <1>3, <1>4, <1>6, RecoverGives

(* What a step finds that looks for what is above the cut.                 *)
LEMMA FanoutsFind ==
  ASSUME IInv, pc = "fanouts"
  PROVE  /\ InputsRight /\ CutRight /\ PhaseRight /\ NetRight(Net) /\ Net.gates = reached
         /\ reached \subseteq Gate
         /\ FlagsRight(Net, flag) /\ covered \in [Gate -> BOOLEAN]
         /\ queue \in Seq(Gate) /\ waiting \in Seq(Gate) /\ spread \in Seq(Gate)
         /\ IsLegal(Net, Base) /\ FlagsRight(Net, Base) /\ numNew >= 1 /\ numNew = Count(Net, flag)
         /\ Recovering(Net, Base, flag, Range(queue), Range(waiting), Range(spread))
         /\ Range(queue) \subseteq reached /\ active = {g \in Gate : flag[g] = "CUT"}
<1>1. /\ InputsRight /\ CutRight /\ PhaseRight /\ NetRight(Net) /\ Net.gates = reached
      /\ reached \subseteq Gate
      /\ FlagsRight(Net, flag) /\ covered \in [Gate -> BOOLEAN]
      /\ queue \in Seq(Gate) /\ waiting \in Seq(Gate) /\ spread \in Seq(Gate)
      /\ IsLegal(Net, Base) /\ FlagsRight(Net, Base) /\ numNew >= 1 /\ numNew = Count(Net, flag)
  BY ReturnFinds
<1>2. FanoutsRight /\ ListsRight
  BY DEF IInv
<1>3. QED
  BY <1>1, <1>2 DEF FanoutsRight, ListsRight, CutRight

(* The fanouts of the next gate are to visit.                              *)
LEMMA CheckNextFanoutsKeeps == ASSUME IInv, CheckNextFanouts PROVE IInv'
<1>1. /\ pc = "fanouts" /\ spread = <<>> /\ waiting = <<>> /\ queue # <<>>
      /\ UNCHANGED <<inputs, spread, removed, taken, stack, pc>> /\ UNCHANGED cut
      /\ queue' = Tail(queue)
  BY DEF CheckNextFanouts
<1>2. /\ InputsRight /\ NetRight(Net) /\ Net.gates = reached
      /\ FlagsRight(Net, flag) /\ covered \in [Gate -> BOOLEAN]
      /\ queue \in Seq(Gate) /\ spread \in Seq(Gate)
      /\ IsLegal(Net, Base) /\ numNew >= 1 /\ numNew = Count(Net, flag)
      /\ Recovering(Net, Base, flag, Range(queue), Range(waiting), Range(spread))
      /\ Range(queue) \subseteq reached /\ active = {g \in Gate : flag[g] = "CUT"}
  BY <1>1, FanoutsFind
<1>3. flag' = flag /\ covered' = covered /\ active' = active /\ numNew' = numNew
  BY <1>1 DEF cut
<1>4. PICK g : g = Head(queue)
  OBVIOUS
<1>5. /\ g \in Gate /\ g \in Range(queue) /\ Tail(queue) \in Seq(Gate)
      /\ Range(queue) = {g} \union Range(Tail(queue))
  BY <1>1, <1>2, <1>4, RangeTail
<1>6. g \in reached /\ fanout[g] \in Seq(Gate)
      /\ \A h \in Net.gates : g \in Net.gates => (h \in Range(fanout[g]) <=> g \in Reads(Net, h))
  BY <1>2, <1>5, NetLists
<1>7. waiting' = IF flag[g] # "ABOVE" THEN fanout[g] ELSE <<>>
  BY <1>4, <1>6 DEF CheckNextFanouts
<1>8. /\ waiting' \in Seq(Gate) /\ Range(waiting) = {} /\ Range(spread) = {}
      /\ \A h \in Range(waiting') \intersect Net.gates : g \in Reads(Net, h)
      /\ flag[g] # "ABOVE" => \A h \in Net.gates : g \in Reads(Net, h) => h \in Range(waiting')
  BY <1>1, <1>2, <1>6, <1>7, RangeEmpty
<1>9. Recovering(Net, Base, flag, Range(queue'), Range(waiting'), Range(spread))
  <2>1. Recovering(Net, Base, flag, Range(queue), {}, {})
    BY <1>2, <1>8
  <2>2. Range(queue') \subseteq Range(queue) /\ Range(queue) \subseteq Range(queue') \union {g}
    BY <1>1, <1>5
  <2>3. Recovering(Net, Base, flag, Range(queue'), Range(waiting'), {})
    BY <1>2, <1>5, <1>8, <2>1, <2>2, FanoutsNext
  <2>4. QED
    BY <1>8, <2>3
<1>10. queue' \in Seq(Gate) /\ Range(queue') \subseteq reached
  BY <1>1, <1>2, <1>5
<1>11. QED
  BY <1>1, <1>2, <1>3, <1>8, <1>9, <1>10, RecoverGives

(* A fanout of a gate on the cut is above it: a taken one is never met.    *)
LEMMA CheckFanoutKeeps == ASSUME IInv, CheckFanout PROVE IInv'
<1>1. /\ pc = "fanouts" /\ spread = <<>> /\ waiting # <<>>
      /\ UNCHANGED <<inputs, numNew, queue, removed, taken, stack>>
  BY DEF CheckFanout
<1>2. /\ InputsRight /\ NetRight(Net) /\ Net.gates = reached /\ reached \subseteq Gate
      /\ FlagsRight(Net, flag) /\ covered \in [Gate -> BOOLEAN]
      /\ queue \in Seq(Gate) /\ spread \in Seq(Gate) /\ waiting \in Seq(Gate)
      /\ IsLegal(Net, Base) /\ FlagsRight(Net, Base) /\ numNew >= 1 /\ numNew = Count(Net, flag)
      /\ Recovering(Net, Base, flag, Range(queue), Range(waiting), Range(spread))
      /\ Range(queue) \subseteq reached /\ active = {g \in Gate : flag[g] = "CUT"}
  BY <1>1, FanoutsFind
<1>3. PICK g : g = Head(waiting)
  OBVIOUS
<1>4. /\ g \in Gate /\ g \in Range(waiting) /\ Tail(waiting) \in Seq(Gate)
      /\ Range(waiting) = {g} \union Range(Tail(waiting))
  BY <1>1, <1>2, <1>3, RangeTail
<1>5. Range(spread) = {}
  BY <1>1, RangeEmpty
<1>6. CASE g \notin reached \/ flag[g] = "ABOVE"
  <2>1. waiting' = Tail(waiting) /\ flag' = flag /\ covered' = covered /\ active' = active /\ spread' = spread
        /\ pc' = pc
    BY <1>3, <1>6 DEF CheckFanout
  <2>2. /\ Range(waiting') \subseteq Range(waiting) /\ Range(waiting) \subseteq Range(waiting') \union {g}
        /\ (g \in Net.gates => flag[g] = "ABOVE")
    BY <1>2, <1>4, <1>6, <2>1
  <2>3. Recovering(Net, Base, flag, Range(queue), Range(waiting'), Range(spread))
    BY <1>2, <2>2, FanoutAbove
  <2>4. QED
    BY <1>1, <1>2, <1>4, <2>1, <2>3, RecoverGives
<1>7. CASE g \in reached /\ flag[g] # "ABOVE"
  <2>1. Base[g] = "ABOVE" /\ flag[g] \in {"CUT", "BELOW"} /\ g \in Net.gates
    BY <1>2, <1>4, <1>7, FanoutFree
  <2>2. /\ flag' = Put(flag, g, "ABOVE") /\ covered' = Put(covered, g, flag[g] = "CUT")
        /\ active' = active \ {g} /\ spread' = IF flag[g] = "CUT" THEN fanin[g] ELSE <<>>
        /\ waiting' = fanout[g] \o Tail(waiting) /\ pc' = pc
    BY <1>3, <1>7, <2>1 DEF CheckFanout, Put
  <2>3. /\ fanin[g] \in Seq(Gate) /\ fanout[g] \in Seq(Gate)
        /\ \A h \in Net.gates : h \in Range(fanout[g]) <=> g \in Reads(Net, h)
        /\ Range(fanin[g]) \intersect Net.gates = Reads(Net, g)
    BY <1>2, <1>4, <2>1, NetLists
  <2>4. waiting' \in Seq(Gate) /\ Range(waiting') = Range(fanout[g]) \union Range(Tail(waiting))
    <3>1. PICK p \in Seq(Gate), q \in Seq(Gate) : p = fanout[g] /\ q = Tail(waiting)
      BY <1>4, <2>3
    <3>2. p \o q \in Seq(Gate) /\ Range(p \o q) = Range(p) \union Range(q)
      BY RangeConcat
    <3>3. QED
      BY <2>2, <3>1, <3>2
  <2>5. spread' \in Seq(Gate) /\ Range(spread') \intersect Net.gates \subseteq Reads(Net, g)
    BY <2>2, <2>3, RangeEmpty
  <2>6. g \in Inner(Net) /\ g \notin Net.news
    BY <1>2, <2>1, AboveIsInner
  <2>7. /\ FlagsRight(Net, flag') /\ flag'[g] = "ABOVE" /\ \A h \in Gate : h # g => flag'[h] = flag[h]
    <3>1. g \notin Net.lowest /\ flag[g] # "DUP"
      BY <2>1, <2>6 DEF Inner
    <3>2. QED
      BY <1>2, <2>1, <2>2, <3>1, FlagsPut DEF Movable
  <2>8. covered' \in [Gate -> BOOLEAN]
    BY <1>2, <1>4, <2>2 DEF Put
  <2>9. numNew' = Count(Net, flag') /\ numNew' >= 1
    <3>1. \A h \in Net.news : flag[h] \in OnCut <=> flag'[h] \in OnCut
      BY <1>2, <2>6, <2>7, NewsFinite
    <3>2. Count(Net, flag') = Count(Net, flag)
      BY <3>1, CountSame
    <3>3. QED
      BY <1>1, <1>2, <3>2
  <2>10. active' = {h \in Gate : flag'[h] = "CUT"}
    BY <1>2, <1>4, <2>2, <2>7
  <2>11. \A h \in Gate : flag'[h] = "TAKEN" <=> flag[h] = "TAKEN"
    BY <2>1, <2>7
  <2>12. Recovering(Net, Base, flag', Range(queue), Range(waiting'), Range(spread'))
    <3>1. Recovering(Net, Base, flag, Range(queue), Range(waiting), {})
      BY <1>2, <1>5
    <3>2. /\ Range(waiting) \subseteq Range(waiting') \union {g}
          /\ \A h \in Range(waiting') \intersect Net.gates : h \in Range(waiting) \/ g \in Reads(Net, h)
          /\ \A h \in Net.gates : g \in Reads(Net, h) => h \in Range(waiting')
      BY <1>4, <2>3, <2>4
    <3>3. Recovering(Net, Base, Put(flag, g, "ABOVE"), Range(queue), Range(waiting'), Range(spread'))
      BY <1>2, <1>4, <2>1, <2>5, <3>1, <3>2, FanoutKeeps
    <3>4. QED
      BY <2>2, <3>3
  <2>13. QED
    BY <1>1, <1>2, <2>2, <2>4, <2>5, <2>7, <2>8, <2>9, <2>10, <2>11, <2>12, RecoverGives
<1>8. QED
  BY <1>6, <1>7

(* A fanin of a gate that left the cut comes onto it, or is passed.        *)
LEMMA CoverFaninKeeps == ASSUME IInv, CoverFanin PROVE IInv'
<1>1. /\ pc = "fanouts" /\ spread # <<>>
      /\ UNCHANGED <<inputs, waiting, removed, taken, stack, pc>>
  BY DEF CoverFanin
<1>2. /\ InputsRight /\ CutRight /\ NetRight(Net) /\ Net.gates = reached /\ reached \subseteq Gate
      /\ FlagsRight(Net, flag) /\ covered \in [Gate -> BOOLEAN]
      /\ queue \in Seq(Gate) /\ spread \in Seq(Gate) /\ waiting \in Seq(Gate)
      /\ IsLegal(Net, Base) /\ numNew >= 1 /\ numNew = Count(Net, flag)
      /\ Recovering(Net, Base, flag, Range(queue), Range(waiting), Range(spread))
      /\ Range(queue) \subseteq reached /\ active = {g \in Gate : flag[g] = "CUT"}
  BY <1>1, FanoutsFind
<1>3. PICK g : g = Head(spread)
  OBVIOUS
<1>4. /\ g \in Gate /\ g \in Range(spread) /\ Tail(spread) \in Seq(Gate)
      /\ Range(spread) = {g} \union Range(Tail(spread))
  BY <1>1, <1>2, <1>3, RangeTail
<1>5. CASE g \in reached /\ flag[g] = "ABOVE" /\ ~covered[g]
  <2>1. /\ covered' = Put(covered, g, TRUE) /\ spread' = Tail(spread) \o fanin[g]
        /\ flag' = flag /\ active' = active /\ numNew' = numNew /\ queue' = queue
    BY <1>3, <1>5 DEF CoverFanin, Put
  <2>2. /\ fanin[g] \in Seq(Gate) /\ Range(fanin[g]) \intersect Net.gates = Reads(Net, g)
    BY <1>2, <1>4, NetLists
  <2>3. spread' \in Seq(Gate) /\ Range(spread') = Range(Tail(spread)) \union Range(fanin[g])
    <3>1. PICK p \in Seq(Gate), q \in Seq(Gate) : p = Tail(spread) /\ q = fanin[g]
      BY <1>4, <2>2
    <3>2. p \o q \in Seq(Gate) /\ Range(p \o q) = Range(p) \union Range(q)
      BY RangeConcat
    <3>3. QED
      BY <2>1, <3>1, <3>2
  <2>4. covered' \in [Gate -> BOOLEAN]
    BY <1>2, <1>4, <2>1 DEF Put
  <2>5. Recovering(Net, Base, flag, Range(queue), Range(waiting), Range(spread'))
    <3>1. \A h \in Range(spread') \intersect Net.gates : h \in Range(spread) \/ h \in Reads(Net, g)
      BY <1>4, <2>2, <2>3
    <3>2. QED
      BY <1>2, <1>5, <3>1, FaninAbove
  <2>6. QED
    BY <1>1, <1>2, <2>1, <2>3, <2>4, <2>5, RecoverGives
<1>6. CASE ~(g \in reached /\ flag[g] = "ABOVE" /\ ~covered[g]) /\ g \in reached /\ flag[g] \in {"EMPTY", "BELOW"}
  <2>1. /\ flag' = Put(flag, g, "CUT") /\ covered' = Put(covered, g, FALSE)
        /\ active' = active \union {g} /\ numNew' = IF isNew[g] THEN numNew + 1 ELSE numNew
        /\ spread' = Tail(spread) /\ queue' = Append(queue, g)
    BY <1>3, <1>6 DEF CoverFanin, PutBack, Put
  <2>2. flag[g] = "BELOW" /\ g \in Net.gates
    BY <1>2, <1>4, <1>6 DEF FlagsRight
  <2>3. Recovering(Net, Base, Put(flag, g, "CUT"), Range(queue) \union {g}, Range(waiting), Range(Tail(spread)))
    <3>1. Range(Tail(spread)) \subseteq Range(spread)
      BY <1>4
    <3>2. QED
      BY <1>2, <1>4, <2>2, <3>1, FaninBelow
  <2>4. /\ FlagsRight(Net, flag') /\ flag'[g] = "CUT" /\ \A h \in Gate : h # g => flag'[h] = flag[h]
    BY <1>2, <2>1, <2>2, FlagsPut DEF Movable
  <2>5. covered' \in [Gate -> BOOLEAN]
    BY <1>2, <1>4, <2>1 DEF Put
  <2>6. numNew' = Count(Net, flag') /\ numNew' >= 1
    BY <1>2, <1>4, <1>6, <2>1, <2>2, CountComes
  <2>7. active' = {h \in Gate : flag'[h] = "CUT"}
    BY <1>2, <1>4, <2>1, <2>4
  <2>8. \A h \in Gate : flag'[h] = "TAKEN" <=> flag[h] = "TAKEN"
    BY <2>2, <2>4
  <2>9. queue' \in Seq(Gate) /\ Range(queue') = Range(queue) \union {g}
    BY <1>2, <1>4, <2>1, RangeAppend
  <2>10. Range(queue') \subseteq reached
    BY <1>2, <1>6, <2>9
  <2>11. Recovering(Net, Base, flag', Range(queue'), Range(waiting), Range(spread'))
    BY <2>1, <2>3, <2>9
  <2>12. QED
    BY <1>1, <1>2, <1>4, <2>1, <2>4, <2>5, <2>6, <2>7, <2>8, <2>9, <2>10, <2>11, RecoverGives
<1>7. CASE ~(g \in reached /\ flag[g] = "ABOVE" /\ ~covered[g]) /\ ~(g \in reached /\ flag[g] \in {"EMPTY", "BELOW"})
  <2>1. /\ flag' = flag /\ covered' = covered /\ active' = active /\ numNew' = numNew
        /\ spread' = Tail(spread) /\ queue' = queue
    BY <1>3, <1>7 DEF CoverFanin, cut
  <2>2. Recovering(Net, Base, flag, Range(queue), Range(waiting), Range(spread'))
    <3>1. Range(Tail(spread)) \subseteq Range(spread)
      BY <1>4
    <3>2. Recovering(Net, Base, flag, Range(queue), Range(waiting), Range(Tail(spread)))
      BY <1>2, <3>1, FaninLess
    <3>3. QED
      BY <2>1, <3>2
  <2>3. QED
    BY <1>1, <1>2, <1>4, <2>1, <2>2, RecoverGives
<1>8. QED
  BY <1>5, <1>6, <1>7

(* The cut that a call leaves is the one that it found.                    *)
LEMMA CallLeaves ==
  ASSUME IInv, Recovered
  PROVE  /\ flag = Top.before.flag /\ active = Top.before.active /\ numNew = Top.before.numNew
         /\ Last(stack) = Top
<1>1. /\ pc = "fanouts" /\ spread = <<>> /\ waiting = <<>> /\ queue = <<>>
  BY DEF Recovered
<1>2. /\ NetRight(Net) /\ FlagsRight(Net, flag) /\ IsLegal(Net, Base)
      /\ Recovering(Net, Base, flag, Range(queue), Range(waiting), Range(spread))
      /\ numNew = Count(Net, flag) /\ active = {g \in Gate : flag[g] = "CUT"}
  BY <1>1, FanoutsFind
<1>3. Last(stack) = Top /\ CallRight(Net, Top) /\ Base = Top.before.flag
  BY <1>1, ReturnFinds
<1>4. Range(queue) = {} /\ Range(waiting) = {} /\ Range(spread) = {}
  BY <1>1, RangeEmpty
<1>5. Recovering(Net, Base, flag, {}, {}, {})
  BY <1>2, <1>4
<1>6. flag = Base
  BY <1>2, <1>5, BackToBase
<1>7. QED
  BY <1>2, <1>3, <1>6 DEF CallRight

(* A call returns, and its caller finds the cut as it left it: the number  *)
(* of gates on it is as asserted.                                          *)
LEMMA RecoveredKeeps == ASSUME IInv, Recovered PROVE IInv'
<1>1. /\ pc = "fanouts" /\ spread = <<>> /\ waiting = <<>> /\ queue = <<>>
      /\ UNCHANGED inputs /\ UNCHANGED cut /\ UNCHANGED <<queue, waiting, spread, removed>> /\ taken' = taken
      /\ stack' = Front(stack)
  BY DEF Recovered, lists
<1>2. /\ InputsRight /\ CutRight /\ ListsRight /\ TakenRight /\ StackRight /\ PhaseRight
      /\ stack \in Seq(Call) /\ stack # <<>> /\ Len(stack) \in Nat /\ Len(stack) >= 1
      /\ lowest # {} /\ numNew >= 1
  BY <1>1, ReturnFinds
<1>3. flag = Top.before.flag /\ active = Top.before.active /\ Last(stack) = Top
  BY CallLeaves
<1>4. pc' = IF Len(stack) = 1 THEN "done" ELSE "return"
  BY <1>3 DEF Recovered
<1>5. /\ Net' = Net /\ InputsRight' /\ reached' = reached /\ minCheckSize' = minCheckSize
      /\ lowest' = lowest
      /\ flag' = flag /\ covered' = covered /\ active' = active /\ numNew' = numNew
  BY <1>1, <1>2, NetKept DEF cut
<1>6. CutRight'
  BY <1>2, <1>5 DEF CutRight
<1>7. ListsRight'
  BY <1>1, <1>2, <1>5 DEF ListsRight
<1>8. /\ stack' \in Seq(Call) /\ Len(stack') = Len(stack) - 1
      /\ \A j \in 1 .. (Len(stack) - 1) : stack'[j] = stack[j]
  BY <1>1, <1>2, FrontIs
<1>9. /\ \A j \in 1 .. Len(stack) : CallRight(Net, stack[j])
      /\ \A j \in 2 .. Len(stack) : After(Net, stack[j - 1], stack[j].before.flag)
  BY <1>2 DEF StackRight, CallsRight
<1>10. StackRight'
  <2>1. \A j \in 1 .. (Len(stack) - 1) : j \in 1 .. Len(stack)
    BY <1>2
  <2>2. \A j \in 2 .. (Len(stack) - 1) : /\ j \in 2 .. Len(stack) /\ j \in 1 .. (Len(stack) - 1)
                                         /\ j - 1 \in 1 .. (Len(stack) - 1)
    BY <1>2
  <2>3. \A j \in 1 .. Len(stack') : CallRight(Net, stack'[j])
    BY <1>8, <1>9, <2>1
  <2>4. \A j \in 2 .. Len(stack') : After(Net, stack'[j - 1], stack'[j].before.flag)
    BY <1>8, <1>9, <2>2
  <2>5. QED
    BY <1>5, <1>8, <2>3, <2>4 DEF StackRight, CallsRight
<1>11. TakenRight'
  <2>1. stack[Len(stack)].popped
    BY <1>1, <1>2 DEF PhaseRight, Top
  <2>2. TakenBy(stack', taken)
    BY <1>1, <1>2, <2>1, TakenReturns DEF TakenRight
  <2>3. QED
    BY <1>1, <1>2, <1>5, <2>2 DEF TakenRight
<1>12. LegalizeRight' /\ PopDownRight' /\ FanoutsRight'
  BY <1>4 DEF LegalizeRight, PopDownRight, FanoutsRight
<1>13. PhaseRight'
  <2>1. CASE Len(stack) = 1
    <3>1. stack' = <<>> /\ pc' = "done"
      BY <1>4, <1>8, <2>1
    <3>2. QED
      BY <1>1, <1>5, <3>1 DEF PhaseRight
  <2>2. CASE Len(stack) # 1
    <3>1. Len(stack') \in Nat /\ Len(stack') >= 1 /\ stack' # <<>> /\ pc' = "return"
      BY <1>2, <1>4, <1>8, <2>2
    <3>2. After(Net, Top', flag')
      <4>1. Len(stack) \in 2 .. Len(stack) /\ Len(stack) - 1 \in 1 .. (Len(stack) - 1)
        <5>1. \A k \in Nat : k >= 1 /\ k # 1 => k \in 2 .. k /\ k - 1 \in 1 .. (k - 1)
          OBVIOUS
        <5>2. QED
          BY <1>2, <2>2, <5>1
      <4>2. Top' = stack[Len(stack) - 1]
        BY <1>8, <4>1 DEF Top
      <4>3. flag' = stack[Len(stack)].before.flag
        BY <1>3, <1>5 DEF Top
      <4>4. QED
        BY <1>9, <4>1, <4>2, <4>3
    <3>3. QED
      BY <1>1, <1>2, <1>5, <3>1, <3>2 DEF PhaseRight
  <2>3. QED
    BY <2>1, <2>2
<1>14. QED
  BY <1>5, <1>6, <1>7, <1>10, <1>11, <1>12, <1>13 DEF IInv

(* A step that changes nothing.                                            *)
LEMMA StutterKeeps == ASSUME IInv, UNCHANGED vars PROVE IInv'
<1>1. /\ UNCHANGED inputs /\ UNCHANGED cut /\ UNCHANGED lists /\ taken' = taken /\ stack' = stack /\ pc' = pc
  BY DEF vars
<1>2. /\ InputsRight /\ CutRight /\ ListsRight /\ TakenRight /\ StackRight
      /\ LegalizeRight /\ PopDownRight /\ FanoutsRight /\ PhaseRight
  BY DEF IInv
<1>3. /\ Net' = Net /\ InputsRight' /\ reached' = reached /\ minCheckSize' = minCheckSize
      /\ lowest' = lowest
      /\ flag' = flag /\ covered' = covered /\ active' = active /\ numNew' = numNew
      /\ queue' = queue /\ waiting' = waiting /\ spread' = spread /\ removed' = removed
  BY <1>1, <1>2, NetKept DEF cut, lists
<1>4. StackRight' /\ Base' = Base /\ Top' = Top /\ TakenRight' /\ RemovedNow' = RemovedNow
  BY <1>1, <1>2, <1>3, StackKept, TakenKept
<1>5. CutRight' /\ ListsRight'
  BY <1>2, <1>3 DEF CutRight, ListsRight
<1>6. LegalizeRight' /\ PopDownRight' /\ FanoutsRight'
  BY <1>1, <1>2, <1>3, <1>4 DEF LegalizeRight, PopDownRight, FanoutsRight
<1>7. PhaseRight'
  BY <1>1, <1>2, <1>3, <1>4 DEF PhaseRight
<1>8. QED
  BY <1>3, <1>4, <1>5, <1>6, <1>7 DEF IInv

(* Each step keeps the inductive invariant.                                *)
LEMMA StepKeepsIInv == ASSUME IInv, [Next]_vars PROVE IInv'
<1>1. CASE EnumerateCuts
  BY <1>1, EnumerateCutsKeeps
<1>2. CASE CoverFanout
  BY <1>2, CoverFanoutKeeps
<1>3. CASE LegalizeCut
  BY <1>3, LegalizeCutKeeps
<1>4. CASE CheckNext
  BY <1>4, CheckNextKeeps
<1>5. CASE CheckFanin
  <2>1. PICK g \in Gate : IsBelow(g) \/ MoveBelow(g) \/ RemoveFromCut(g) \/ CannotRemove(g)
    BY <1>5 DEF CheckFanin
  <2>2. QED
    BY <2>1, IsBelowKeeps, MoveBelowKeeps, RemoveFromCutKeeps, CannotRemoveKeeps
<1>6. CASE Legal
  BY <1>6, LegalKeeps
<1>7. CASE TooLong
  BY <1>7, TooLongKeeps
<1>8. CASE Take
  BY <1>8, TakeKeeps
<1>9. CASE Pop
  BY <1>9, PopKeepsIInv
<1>10. CASE Recover
  BY <1>10, RecoverKeeps
<1>11. CASE PopDown
  BY <1>11, PopDownKeeps
<1>12. CASE RecoverCut
  BY <1>12, RecoverCutKeeps
<1>13. CASE CheckNextFanouts
  BY <1>13, CheckNextFanoutsKeeps
<1>14. CASE CheckFanout
  BY <1>14, CheckFanoutKeeps
<1>15. CASE CoverFanin
  BY <1>15, CoverFaninKeeps
<1>16. CASE Recovered
  BY <1>16, RecoveredKeeps
<1>17. CASE UNCHANGED vars
  BY <1>17, StutterKeeps
<1>18. QED
  BY <1>1, <1>2, <1>3, <1>4, <1>5, <1>6, <1>7, <1>8, <1>9, <1>10, <1>11, <1>12, <1>13, <1>14, <1>15, <1>16,
     <1>17 DEF Next

-----------------------------------------------------------------------------
(* The marks of the lowest cut.                                            *)

(* The netlist of a walk: levels, and what stops the walk.                 *)
LevelsRight(gates, n) ==
  /\ IsFiniteSet(gates) /\ n.fanin \in [gates -> Seq(gates)]
  /\ n.level \in [gates -> Nat] /\ n.low \in Nat
  /\ \A g \in gates : \A h \in Range(n.fanin[g]) : n.level[h] < n.level[g]

(* The marks of the gates that were reached; a new gate stops the walk.    *)
FlagIn(g, seen, n) ==
  IF g \notin seen THEN "EMPTY" ELSE IF g \in n.dups THEN "DUP"
  ELSE IF OnLowest(g, n) THEN "CUT" ELSE "ABOVE"
MarksKept(m, gates, n) ==
  /\ m.reached \subseteq gates /\ m.isNew \in [gates -> BOOLEAN] /\ m.flag \in [gates -> Flags]
  /\ \A g \in gates : m.flag[g] = FlagIn(g, m.reached, n)
  /\ m.active = {g \in m.reached : OnLowest(g, n)}
  /\ m.dups \in Seq(gates) /\ Range(m.dups) = m.reached \intersect n.dups
  /\ \A g \in gates : m.isNew[g] => g \in m.reached /\ Stops(g, n)
  /\ m.numNew = Cardinality({g \in gates : m.isNew[g]})

(* What waits: the root, and what the gates read that were reached.        *)
Entry(gates) == [gate : gates, new : BOOLEAN]
Waits(q) == {e.gate : e \in Range(q)}
QueueRight(q, gates, n) == q \in Seq(Entry(gates)) /\ \A e \in Range(q) : e.new => Stops(e.gate, n)
WalkComes(seen, q, root, n) ==
  /\ root \in seen \union Waits(q)
  /\ \A g \in seen : ~Stops(g, n) => Range(n.fanin[g]) \subseteq seen \union Waits(q)

(* How many visits are left at most.                                       *)
Unread(seen, n) == {p \in Pins(n.fanin) : p[1] \notin seen}
StepsLeft(seen, q, n) == Len(q) + Cardinality(Unread(seen, n))

(* A gate that is walked.                                                  *)
LEMMA MarkGateKeeps ==
  ASSUME NEW gates, NEW n, LevelsRight(gates, n), NEW m, MarksKept(m, gates, n),
         NEW g \in gates, g \notin m.reached, NEW new \in BOOLEAN, new => Stops(g, n)
  PROVE  MarksKept(MarkGate(m, g, new, n), gates, n)
<1> DEFINE p == MarkGate(m, g, new, n)
<1>1. /\ p.reached = m.reached \union {g} /\ p.isNew = [m.isNew EXCEPT ![g] = new]
      /\ p.active = IF OnLowest(g, n) THEN m.active \union {g} ELSE m.active
      /\ p.dups = IF g \in n.dups THEN Append(m.dups, g) ELSE m.dups
      /\ p.numNew = IF new THEN m.numNew + 1 ELSE m.numNew
  BY DEF MarkGate
<1>2. p.flag = [m.flag EXCEPT ![g] = FlagIn(g, {g}, n)]
  <2>1. p.flag = [m.flag EXCEPT ![g] = CASE g \in n.dups -> "DUP"
                                         [] OnLowest(g, n) -> "CUT"
                                         [] ~Stops(g, n) -> "ABOVE"]
    BY DEF MarkGate
  <2>2. (CASE g \in n.dups -> "DUP" [] OnLowest(g, n) -> "CUT" [] ~Stops(g, n) -> "ABOVE")
        = FlagIn(g, {g}, n)
    <3>1. CASE g \in n.dups
      <4>1. ~OnLowest(g, n) /\ Stops(g, n)
        BY <3>1 DEF OnLowest, Stops
      <4>2. QED
        BY <3>1, <4>1 DEF FlagIn
    <3>2. CASE OnLowest(g, n)
      <4>1. g \notin n.dups /\ Stops(g, n)
        BY <3>2 DEF OnLowest, Stops
      <4>2. QED
        BY <3>2, <4>1 DEF FlagIn
    <3>3. CASE g \notin n.dups /\ ~OnLowest(g, n)
      <4>1. ~Stops(g, n)
        BY <3>3 DEF Stops
      <4>2. QED
        BY <3>3, <4>1 DEF FlagIn
    <3>4. QED
      BY <3>1, <3>2, <3>3
  <2>3. QED
    BY <2>1, <2>2
<1> HIDE DEF p
<1>3. /\ m.reached \subseteq gates /\ m.isNew \in [gates -> BOOLEAN] /\ m.flag \in [gates -> Flags]
      /\ \A h \in gates : m.flag[h] = FlagIn(h, m.reached, n)
      /\ m.active = {h \in m.reached : OnLowest(h, n)}
      /\ m.dups \in Seq(gates) /\ Range(m.dups) = m.reached \intersect n.dups
      /\ \A h \in gates : m.isNew[h] => h \in m.reached /\ Stops(h, n)
      /\ m.numNew = Cardinality({h \in gates : m.isNew[h]})
  BY DEF MarksKept
<1>4. /\ p.reached \subseteq gates /\ p.isNew \in [gates -> BOOLEAN] /\ p.isNew[g] = new
      /\ \A h \in gates : h # g => p.isNew[h] = m.isNew[h]
  BY <1>1, <1>3
<1>5. p.flag \in [gates -> Flags]
  <2>1. FlagIn(g, {g}, n) \in Flags
    BY DEF FlagIn, Flags
  <2>2. QED
    BY <1>2, <1>3, <2>1
<1>6. \A h \in gates : p.flag[h] = FlagIn(h, p.reached, n)
  <2>1. SUFFICES ASSUME NEW h \in gates PROVE p.flag[h] = FlagIn(h, p.reached, n)
    OBVIOUS
  <2>2. CASE h = g
    BY <1>1, <1>2, <1>3, <2>2 DEF FlagIn
  <2>3. CASE h # g
    <3>1. p.flag[h] = FlagIn(h, m.reached, n)
      BY <1>2, <1>3, <2>3
    <3>2. QED
      BY <1>1, <2>3, <3>1 DEF FlagIn
  <2>4. QED
    BY <2>2, <2>3
<1>7. p.active = {h \in p.reached : OnLowest(h, n)}
  BY <1>1, <1>3
<1>8. p.dups \in Seq(gates) /\ Range(p.dups) = p.reached \intersect n.dups
  <2>1. CASE g \in n.dups
    <3>1. Append(m.dups, g) \in Seq(gates) /\ Range(Append(m.dups, g)) = Range(m.dups) \union {g}
      BY <1>3, RangeAppend
    <3>2. QED
      BY <1>1, <1>3, <2>1, <3>1
  <2>2. CASE g \notin n.dups
    BY <1>1, <1>3, <2>2
  <2>3. QED
    BY <2>1, <2>2
<1>9. \A h \in gates : p.isNew[h] => h \in p.reached /\ Stops(h, n)
  BY <1>1, <1>3, <1>4
<1>10. p.numNew = Cardinality({h \in gates : p.isNew[h]})
  <2> DEFINE A == {h \in gates : m.isNew[h]}
             B == {h \in gates : p.isNew[h]}
  <2>1. g \notin A /\ B = IF new THEN A \union {g} ELSE A
    BY <1>3, <1>4
  <2>2. IsFiniteSet(A)
    BY FS_Subset DEF LevelsRight
  <2> HIDE DEF A
  <2>3. Cardinality(A \union {g}) = Cardinality(A) + 1
    BY <2>1, <2>2, FS_AddElement
  <2>4. m.numNew = Cardinality(A)
    BY <1>3 DEF A
  <2>5. QED
    BY <1>1, <2>1, <2>3, <2>4
<1>11. MarksKept(p, gates, n)
  BY <1>4, <1>5, <1>6, <1>7, <1>8, <1>9, <1>10 DEF MarksKept
<1>12. QED
  BY <1>11 DEF p

(* What a gate adds to what waits.                                         *)
FaninsOf(g, n) ==
  [i \in DOMAIN n.fanin[g] |-> [gate |-> n.fanin[g][i], new |-> n.level[g] = n.low + 1]]

(* The fanins of a gate wait with the level that they have.                *)
LEMMA FaninsWait ==
  ASSUME NEW gates, NEW n, LevelsRight(gates, n), NEW g \in gates
  PROVE  /\ QueueRight(FaninsOf(g, n), gates, n) /\ Waits(FaninsOf(g, n)) = Range(n.fanin[g])
         /\ Len(FaninsOf(g, n)) = Len(n.fanin[g]) /\ FaninsOf(g, n) \in Seq(Entry(gates))
<1> DEFINE q == FaninsOf(g, n)
           l == Len(n.fanin[g])
<1>1. /\ n.fanin[g] \in Seq(gates) /\ l \in Nat /\ DOMAIN n.fanin[g] = 1 .. l
  BY DEF LevelsRight
<1>2. \A i \in 1 .. l : n.fanin[g][i] \in gates /\ n.fanin[g][i] \in Range(n.fanin[g])
  BY <1>1 DEF Range
<1>3. /\ q = [i \in 1 .. l |-> [gate |-> n.fanin[g][i], new |-> n.level[g] = n.low + 1]]
  BY <1>1 DEF FaninsOf
<1>4. /\ DOMAIN q = 1 .. l
      /\ \A i \in 1 .. l : /\ q[i] \in Entry(gates) /\ q[i].gate = n.fanin[g][i]
                           /\ q[i].new <=> n.level[g] = n.low + 1
  <2>1. DOMAIN q = 1 .. l
    BY <1>3
  <2>2. ASSUME NEW i \in 1 .. l
        PROVE  q[i] = [gate |-> n.fanin[g][i], new |-> n.level[g] = n.low + 1]
    BY <1>3
  <2> HIDE DEF q
  <2>3. ASSUME NEW i \in 1 .. l
        PROVE  q[i] \in Entry(gates) /\ q[i].gate = n.fanin[g][i] /\ (q[i].new <=> n.level[g] = n.low + 1)
    <3>1. PICK b \in BOOLEAN : b = (n.level[g] = n.low + 1)
      OBVIOUS
    <3>2. PICK h \in gates : h = n.fanin[g][i]
      BY <1>2
    <3>3. q[i] = [gate |-> h, new |-> b]
      BY <2>2, <3>1, <3>2
    <3>4. q[i] \in Entry(gates) /\ q[i].gate = h /\ q[i].new = b
      BY <3>3 DEF Entry
    <3>5. QED
      BY <3>1, <3>2, <3>4
  <2>4. QED
    BY <2>1, <2>3
<1>5. q \in [1 .. l -> Entry(gates)]
  BY <1>3, <1>4
<1> HIDE DEF q, l
<1>6. q \in Seq(Entry(gates)) /\ Len(q) = l
  BY <1>1, <1>5
<1>7. \A e \in Range(q) : e.new => Stops(e.gate, n)
  <2>1. SUFFICES ASSUME NEW i \in 1 .. l, q[i].new PROVE Stops(q[i].gate, n)
    BY <1>4 DEF Range
  <2>2. PICK h \in gates : h = q[i].gate /\ h \in Range(n.fanin[g])
    BY <1>2, <1>4
  <2>3. n.level[h] < n.low + 1 /\ n.level[h] \in Nat /\ n.low \in Nat
    BY <1>4, <2>1, <2>2 DEF LevelsRight
  <2>4. n.level[h] <= n.low
    BY <2>3
  <2>5. QED
    BY <2>2, <2>4 DEF Stops, OnLowest
<1>8. Waits(q) = Range(n.fanin[g])
  <2>1. \A e \in Range(q) : e.gate \in Range(n.fanin[g])
    BY <1>2, <1>4 DEF Range
  <2>2. ASSUME NEW h \in Range(n.fanin[g]) PROVE \E e \in Range(q) : e.gate = h
    <3>1. PICK i \in 1 .. l : n.fanin[g][i] = h
      BY <1>1 DEF Range
    <3>2. q[i] \in Range(q)
      BY <1>4 DEF Range
    <3>3. QED
      BY <1>4, <3>1, <3>2
  <2>3. QED
    BY <2>1, <2>2 DEF Waits
<1>9. QED
  BY <1>6, <1>7, <1>8 DEF q, l, QueueRight

(* A visit leaves no gate behind, and fewer visits to make.                *)
LEMMA VisitCompletes ==
  ASSUME NEW gates, NEW root, NEW n, LevelsRight(gates, n), NEW w, MarksKept(w.marks, gates, n),
         QueueRight(w.waiting, gates, n), WalkComes(w.marks.reached, w.waiting, root, n)
  PROVE  /\ MarksKept(Visit(w, n).marks, gates, n) /\ QueueRight(Visit(w, n).waiting, gates, n)
         /\ WalkComes(Visit(w, n).marks.reached, Visit(w, n).waiting, root, n)
         /\ StepsLeft(w.marks.reached, w.waiting, n) \in Nat
         /\ w.waiting # <<>> => StepsLeft(Visit(w, n).marks.reached, Visit(w, n).waiting, n)
                                  <= StepsLeft(w.marks.reached, w.waiting, n) - 1
<1>1. IsFiniteSet(Pins(n.fanin)) /\ \A R : IsFiniteSet(Unread(R, n)) /\ Cardinality(Unread(R, n)) \in Nat
  <2>1. DOMAIN n.fanin = gates /\ \A g \in DOMAIN n.fanin : n.fanin[g] \in Seq(gates)
    BY DEF LevelsRight
  <2>2. IsFiniteSet(Pins(n.fanin))
    BY <2>1, PinsFinite DEF Pins, LevelsRight
  <2>3. \A R : Unread(R, n) \subseteq Pins(n.fanin)
    BY DEF Unread
  <2>4. QED
    BY <2>2, <2>3, FS_Subset, FS_CardinalityType
<1>2. Len(w.waiting) \in Nat
  BY DEF QueueRight
<1>3. CASE w.waiting = <<>>
  <2>1. Visit(w, n) = w
    BY <1>3 DEF Visit
  <2>2. QED
    BY <1>1, <1>2, <1>3, <2>1 DEF StepsLeft
<1>4. CASE w.waiting # <<>>
  <2> DEFINE v == Visit(w, n)
             q == w.waiting
             t == Tail(q)
             R == w.marks.reached
             S == v.marks.reached
             E == Entry(gates)
  <2>1. PICK e : e = Head(q)
    OBVIOUS
  <2>2. PICK g : g = e.gate
    OBVIOUS
  <2> DEFINE add == IF g \in R \/ Stops(g, n) THEN <<>> ELSE FaninsOf(g, n)
  <2>3. /\ v.marks = IF g \in R THEN w.marks ELSE MarkGate(w.marks, g, e.new, n)
        /\ v.waiting = add \o t
    BY <1>4, <2>1, <2>2 DEF Visit, FaninsOf
  <2>4. q \in Seq(E) /\ q # <<>> /\ \A x \in Range(q) : x.new => Stops(x.gate, n)
    BY <1>4 DEF QueueRight
  <2>5. e \in E /\ t \in Seq(E) /\ e \in Range(q) /\ Range(q) = {e} \union Range(t)
    <3> HIDE DEF q, E
    <3>1. QED
      BY <2>1, <2>4, RangeTail
  <2>6. Len(t) = Len(q) - 1 /\ Len(t) \in Nat
    <3> HIDE DEF E
    <3>1. QED
      BY <2>4
  <2>7. g \in gates /\ e.new \in BOOLEAN /\ (e.new => Stops(g, n))
    BY <2>2, <2>4, <2>5 DEF Entry
  <2>8. MarksKept(v.marks, gates, n) /\ S = R \union {g}
    <3>1. CASE g \in R
      BY <2>3, <3>1
    <3>2. CASE g \notin R
      <4>1. MarksKept(MarkGate(w.marks, g, e.new, n), gates, n)
        BY <2>7, <3>2, MarkGateKeeps
      <4>2. MarkGate(w.marks, g, e.new, n).reached = R \union {g}
        BY DEF MarkGate
      <4>3. QED
        BY <2>3, <3>2, <4>1, <4>2
    <3>3. QED
      BY <3>1, <3>2
  <2>9. add \in Seq(E) /\ QueueRight(add, gates, n)
        /\ (g \notin R /\ ~Stops(g, n) => Waits(add) = Range(n.fanin[g]))
    <3>1. CASE g \in R \/ Stops(g, n)
      BY <3>1, RangeEmpty DEF QueueRight
    <3>2. CASE ~(g \in R \/ Stops(g, n))
      BY <2>7, <3>2, FaninsWait
    <3>3. QED
      BY <3>1, <3>2
  <2>10. v.waiting \in Seq(E) /\ Range(v.waiting) = Range(add) \union Range(t) /\ Len(v.waiting) = Len(add) + Len(t)
         /\ Len(add) \in Nat
    <3> HIDE DEF add, t, E, v
    <3>1. add \o t \in Seq(E) /\ Range(add \o t) = Range(add) \union Range(t)
      BY <2>5, <2>9, RangeConcat
    <3>2. Len(add \o t) = Len(add) + Len(t) /\ Len(add) \in Nat
      BY <2>5, <2>9
    <3>3. QED
      BY <2>3, <3>1, <3>2
  <2> HIDE DEF v, S
  <2>11. QueueRight(v.waiting, gates, n)
    BY <2>4, <2>5, <2>9, <2>10 DEF QueueRight
  <2>12. Waits(v.waiting) = Waits(add) \union Waits(t) /\ Waits(q) = {g} \union Waits(t)
    BY <2>2, <2>5, <2>10 DEF Waits
  <2>13. WalkComes(S, v.waiting, root, n)
    <3>1. root \in S \union Waits(v.waiting)
      BY <2>8, <2>12 DEF WalkComes
    <3>2. ASSUME NEW h \in S, ~Stops(h, n) PROVE Range(n.fanin[h]) \subseteq S \union Waits(v.waiting)
      <4>1. CASE h \in R
        BY <2>8, <2>12, <3>2, <4>1 DEF WalkComes
      <4>2. CASE h \notin R
        BY <2>8, <2>9, <2>12, <3>2, <4>2
      <4>3. QED
        BY <4>1, <4>2
    <3>3. QED
      BY <3>1, <3>2 DEF WalkComes
  <2>14. StepsLeft(S, v.waiting, n) <= StepsLeft(R, q, n) - 1
    <3>1. CASE g \in R \/ Stops(g, n)
      <4>1. Len(v.waiting) = Len(q) - 1
        <5>1. add = <<>>
          BY <3>1
        <5> HIDE DEF add
        <5>2. Len(add) = 0
          BY <5>1
        <5>3. PICK a \in Nat, b \in Nat : a = Len(t) /\ b = Len(q)
          BY <1>2, <2>6
        <5>4. QED
          BY <2>6, <2>10, <5>2, <5>3
      <4>2. Unread(S, n) \subseteq Unread(R, n)
        BY <2>8 DEF Unread
      <4>3. Cardinality(Unread(S, n)) <= Cardinality(Unread(R, n))
        BY <1>1, <4>2, FS_Subset
      <4>4. PICK a \in Nat, b \in Nat : a = Cardinality(Unread(S, n)) /\ b = Cardinality(Unread(R, n))
        BY <1>1
      <4>5. QED
        BY <1>2, <4>1, <4>3, <4>4 DEF StepsLeft
    <3>2. CASE ~(g \in R \/ Stops(g, n))
      <4> DEFINE P == {g} \X DOMAIN n.fanin[g]
      <4>1. n.fanin[g] \in Seq(gates) /\ DOMAIN n.fanin[g] = 1 .. Len(n.fanin[g]) /\ Len(n.fanin[g]) \in Nat
            /\ g \in DOMAIN n.fanin
        BY <2>7 DEF LevelsRight
      <4>2. /\ IsFiniteSet({g}) /\ Cardinality({g}) = 1
            /\ IsFiniteSet(DOMAIN n.fanin[g]) /\ Cardinality(DOMAIN n.fanin[g]) = Len(n.fanin[g])
        <5>1. PICK k \in Nat : k = Len(n.fanin[g])
          BY <4>1
        <5>2. IsFiniteSet(1 .. k) /\ Cardinality(1 .. k) = k
          BY FS_Interval
        <5>3. QED
          BY <4>1, <5>1, <5>2, FS_Singleton
      <4>3. IsFiniteSet(P) /\ Cardinality(P) = Len(n.fanin[g])
        <5>1. PICK k \in Nat : k = Len(n.fanin[g])
          BY <4>1
        <5>2. PICK D : D = DOMAIN n.fanin[g]
          OBVIOUS
        <5>3. IsFiniteSet({g}) /\ Cardinality({g}) = 1 /\ IsFiniteSet(D) /\ Cardinality(D) = k
          BY <4>2, <5>1, <5>2
        <5>4. IsFiniteSet({g} \X D) /\ Cardinality({g} \X D) = 1 * k
          BY <5>3, FS_Product
        <5>5. 1 * k = k
          OBVIOUS
        <5>6. QED
          BY <5>1, <5>2, <5>4, <5>5
      <4>4. P \subseteq Unread(R, n) /\ Unread(S, n) = Unread(R, n) \ P
        <5>1. \A p \in Pins(n.fanin) : p[1] = g <=> p \in P
          BY DEF Pins
        <5>2. P \subseteq Pins(n.fanin)
          BY <4>1 DEF Pins
        <5> HIDE DEF P
        <5>3. QED
          BY <2>8, <3>2, <5>1, <5>2 DEF Unread
      <4>5. Len(v.waiting) = Len(n.fanin[g]) + Len(q) - 1
        <5>1. Len(add) = Len(n.fanin[g])
          BY <2>7, <3>2, FaninsWait
        <5>2. PICK a \in Nat, b \in Nat, c \in Nat : a = Len(add) /\ b = Len(t) /\ c = Len(q)
          BY <1>2, <2>6, <2>10
        <5>3. QED
          BY <2>6, <2>10, <5>1, <5>2
      <4> HIDE DEF P
      <4>6. Unread(R, n) \intersect P = P
        BY <4>4
      <4>7. Cardinality(Unread(S, n)) = Cardinality(Unread(R, n)) - Len(n.fanin[g])
        <5>1. PICK A : A = Unread(R, n)
          OBVIOUS
        <5>2. Cardinality(A \ P) = Cardinality(A) - Cardinality(A \intersect P)
          BY <1>1, <5>1, FS_Difference
        <5>3. QED
          BY <4>3, <4>4, <4>6, <5>1, <5>2
      <4>8. PICK a \in Nat, b \in Nat, c \in Nat, d \in Nat :
              a = Cardinality(Unread(S, n)) /\ b = Cardinality(Unread(R, n)) /\ c = Len(n.fanin[g]) /\ d = Len(q)
        BY <1>1, <1>2, <4>1
      <4>9. a = b - c /\ Len(v.waiting) = c + d - 1
        BY <4>5, <4>7, <4>8
      <4>10. Len(v.waiting) + a <= (d + b) - 1
        BY <4>9
      <4>11. QED
        BY <4>8, <4>10 DEF StepsLeft
    <3>3. QED
      BY <3>1, <3>2
  <2>15. StepsLeft(R, q, n) \in Nat
    BY <1>1, <1>2 DEF StepsLeft
  <2>16. QED
    BY <2>8, <2>11, <2>13, <2>14, <2>15 DEF v, S
<1>5. QED
  BY <1>3, <1>4

(* All that the lowest cut leaves above it was walked.                     *)
LEMMA MarksComplete ==
  ASSUME NEW gates, NEW root \in gates, NEW n, LevelsRight(gates, n)
  PROVE  /\ MarksKept(MarkBottomCut(gates, root, n), gates, n)
         /\ root \in MarkBottomCut(gates, root, n).reached
         /\ \A g \in MarkBottomCut(gates, root, n).reached :
              ~Stops(g, n) => Range(n.fanin[g]) \subseteq MarkBottomCut(gates, root, n).reached
<1> DEFINE k == Visits(n)
           m == MarkBottomCut(gates, root, n)
<1>1. DOMAIN n.fanin = gates /\ \A g \in DOMAIN n.fanin : n.fanin[g] \in Seq(gates)
  BY DEF LevelsRight
<1>2. k \in Nat /\ \E walk : WalkOf(walk, gates, root, n)
  BY <1>1, MarkWalk DEF LevelsRight
<1>3. PICK walk : WalkOf(walk, gates, root, n)
  BY <1>2
<1>4. /\ walk[0] = StartOf(gates, root) /\ m = walk[k].marks
      /\ \A i \in 1 .. k : walk[i] = Visit(walk[i - 1], n)
  BY <1>3 DEF WalkOf
<1> HIDE DEF m
<1> DEFINE Fine(w, i) == /\ MarksKept(w.marks, gates, n) /\ QueueRight(w.waiting, gates, n)
                         /\ WalkComes(w.marks.reached, w.waiting, root, n)
                         /\ w.waiting # <<>> => StepsLeft(w.marks.reached, w.waiting, n) + i <= k
           G == {i \in 0 .. k : Fine(walk[i], i)}
<1>5. 0 \in G
  <2> DEFINE w == StartOf(gates, root)
             z == NoMarks(gates)
             q == <<[gate |-> root, new |-> FALSE]>>
  <2>1. w.marks = z /\ w.waiting = q
    BY DEF StartOf
  <2>2. /\ z.reached = {} /\ z.isNew = [g \in gates |-> FALSE] /\ z.flag = [g \in gates |-> "EMPTY"]
        /\ z.active = {} /\ z.dups = <<>> /\ z.numNew = 0
    BY DEF NoMarks
  <2> HIDE DEF z
  <2>3. MarksKept(z, gates, n)
    <3>1. {g \in gates : z.isNew[g]} = {}
      BY <2>2
    <3>2. Cardinality({}) = 0
      BY FS_EmptySet
    <3>3. z.flag \in [gates -> Flags]
      BY <2>2 DEF Flags
    <3>4. z.dups \in Seq(gates) /\ Range(z.dups) = z.reached \intersect n.dups
      BY <2>2, RangeEmpty
    <3>5. \A g \in gates : z.flag[g] = FlagIn(g, z.reached, n)
      BY <2>2 DEF FlagIn
    <3>6. z.reached \subseteq gates /\ z.isNew \in [gates -> BOOLEAN]
          /\ z.active = {g \in z.reached : OnLowest(g, n)}
          /\ \A g \in gates : z.isNew[g] => g \in z.reached /\ Stops(g, n)
      BY <2>2
    <3>7. z.numNew = Cardinality({g \in gates : z.isNew[g]})
      BY <2>2, <3>1, <3>2
    <3>8. QED
      BY <3>3, <3>4, <3>5, <3>6, <3>7 DEF MarksKept
  <2>4. q \in Seq(Entry(gates)) /\ Range(q) = {[gate |-> root, new |-> FALSE]} /\ Len(q) = 1
    <3>1. PICK e \in Entry(gates) : e = [gate |-> root, new |-> FALSE]
      BY DEF Entry
    <3>2. <<e>> \in Seq(Entry(gates)) /\ Len(<<e>>) = 1 /\ Range(<<e>>) = {e}
      BY DEF Range
    <3>3. QED
      BY <3>1, <3>2
  <2> HIDE DEF q
  <2>5. QueueRight(q, gates, n) /\ WalkComes({}, q, root, n)
    BY <2>4 DEF QueueRight, WalkComes, Waits
  <2>6. StepsLeft({}, q, n) = k
    <3>1. Unread({}, n) = Pins(n.fanin)
      BY DEF Unread
    <3>2. Cardinality(Pins(n.fanin)) \in Nat
      BY <1>1, PinsFinite, FS_CardinalityType DEF LevelsRight, Pins
    <3>3. QED
      BY <2>4, <3>1, <3>2 DEF StepsLeft, Visits
  <2> HIDE DEF w, k
  <2>7. StepsLeft({}, q, n) + 0 <= k
    BY <1>2, <2>6
  <2>8. Fine(w, 0)
    BY <2>1, <2>2, <2>3, <2>5, <2>7
  <2> HIDE DEF Fine
  <2>9. QED
    BY <1>2, <1>4, <2>8 DEF w
<1>6. ASSUME NEW i \in 1 .. k, i - 1 \in G PROVE i \in G
  <2>1. PICK w : w = walk[i - 1]
    OBVIOUS
  <2>2. Fine(w, i - 1) /\ walk[i] = Visit(w, n)
    BY <1>4, <1>6, <2>1
  <2>3. /\ MarksKept(Visit(w, n).marks, gates, n) /\ QueueRight(Visit(w, n).waiting, gates, n)
        /\ WalkComes(Visit(w, n).marks.reached, Visit(w, n).waiting, root, n)
        /\ StepsLeft(w.marks.reached, w.waiting, n) \in Nat
        /\ w.waiting # <<>> => StepsLeft(Visit(w, n).marks.reached, Visit(w, n).waiting, n)
                                 <= StepsLeft(w.marks.reached, w.waiting, n) - 1
    BY <2>2, VisitCompletes
  <2>4. w.waiting = <<>> => Visit(w, n) = w
    BY DEF Visit
  <2>5. Visit(w, n).waiting # <<>> =>
          StepsLeft(Visit(w, n).marks.reached, Visit(w, n).waiting, n) + i <= k
    <3>1. SUFFICES ASSUME Visit(w, n).waiting # <<>>
                   PROVE  StepsLeft(Visit(w, n).marks.reached, Visit(w, n).waiting, n) + i <= k
      OBVIOUS
    <3>2. w.waiting # <<>>
      BY <2>4, <3>1
    <3>3. PICK a \in Nat : a = StepsLeft(w.marks.reached, w.waiting, n)
      BY <2>3
    <3>4. StepsLeft(Visit(w, n).marks.reached, Visit(w, n).waiting, n) \in Nat
      BY <2>3, VisitCompletes
    <3>5. PICK b \in Nat : b = StepsLeft(Visit(w, n).marks.reached, Visit(w, n).waiting, n)
      BY <3>4
    <3>6. b <= a - 1 /\ a + (i - 1) <= k
      BY <2>2, <2>3, <3>2, <3>3, <3>5
    <3> HIDE DEF k
    <3>7. b + i <= k
      BY <1>2, <3>6
    <3>8. QED
      BY <3>5, <3>7
  <2>6. Fine(walk[i], i)
    BY <2>2, <2>3, <2>5
  <2> HIDE DEF Fine, k
  <2>7. QED
    BY <1>2, <2>6
<1>7. k \in G
  <2> HIDE DEF G, k
  <2>1. \A i \in 0 .. k : i \in G
    BY <1>2, <1>5, <1>6, WalkDef!IntervalInduction
  <2>2. QED
    BY <1>2, <2>1
<1>8. PICK w : w = walk[k]
  OBVIOUS
<1>9. Fine(w, k)
  BY <1>7, <1>8
<1>10. w.waiting = <<>>
  <2>1. SUFFICES ASSUME w.waiting # <<>> PROVE FALSE
    OBVIOUS
  <2>2. StepsLeft(w.marks.reached, w.waiting, n) \in Nat
    BY <1>9, VisitCompletes
  <2>3. Cardinality(Unread(w.marks.reached, n)) \in Nat
    <3>1. IsFiniteSet(Pins(n.fanin)) /\ Unread(w.marks.reached, n) \subseteq Pins(n.fanin)
      BY <1>1, PinsFinite DEF LevelsRight, Pins, Unread
    <3>2. QED
      BY <3>1, FS_Subset, FS_CardinalityType
  <2>4. Len(w.waiting) \in Nat /\ Len(w.waiting) >= 1
    <3>1. w.waiting \in Seq(Entry(gates))
      BY <1>9 DEF QueueRight
    <3>2. QED
      BY <2>1, <3>1
  <2>5. StepsLeft(w.marks.reached, w.waiting, n) + k <= k
    BY <1>9, <2>1
  <2> HIDE DEF k
  <2>6. StepsLeft(w.marks.reached, w.waiting, n) >= 1
    BY <2>3, <2>4 DEF StepsLeft
  <2>7. QED
    BY <1>2, <2>2, <2>5, <2>6
<1>11. Waits(w.waiting) = {}
  BY <1>10, RangeEmpty DEF Waits
<1>12. m = w.marks
  BY <1>4, <1>8
<1>13. MarksKept(m, gates, n) /\ WalkComes(m.reached, w.waiting, root, n)
  BY <1>9, <1>12
<1>14. /\ root \in m.reached /\ \A g \in m.reached : ~Stops(g, n) => Range(n.fanin[g]) \subseteq m.reached
  BY <1>11, <1>13 DEF WalkComes
<1>15. QED
  BY <1>13, <1>14 DEF m

(* The search starts right: the walk to the lowest cut came to every gate  *)
(* above it.                                                               *)
LEMMA InitIInv == Init => IInv
<1> SUFFICES ASSUME Init PROVE IInv
  OBVIOUS
<1>1. /\ minCheckSize \in Nat /\ fanin \in [Gate -> Seq(Gate)]
      /\ \A g \in Gate : Range(fanin[g]) \subseteq 1 .. (g - 1)
      /\ fanout = Fanout(fanin)
  BY CutEnumAssumption DEF Init
<1>2. /\ covered = [g \in Gate |-> FALSE]
      /\ queue = <<>> /\ waiting = <<>> /\ spread = <<>> /\ removed = <<>>
      /\ taken = <<>> /\ stack = <<>> /\ pc = "enumerate"
  BY DEF Init
<1>3a. PICK low \in 0 .. (Level(fanin)[Root] - 1), merged \in SUBSET (Gate \ {Root}) :
        \E dups \in SUBSET merged :
          \E m \in {MarkBottomCut(Gate, Root, [fanin |-> fanin, level |-> Level(fanin), low |-> low,
                                              merged |-> merged, dups |-> dups])} :
            /\ merged \subseteq m.reached
            /\ dupMergeChange \in BOOLEAN /\ (dupMergeChange => dups # {})
            /\ isNew = m.isNew /\ reached = m.reached /\ dup = m.dups /\ lowest = m.active
            /\ flag = m.flag /\ active = m.active
            /\ numNew = IF dupMergeChange THEN Unlimited ELSE m.numNew
  BY DEF Init
<1>3b. PICK dups \in SUBSET merged :
        \E m \in {MarkBottomCut(Gate, Root, [fanin |-> fanin, level |-> Level(fanin), low |-> low,
                                            merged |-> merged, dups |-> dups])} :
          /\ merged \subseteq m.reached
          /\ dupMergeChange \in BOOLEAN /\ (dupMergeChange => dups # {})
          /\ isNew = m.isNew /\ reached = m.reached /\ dup = m.dups /\ lowest = m.active
          /\ flag = m.flag /\ active = m.active
          /\ numNew = IF dupMergeChange THEN Unlimited ELSE m.numNew
  BY <1>3a
<1>3. PICK m \in {MarkBottomCut(Gate, Root, [fanin |-> fanin, level |-> Level(fanin), low |-> low,
                                            merged |-> merged, dups |-> dups])} :
        /\ merged \subseteq m.reached
        /\ dupMergeChange \in BOOLEAN /\ (dupMergeChange => dups # {})
        /\ isNew = m.isNew /\ reached = m.reached /\ dup = m.dups /\ lowest = m.active
        /\ flag = m.flag /\ active = m.active
        /\ numNew = IF dupMergeChange THEN Unlimited ELSE m.numNew
  BY <1>3b
<1> DEFINE n == [fanin |-> fanin, level |-> Level(fanin), low |-> low, merged |-> merged, dups |-> dups]
<1>4. m = MarkBottomCut(Gate, Root, n)
  BY <1>3
<1>5. /\ n.fanin = fanin /\ n.level = Level(fanin) /\ n.low = low /\ n.merged = merged /\ n.dups = dups
  OBVIOUS
<1> HIDE DEF n
<1>6. Ordered(fanin) /\ DOMAIN fanin = Gate
  <2>1. DOMAIN fanin = Gate /\ Gate \subseteq Nat
    BY <1>1, GatesAreNat
  <2>2. ASSUME NEW g \in Gate PROVE fanin[g] \in Seq({h \in Gate : h < g})
    <3>1. fanin[g] \in Seq(Gate) /\ Range(fanin[g]) \subseteq 1 .. (g - 1) /\ g \in Nat
      BY <1>1, <2>1
    <3>2. \A i \in 1 .. Len(fanin[g]) : fanin[g][i] \in Range(fanin[g]) /\ fanin[g][i] \in Gate
      BY <3>1 DEF Range
    <3>3. \A i \in 1 .. Len(fanin[g]) : fanin[g][i] \in {h \in Gate : h < g}
      BY <3>1, <3>2
    <3>4. QED
      BY <3>1, <3>3
  <2>3. QED
    BY <2>1, <2>2 DEF Ordered
<1>7. /\ Level(fanin) \in [Gate -> Nat]
      /\ \A g \in Gate : fanin[g] = <<>> => Level(fanin)[g] = 0
      /\ \A g \in Gate : \A h \in Range(fanin[g]) : Level(fanin)[h] < Level(fanin)[g]
  BY <1>6, LevelType
<1>8. low \in Nat /\ low < Level(fanin)[Root] /\ Root \in Gate
  BY <1>7, GatesAreNat
<1>9. LevelsRight(Gate, n)
  BY <1>1, <1>5, <1>7, <1>8, GatesAreNat DEF LevelsRight
<1>10. /\ MarksKept(m, Gate, n) /\ Root \in m.reached
       /\ \A g \in m.reached : ~Stops(g, n) => Range(fanin[g]) \subseteq m.reached
  BY <1>4, <1>5, <1>8, <1>9, MarksComplete
<1>11. Marked(m, Root, Gate, n)
  <2>1. /\ Gate \in SUBSET DOMAIN n.fanin /\ IsFiniteSet(DOMAIN n.fanin)
        /\ \A g \in DOMAIN n.fanin : n.fanin[g] \in Seq(Gate)
    BY <1>1, <1>5, GatesAreNat
  <2>2. \A g \in Gate : n.fanin[g] \in Seq(Gate)
    BY <1>1, <1>5
  <2>3. QED
    BY <1>4, <1>8, <2>1, <2>2, MarksRight
<1>12. /\ m.reached \subseteq Gate /\ m.isNew \in [Gate -> BOOLEAN] /\ m.flag \in [Gate -> Flags]
       /\ \A g \in Gate : m.flag[g] = FlagIn(g, m.reached, n)
       /\ m.active = {g \in m.reached : OnLowest(g, n)}
       /\ m.dups \in Seq(Gate) /\ Range(m.dups) = m.reached \intersect dups
       /\ \A g \in Gate : m.isNew[g] => g \in m.reached /\ Stops(g, n)
       /\ m.numNew = Cardinality({g \in Gate : m.isNew[g]})
  BY <1>5, <1>10 DEF MarksKept
<1>13. /\ Net.fanin = fanin /\ Net.gates = m.reached /\ Net.dups = Range(m.dups) /\ Net.lowest = m.active
       /\ Net.news = {g \in Gate : isNew[g]} /\ Net.changed = dupMergeChange
  BY <1>3 DEF Net
<1>14. Root \notin dups /\ ~OnLowest(Root, n) /\ Root \notin merged
  <2>1. Root \notin dups /\ Root \notin merged
    OBVIOUS
  <2>2. ~(n.level[Root] <= n.low)
    BY <1>5, <1>7, <1>8
  <2>3. QED
    BY <1>5, <2>1, <2>2 DEF OnLowest
<1>15. \A g \in m.reached : ~Stops(g, n) <=> g \in Inner(Net)
  BY <1>5, <1>12, <1>13 DEF Inner, Stops
<1>16. NetRight(Net)
  <2>1. /\ Net.fanin \in [Gate -> Seq(Gate)] /\ \A g \in Gate : Range(Net.fanin[g]) \subseteq 1 .. (g - 1)
        /\ Net.gates \subseteq Gate /\ Root \in Net.gates
    BY <1>1, <1>10, <1>12, <1>13
  <2>2. /\ Net.dups \subseteq Net.gates \ {Root}
        /\ Net.lowest \subseteq Net.gates \ {Root} /\ Net.lowest \intersect Net.dups = {}
    BY <1>5, <1>12, <1>13, <1>14 DEF OnLowest
  <2>3. ASSUME NEW g \in Net.gates \ {Root} PROVE \E h \in Inner(Net) : g \in Reads(Net, h)
    <3>1. ReadFrom(g, m.reached, Root, n)
      BY <1>11, <1>13 DEF Marked
    <3>2. PICK p \in m.reached : ~Stops(p, n) /\ g \in Range(fanin[p])
      BY <1>5, <3>1 DEF ReadFrom
    <3>3. QED
      BY <1>13, <1>15, <3>2 DEF Reads
  <2>4. ASSUME NEW g \in Inner(Net) PROVE Net.fanin[g] # <<>> /\ Range(Net.fanin[g]) \subseteq Net.gates
    <3>1. g \in m.reached /\ ~Stops(g, n) /\ g \in Gate
      BY <1>12, <1>13, <1>15 DEF Inner
    <3>2. Range(fanin[g]) \subseteq m.reached
      BY <1>10, <3>1
    <3>3. ~(Level(fanin)[g] <= low) /\ Level(fanin)[g] \in Nat
      BY <1>5, <1>7, <3>1 DEF Stops, OnLowest
    <3>4. fanin[g] # <<>>
      BY <1>7, <1>8, <3>1, <3>3
    <3>5. QED
      BY <1>13, <3>2, <3>4
  <2>5. Net.news \subseteq Net.lowest \union Net.dups
    BY <1>3, <1>5, <1>12, <1>13 DEF Stops
  <2>6. Net.changed \in BOOLEAN /\ (Net.changed => Net.dups # {})
    BY <1>1, <1>3, <1>12, <1>13
  <2>7. QED
    BY <2>1, <2>2, <2>3, <2>4, <2>5, <2>6 DEF NetRight
<1>17. \A g \in Gate : /\ fanout[g] \in Seq(Gate)
                       /\ Range(fanout[g]) = {h \in Gate : g \in Range(fanin[h])}
  <2>1. SUFFICES ASSUME NEW g \in Gate
                 PROVE  /\ fanout[g] \in Seq(Gate)
                        /\ Range(fanout[g]) = {h \in Gate : g \in Range(fanin[h])}
    OBVIOUS
  <2>2. fanout[g] = SetToSeq({h \in Gate : g \in Range(fanin[h])})
    BY <1>1 DEF Fanout
  <2>3. QED
    BY <2>2, SetInOrder
<1>18. fanout = [g \in Gate |-> SetToSeq({h \in Gate : g \in Range(fanin[h])})]
  BY <1>1 DEF Fanout
<1>19. InputsRight
  <2>1. fanout \in [Gate -> Seq(Gate)]
    BY <1>17, <1>18
  <2>2. QED
    BY <1>1, <1>3, <1>12, <1>16, <1>17, <2>1 DEF InputsRight
<1>20. flag = LowestFlags(Net)
  <2>1. \A g \in Gate : flag[g] = IF g \notin Net.gates THEN "EMPTY" ELSE IF g \in Net.dups THEN "DUP"
                                  ELSE IF g \in Net.lowest THEN "CUT" ELSE "ABOVE"
    BY <1>3, <1>5, <1>12, <1>13 DEF FlagIn
  <2>2. flag \in [Gate -> Flags]
    BY <1>3, <1>12
  <2>3. QED
    BY <2>1, <2>2 DEF LowestFlags
<1>21. FlagsRight(Net, flag)
  BY <1>16, <1>20, LowestIsBase DEF BaseRight
<1>22. CutRight
  <2>1. active = {g \in Gate : flag[g] = "CUT"}
    <3>1. \A g \in Gate : flag[g] = "CUT" <=> g \in m.active
      BY <1>3, <1>5, <1>12 DEF FlagIn, OnLowest
    <3>2. QED
      BY <1>3, <1>12, <3>1
  <2>2. numNew = Count(Net, flag)
    <3>1. OffCut(Net, flag) = {}
      <4>1. \A g \in Net.lowest \union Net.dups : flag[g] \in {"CUT", "DUP"}
        BY <1>16, <1>20 DEF LowestFlags, NetRight
      <4>2. Net.news \subseteq Net.lowest \union Net.dups
        BY <1>16 DEF NetRight
      <4>3. QED
        BY <4>1, <4>2 DEF OffCut, OnCut
    <3>2. Cardinality(OffCut(Net, flag)) = 0
      BY <3>1, FS_EmptySet
    <3>3. Total(Net) \in Nat
      BY <1>16, NewsFinite
    <3>4. Total(Net) = numNew
      BY <1>3, <1>12, <1>13 DEF Total
    <3>5. QED
      BY <3>2, <3>3, <3>4 DEF Count
  <2>3. covered \in [Gate -> BOOLEAN]
    BY <1>2
  <2>4. QED
    BY <1>21, <2>1, <2>2, <2>3 DEF CutRight
<1>23. ListsRight
  BY <1>2, RangeEmpty DEF ListsRight
<1>24. StackRight
  <2>1. stack \in Seq(Call) /\ Len(stack) = 0
    BY <1>2, RangeEmpty
  <2>2. QED
    BY <2>1 DEF StackRight, CallsRight
<1>25. TakenRight
  <2>1. taken \in Seq(Gate) /\ Len(taken) = 0 /\ Len(stack) = 0 /\ Range(taken) = {}
    BY <1>2, RangeEmpty
  <2>2. IsInjective(taken)
    BY <1>2 DEF IsInjective
  <2>3. {g \in Gate : flag[g] = "TAKEN"} = {}
    BY <1>20 DEF LowestFlags
  <2>4. TakenBy(stack, taken)
    <3>1. \E at : at \in [1 .. Len(taken) -> 1 .. Len(stack)]
      <4>1. [i \in {} |-> i] \in [1 .. Len(taken) -> 1 .. Len(stack)]
        BY <2>1
      <4>2. QED
        BY <4>1
    <3>2. PICK at \in [1 .. Len(taken) -> 1 .. Len(stack)] : TRUE
      BY <3>1
    <3>3. TakenAt(at, stack, taken)
      BY <2>1 DEF TakenAt
    <3>4. QED
      BY <3>3 DEF TakenBy
  <2>5. QED
    BY <1>1, <2>1, <2>2, <2>3, <2>4 DEF TakenRight
<1>26. LegalizeRight /\ PopDownRight /\ FanoutsRight
  BY <1>2 DEF LegalizeRight, PopDownRight, FanoutsRight
<1>27. PhaseRight
  BY <1>2, <1>20 DEF PhaseRight
<1>28. QED
  BY <1>19, <1>22, <1>23, <1>24, <1>25, <1>26, <1>27 DEF IInv

-----------------------------------------------------------------------------
(* What holds wherever the search is: the conjuncts of IInv.               *)
THEOREM Invariance == Spec => []IInv
<1>1. Init => IInv
  BY InitIInv
<1>2. IInv /\ [Next]_vars => IInv'
  BY StepKeepsIInv
<1>3. QED
  BY <1>1, <1>2, PTL DEF Spec

(* The active, the taken and the merged gates are what the flags say, and  *)
(* the count of new gates is a natural number, at every step of the        *)
(* recursive search on shared state.                                       *)
THEOREM TypeCorrect == Spec => []TypeOK
<1>1. IInv => TypeOK
  <2>1. SUFFICES ASSUME IInv PROVE TypeOK
    OBVIOUS
  <2>2. InputsRight /\ CutRight /\ ListsRight /\ TakenRight /\ PhaseRight
    BY <2>1 DEF IInv
  <2>3. NetRight(Net) /\ Net.dups = Range(dup) /\ minCheckSize \in Nat
    BY <2>2 DEF InputsRight, Net
  <2>4. /\ flag \in [Gate -> Flags] /\ covered \in [Gate -> BOOLEAN] /\ active = {g \in Gate : flag[g] = "CUT"}
        /\ numNew = Count(Net, flag) /\ \A g \in Gate : flag[g] = "DUP" <=> g \in Range(dup)
    BY <2>2, <2>3 DEF CutRight, FlagsRight
  <2>5. numNew \in Nat /\ Range(dup) \subseteq Gate
    BY <2>3, <2>4, NewsFinite DEF NetRight
  <2>6. pc \in {"enumerate", "pop", "legalize", "decide", "return", "recover", "fanouts", "done", "abort"}
    BY <2>2 DEF PhaseRight
  <2>7. /\ IsInjective(taken) /\ Len(taken) <= minCheckSize /\ Range(taken) = {g \in Gate : flag[g] = "TAKEN"}
    BY <2>2 DEF TakenRight
  <2>8. Range(dup) = {g \in Gate : flag[g] = "DUP"}
    BY <2>4, <2>5
  <2>9. QED
    BY <2>3, <2>4, <2>5, <2>6, <2>7, <2>8 DEF TypeOK, Flags
<1>2. QED
  BY <1>1, Invariance, PTL

(* No assertion of the search fails: a decision finds a gate on the cut, a *)
(* recovery meets no taken or merged gate and ends with as many gates.     *)
THEOREM AssertionsHold == Spec => []NeverAborts
<1>1. IInv => NeverAborts
  BY DEF IInv, PhaseRight, NeverAborts
<1>2. QED
  BY <1>1, Invariance, PTL

(* A call leaves the cut that it found, gate by gate, whatever the calls   *)
(* above it and its own legalization moved.                                *)
THEOREM CallsRestore == Spec => Restored
<1>1. IInv /\ Recovered
      => /\ active' = Last(stack).before.active /\ numNew' = Last(stack).before.numNew
         /\ \A g \in reached : flag'[g] = Last(stack).before.flag[g]
  <2>1. SUFFICES ASSUME IInv, Recovered
                 PROVE  /\ active' = Last(stack).before.active /\ numNew' = Last(stack).before.numNew
                        /\ \A g \in reached : flag'[g] = Last(stack).before.flag[g]
    OBVIOUS
  <2>2. /\ flag = Top.before.flag /\ active = Top.before.active /\ numNew = Top.before.numNew
        /\ Last(stack) = Top
    BY <2>1, CallLeaves
  <2>3. flag' = flag /\ active' = active /\ numNew' = numNew
    BY <2>1 DEF Recovered, cut
  <2>4. QED
    BY <2>2, <2>3
<1>2. IInv /\ [Next]_vars
      => [Recovered => /\ active' = Last(stack).before.active
                       /\ numNew' = Last(stack).before.numNew
                       /\ \A g \in reached : flag'[g] = Last(stack).before.flag[g]]_vars
  BY <1>1
<1>3. QED
  BY <1>2, Invariance, PTL DEF Spec, Restored

-----------------------------------------------------------------------------
(* What is found.                                                          *)

OnIt(n, f) == {g \in n.gates : f[g] \in OnCut}

(* What the flags of a legal cut say is on it separates the root from the  *)
(* inputs, and what is above it is above the lowest cut.                   *)
LEMMA LegalIsCut ==
  ASSUME NEW n, NetRight(n), NEW f, IsLegal(n, f)
  PROVE  /\ IsCut(n.fanin, Root, n.gates, OnIt(n, f))
         /\ n.lowest \intersect Above(n.fanin, Root, n.gates, OnIt(n, f)) = {}
<1> DEFINE T == OnIt(n, f)
<1>0. T = {g \in n.gates : f[g] \in OnCut}
  BY DEF OnIt
<1> HIDE DEF T
<1>1. /\ FlagsRight(n, f) /\ Split(n, f) /\ Closed(n, f)
      /\ n.gates \subseteq Gate /\ Root \in n.gates /\ IsFiniteSet(n.gates) /\ IsFiniteSet(n.gates \ T)
  BY GatesAreNat, FS_Subset DEF IsLegal, NetRight
<1>2. \A g \in n.gates : f[g] \in {"ABOVE", "BELOW", "CUT", "TAKEN", "DUP"}
  BY <1>1, FlagOf
<1>3. Above(n.fanin, Root, n.gates, T) \subseteq {g \in n.gates : f[g] = "ABOVE"}
  <2> DEFINE U == {g \in n.gates : f[g] = "ABOVE"}
  <2>1. {Root} \ T \subseteq U
    BY <1>0, <1>1 DEF FlagsRight, OnCut
  <2>2. ReadBy(n.fanin, U, n.gates \ T) \subseteq U
    <3>1. SUFFICES ASSUME NEW h \in ReadBy(n.fanin, U, n.gates \ T) PROVE h \in U
      OBVIOUS
    <3>2. h \in n.gates \ T /\ \E g \in U : h \in Range(n.fanin[g])
      BY <3>1 DEF ReadBy
    <3>3. PICK g \in U : h \in Reads(n, g)
      BY <3>2 DEF Reads
    <3>4. f[h] # "BELOW"
      BY <1>1, <3>3 DEF Split
    <3>5. f[h] \notin OnCut
      BY <1>0, <3>2
    <3>6. QED
      BY <1>2, <3>2, <3>4, <3>5 DEF OnCut
  <2> HIDE DEF U
  <2>3. Least(Reach(n.fanin, {Root} \ T, n.gates \ T), n.fanin, {Root} \ T, n.gates \ T)
    BY <1>1, ReachLeast
  <2>4. Reach(n.fanin, {Root} \ T, n.gates \ T) \subseteq U
    BY <2>1, <2>2, <2>3 DEF Least
  <2>5. QED
    BY <2>4 DEF Above, U
<1>4. Below(n.fanin, n.gates, T) \subseteq {g \in n.gates : f[g] = "BELOW"}
  <2> DEFINE U == {g \in n.gates : f[g] = "BELOW"}
  <2>1. ReadBy(n.fanin, T \union U, n.gates) \subseteq U
    <3>1. SUFFICES ASSUME NEW h \in ReadBy(n.fanin, T \union U, n.gates) PROVE h \in U
      OBVIOUS
    <3>2. h \in n.gates /\ \E g \in T \union U : h \in Range(n.fanin[g])
      BY <3>1 DEF ReadBy
    <3>3. PICK g \in T \union U : h \in Reads(n, g)
      BY <3>2 DEF Reads
    <3>4. g \in n.gates /\ f[g] # "ABOVE"
      BY <1>0, <3>3 DEF OnCut
    <3>5. QED
      BY <1>1, <3>2, <3>3, <3>4 DEF Closed
  <2> HIDE DEF U
  <2>2. ReadBy(n.fanin, T, n.gates) \subseteq U /\ ReadBy(n.fanin, U, n.gates) \subseteq U
    BY <2>1 DEF ReadBy
  <2>3. Least(Reach(n.fanin, ReadBy(n.fanin, T, n.gates), n.gates), n.fanin,
              ReadBy(n.fanin, T, n.gates), n.gates)
    BY <1>1, ReachLeast
  <2>4. Reach(n.fanin, ReadBy(n.fanin, T, n.gates), n.gates) \subseteq U
    BY <2>2, <2>3 DEF Least
  <2>5. QED
    BY <2>4 DEF Below, U
<1>5. \A g \in Above(n.fanin, Root, n.gates, T) : n.fanin[g] # <<>> /\ Range(n.fanin[g]) \subseteq n.gates
  BY <1>1, <1>3, AboveIsInner DEF NetRight
<1>6. T \intersect Below(n.fanin, n.gates, T) = {}
  BY <1>0, <1>4 DEF OnCut
<1>7. n.lowest \intersect Above(n.fanin, Root, n.gates, T) = {}
  BY <1>1, <1>3 DEF FlagsRight
<1>8. QED
  BY <1>5, <1>6, <1>7 DEF IsCut, T

(* While the count is not zero, there is a new gate on the cut, unless the *)
(* dups changed.                                                           *)
LEMMA NewIsThere ==
  ASSUME NEW n, NetRight(n), NEW f, Count(n, f) >= 1, ~n.changed
  PROVE  \E g \in n.news : f[g] \in OnCut
<1>1. SUFFICES ASSUME \A g \in n.news : f[g] \notin OnCut PROVE FALSE
  OBVIOUS
<1>2. OffCut(n, f) = n.news
  BY <1>1 DEF OffCut
<1>3. Cardinality(n.news) \in Nat /\ Total(n) = Cardinality(n.news)
  BY NewsFinite DEF Total
<1>4. QED
  BY <1>2, <1>3 DEF Count

(* A list without repetitions has as many elements as it is long.          *)
LEMMA AsManyAsLong ==
  ASSUME NEW E, NEW q \in Seq(E), IsInjective(q)
  PROVE  IsFiniteSet(Range(q)) /\ Cardinality(Range(q)) = Len(q)
<1>1. PICK k \in Nat : k = Len(q)
  OBVIOUS
<1>2. DOMAIN q = 1 .. k
  BY <1>1
<1>3. IsFiniteSet(1 .. k) /\ Cardinality(1 .. k) = k
  <2>1. 1 \in Int /\ k \in Int
    BY <1>1
  <2>2. IsFiniteSet(1 .. k) /\ Cardinality(1 .. k) = IF 1 > k THEN 0 ELSE k - 1 + 1
    BY <2>1, FS_Interval
  <2>3. QED
    BY <1>1, <2>2
<1>4. q \in Surjection(1 .. k, Range(q))
  <2>1. q \in [1 .. k -> Range(q)]
    BY <1>2 DEF Range
  <2>2. \A x \in Range(q) : \E i \in 1 .. k : q[i] = x
    BY <1>2 DEF Range
  <2>3. QED
    BY <2>1, <2>2 DEF Surjection
<1>5. q \in Injection(1 .. k, Range(q))
  BY <1>2, <1>4 DEF Surjection, Injection, IsInjective
<1>6. IsFiniteSet(Range(q)) /\ Cardinality(Range(q)) = k
  BY <1>3, <1>4, <1>5, FS_Surjection
<1>7. QED
  BY <1>1, <1>6

(* The cuts, by the netlist.                                               *)
LEMMA CutsAre ==
  ASSUME InputsRight
  PROVE  \A S : S \in Cuts <=>
           /\ S \subseteq Net.gates \ Net.dups /\ Net.lowest # {} /\ S # {}
           /\ Cardinality(S) <= minCheckSize
           /\ Net.changed \/ \E g \in S \union Net.dups : g \in Net.news
           /\ IsCut(Net.fanin, Root, Net.gates, S \union Net.dups)
           /\ Net.lowest \intersect Above(Net.fanin, Root, Net.gates, S \union Net.dups) = {}
<1>1. /\ Net.fanin = fanin /\ Net.gates = reached /\ Net.dups = Range(dup) /\ Net.lowest = lowest
      /\ Net.news = {g \in Gate : isNew[g]} /\ Net.changed = dupMergeChange
  BY DEF Net
<1>2. Net.gates \subseteq Gate /\ Net.dups \subseteq Net.gates
  BY DEF InputsRight, NetRight
<1>3. \A S \in SUBSET (Net.gates \ Net.dups) :
        (\E g \in S \union Net.dups : g \in Net.news) <=> \E g \in S \union Net.dups : isNew[g]
  BY <1>1, <1>2
<1>4. QED
  BY <1>1, <1>3 DEF Cuts, CutsAbove

(* A cut whose gates are all taken is one.                                 *)
LEMMA TakenIsCut ==
  ASSUME InputsRight, NEW f, IsLegal(Net, f), Count(Net, f) >= 1, lowest # {},
         NEW q \in Seq(Gate), IsInjective(q), Len(q) <= minCheckSize, q # <<>>,
         Range(q) = {g \in Gate : f[g] = "TAKEN"}, {g \in Gate : f[g] = "CUT"} = {}
  PROVE  Range(q) \in Cuts
<1> DEFINE S == Range(q)
           T == S \union Net.dups
<1>1. NetRight(Net) /\ FlagsRight(Net, f) /\ Net.lowest = lowest /\ Net.gates \subseteq Gate
  BY DEF InputsRight, IsLegal, Net, NetRight
<1>2. S = {g \in Gate : f[g] = "TAKEN"}
  OBVIOUS
<1>3. S \subseteq Net.gates \ Net.dups
  BY <1>1, <1>2 DEF FlagsRight
<1>4. T = {g \in Net.gates : f[g] \in OnCut} /\ T = OnIt(Net, f)
  <2>1. \A g \in Gate : f[g] # "CUT"
    OBVIOUS
  <2>2. Net.dups \subseteq Net.gates /\ \A g \in Gate : f[g] = "DUP" <=> g \in Net.dups
    BY <1>1 DEF NetRight, FlagsRight
  <2>3. QED
    BY <1>1, <1>2, <1>3, <2>1, <2>2 DEF OnCut, OnIt
<1>5. S # {} /\ Cardinality(S) <= minCheckSize
  <2>1. 1 \in DOMAIN q
    OBVIOUS
  <2>2. q[1] \in S
    BY <2>1 DEF Range
  <2>3. Cardinality(S) = Len(q)
    BY AsManyAsLong
  <2>4. QED
    BY <2>2, <2>3
<1> HIDE DEF S, T
<1>6. /\ IsCut(Net.fanin, Root, Net.gates, T)
      /\ Net.lowest \intersect Above(Net.fanin, Root, Net.gates, T) = {}
  <2>1. /\ IsCut(Net.fanin, Root, Net.gates, OnIt(Net, f))
        /\ Net.lowest \intersect Above(Net.fanin, Root, Net.gates, OnIt(Net, f)) = {}
    BY <1>1, LegalIsCut
  <2>2. QED
    BY <1>4, <2>1
<1>7. Net.changed \/ \E g \in T : g \in Net.news
  <2>1. SUFFICES ASSUME ~Net.changed PROVE \E g \in T : g \in Net.news
    OBVIOUS
  <2>2. PICK g \in Net.news : f[g] \in OnCut
    BY <1>1, <2>1, NewIsThere
  <2>3. g \in Net.gates
    BY <1>1 DEF NetRight
  <2>4. QED
    BY <1>4, <2>2, <2>3
<1>8. S \in Cuts
  BY <1>1, <1>3, <1>5, <1>6, <1>7, CutsAre DEF T
<1>9. QED
  BY <1>8 DEF S

-----------------------------------------------------------------------------
(* A step changes the netlist never, and what is found when it takes a     *)
(* gate.                                                                   *)
LEMMA StepKeepsFound ==
  ASSUME [Next]_vars
  PROVE  UNCHANGED inputs /\ (Take \/ cutList' = cutList)
<1>1. CASE UNCHANGED vars
  BY <1>1 DEF vars
<1>2. CASE Next
  <2>1. ASSUME CheckFanin PROVE UNCHANGED inputs /\ cutList' = cutList
    BY <2>1 DEF CheckFanin, IsBelow, MoveBelow, RemoveFromCut, CannotRemove
  <2>2. ASSUME EnumerateCuts \/ CoverFanout \/ LegalizeCut \/ CheckNext \/ Legal
        PROVE UNCHANGED inputs /\ cutList' = cutList
    BY <2>2 DEF EnumerateCuts, CoverFanout, LegalizeCut, CheckNext, Legal
  <2>3. ASSUME TooLong \/ Pop \/ Recover \/ PopDown \/ RecoverCut
        PROVE UNCHANGED inputs /\ cutList' = cutList
    BY <2>3 DEF TooLong, Pop, Recover, PopDown, RecoverCut
  <2>4. ASSUME CheckNextFanouts \/ CheckFanout \/ CoverFanin \/ Recovered
        PROVE UNCHANGED inputs /\ cutList' = cutList
    BY <2>4 DEF CheckNextFanouts, CheckFanout, CoverFanin, Recovered
  <2>5. Take => UNCHANGED inputs
    BY DEF Take
  <2>6. QED
    BY <1>2, <2>1, <2>2, <2>3, <2>4, <2>5 DEF Next
<1>3. QED
  BY <1>1, <1>2

(* What is found stays when the list of cuts does.                         *)
LEMMA FoundKept ==
  ASSUME UNCHANGED inputs, cutList' = cutList
  PROVE  Found' = Found /\ Cuts' = Cuts
BY DEF Found, Cuts, inputs

(* One more cut is found.                                                  *)
LEMMA FoundMore ==
  ASSUME cutList \in Seq(Seq(Gate)), NEW q \in Seq(Gate), cutList' = Append(cutList, q)
  PROVE  cutList' \in Seq(Seq(Gate)) /\ Found' = Found \union {Range(q)}
<1> DEFINE E == Seq(Gate)
<1>1. cutList \in Seq(E) /\ q \in E
  OBVIOUS
<1> HIDE DEF E
<1>2. /\ cutList' \in Seq(E) /\ Len(cutList') = Len(cutList) + 1 /\ cutList'[Len(cutList) + 1] = q
      /\ \A i \in 1 .. Len(cutList) : cutList'[i] = cutList[i]
  BY <1>1, AppendIs
<1>3. PICK k \in Nat : k = Len(cutList)
  BY <1>1
<1>4. Found = {Range(cutList[i]) : i \in 1 .. k} /\ Found' = {Range(cutList'[i]) : i \in 1 .. (k + 1)}
  BY <1>2, <1>3 DEF Found
<1>5. \A i : i \in 1 .. (k + 1) <=> i \in 1 .. k \/ i = k + 1
  BY <1>3
<1>6. cutList'[k + 1] = q /\ \A i \in 1 .. k : cutList'[i] = cutList[i]
  BY <1>2, <1>3
<1>7. Found' = Found \union {Range(q)}
  BY <1>4, <1>5, <1>6
<1>8. QED
  BY <1>2, <1>7 DEF E

(* A gate is taken: a cut is found when it was the last one.               *)
LEMMA TakeFinds ==
  ASSUME IInv, Take, cutList \in Seq(Seq(Gate))
  PROVE  /\ cutList' \in Seq(Seq(Gate)) /\ Cuts' = Cuts
         /\ active' # {} => Found' = Found
         /\ active' = {} => Found' = Found \union {Range(taken')} /\ Range(taken') \in Cuts
                            /\ taken' \in Seq(Gate) /\ IsLegal(Net, flag') /\ pc' = "return"
<1>1. pc = "decide" /\ UNCHANGED inputs /\ numNew' = numNew
  BY DEF Take
<1>2. /\ InputsRight /\ NetRight(Net) /\ IsLegal(Net, flag) /\ active # {} /\ numNew >= 1 /\ PhaseRight
      /\ Min(active) \in active /\ active \subseteq reached /\ Root \notin active /\ Net.gates = reached
      /\ active \subseteq Gate /\ CutRight
  BY <1>1, DecideFinds
<1>3. Net' = Net /\ lowest' = lowest /\ Cuts' = Cuts
  BY <1>1, <1>2, NetKept DEF Cuts, inputs
<1>4. IInv'
  BY TakeKeeps
<1>5. PICK g : g = Min(active)
  OBVIOUS
<1>6. /\ active' = active \ {g} /\ flag' = Put(flag, g, "TAKEN") /\ taken' = Append(taken, g)
      /\ cutList' = (IF active' = {} THEN Append(cutList, taken') ELSE cutList)
      /\ pc' = IF active' = {} THEN "return" ELSE "decide"
  BY <1>2, <1>5 DEF Take, Put
<1>7. CASE active' # {}
  BY <1>1, <1>3, <1>6, <1>7, FoundKept
<1>8. CASE active' = {}
  <2>1. /\ InputsRight' /\ TakenRight' /\ CutRight' /\ lowest' # {} /\ taken' \in Seq(Gate)
    BY <1>1, <1>2, <1>3, <1>4 DEF IInv, PhaseRight, TakenRight
  <2>2. /\ FlagsRight(Net, flag') /\ numNew' = Count(Net, flag') /\ active' = {h \in Gate : flag'[h] = "CUT"}
    BY <1>3, <2>1 DEF CutRight
  <2>3. numNew' >= 1
    BY <1>1, <1>2
  <2>4. IsLegal(Net, flag')
    <3>1. flag \in [Gate -> Flags] /\ g \in Gate /\ flag[g] = "CUT"
      BY <1>2, <1>5 DEF CutRight, FlagsRight
    <3>2. flag'[g] = "TAKEN" /\ \A h \in Gate : h # g => flag'[h] = flag[h]
      BY <1>6, <3>1 DEF Put
    <3>3. /\ \A h \in Gate : flag'[h] = "ABOVE" <=> flag[h] = "ABOVE"
          /\ \A h \in Gate : flag'[h] = "BELOW" <=> flag[h] = "BELOW"
      BY <3>1, <3>2
    <3>4. \A h \in Net.gates : h \in Gate /\ Reads(Net, h) \subseteq Gate
      BY <1>2 DEF NetRight, Reads
    <3>5. Split(Net, flag')
      BY <1>2, <3>3, <3>4 DEF Split, IsLegal
    <3>6. Closed(Net, flag')
      BY <1>2, <3>3, <3>4 DEF Closed, IsLegal
    <3>7. QED
      BY <2>2, <3>5, <3>6 DEF IsLegal
  <2>5. taken' # <<>>
    <3>1. taken \in Seq(Gate) /\ g \in Gate
      BY <1>2, <1>5 DEF IInv, TakenRight
    <3>2. QED
      BY <1>6, <3>1, AppendIs
  <2>6. Range(taken') \in Cuts
    <3>1. /\ InputsRight /\ lowest # {} /\ Count(Net, flag') >= 1 /\ minCheckSize' = minCheckSize
      BY <1>1, <1>2, <1>3, <2>1, <2>2, <2>3 DEF inputs
    <3>2. /\ IsInjective(taken') /\ Len(taken') <= minCheckSize
          /\ Range(taken') = {h \in Gate : flag'[h] = "TAKEN"}
      BY <2>1, <3>1 DEF TakenRight
    <3>3. {h \in Gate : flag'[h] = "CUT"} = {}
      BY <1>8, <2>2
    <3>4. QED
      BY <2>1, <2>4, <2>5, <3>1, <3>2, <3>3, TakenIsCut
  <2>7. cutList' \in Seq(Seq(Gate)) /\ Found' = Found \union {Range(taken')}
    <3>1. PICK q \in Seq(Gate) : q = taken'
      BY <2>1
    <3>2. cutList' = Append(cutList, q)
      BY <1>6, <1>8, <3>1
    <3>3. QED
      BY <3>1, <3>2, FoundMore
  <2>8. QED
    BY <1>3, <1>6, <1>8, <2>1, <2>4, <2>6, <2>7
<1>9. QED
  BY <1>7, <1>8

(* What the search has found so far.                                       *)
FInv == cutList \in Seq(Seq(Gate)) /\ FoundAreCuts

(* Only cuts are found: with the merged gates, they separate the root from *)
(* the inputs, no gate of them is below another, and one of them is new    *)
(* (enumerateCuts), whatever the netlist, the level and the merged gates.  *)
THEOREM FoundSoundly == Spec => []FoundAreCuts
<1>1. Init => FInv
  <2>1. SUFFICES ASSUME Init PROVE FInv
    OBVIOUS
  <2>2. cutList = <<>> /\ cutList \in Seq(Seq(Gate)) /\ Len(cutList) = 0
    BY <2>1 DEF Init
  <2>3. Found = {}
    BY <2>2 DEF Found
  <2>4. QED
    BY <2>2, <2>3 DEF FInv, FoundAreCuts
<1>2. IInv /\ FInv /\ [Next]_vars => FInv'
  <2>1. SUFFICES ASSUME IInv, FInv, [Next]_vars PROVE FInv'
    OBVIOUS
  <2>2. CASE Take
    <3>1. /\ cutList' \in Seq(Seq(Gate)) /\ Cuts' = Cuts
          /\ Found' = Found \/ (Found' = Found \union {Range(taken')} /\ Range(taken') \in Cuts)
      BY <2>1, <2>2, TakeFinds DEF FInv
    <3>2. QED
      BY <2>1, <3>1 DEF FInv, FoundAreCuts
  <2>3. CASE ~Take
    <3>1. Found' = Found /\ Cuts' = Cuts /\ cutList' = cutList
      BY <2>1, <2>3, StepKeepsFound, FoundKept
    <3>2. QED
      BY <2>1, <3>1 DEF FInv, FoundAreCuts
  <2>4. QED
    BY <2>2, <2>3
<1>3. FInv => FoundAreCuts
  BY DEF FInv
<1>4. QED
  BY <1>1, <1>2, <1>3, Invariance, PTL DEF Spec

-----------------------------------------------------------------------------
(* What the search comes to.                                               *)

(* The flags of a cut, when its gates are S.                               *)
FlagsOf(n, S) ==
  [g \in Gate |-> IF g \notin n.gates THEN "EMPTY" ELSE IF g \in n.dups THEN "DUP"
                  ELSE IF g \in S THEN "CUT"
                  ELSE IF g \in Below(n.fanin, n.gates, S \union n.dups) THEN "BELOW" ELSE "ABOVE"]
TargetRight(n, S, t) ==
  /\ IsLegal(n, t) /\ S = {g \in Gate : t[g] = "CUT"}
  /\ \A g \in Gate : t[g] # "TAKEN"
  /\ n.changed \/ \E g \in n.news : t[g] \in OnCut

(* Above, on or below the cut is every gate of the cone, and one of these. *)
Parts(n, U, T, L) ==
  /\ U \subseteq n.gates \ T /\ L \subseteq n.gates \ T /\ U \intersect L = {}
  /\ n.gates \subseteq U \union T \union L
  /\ Root \notin L
  /\ \A g \in U : Reads(n, g) \subseteq U \union T
  /\ \A g \in T \union L : Reads(n, g) \subseteq L

(* Each gate is above a cut, on it or below it.                            *)
LEMMA CutParts ==
  ASSUME NEW n, NetRight(n), NEW T \in SUBSET n.gates, IsCut(n.fanin, Root, n.gates, T)
  PROVE  Parts(n, Above(n.fanin, Root, n.gates, T), T, Below(n.fanin, n.gates, T))
<1> DEFINE U == Above(n.fanin, Root, n.gates, T)
           L == Below(n.fanin, n.gates, T)
           R == ReadBy(n.fanin, T, n.gates)
<1>1. /\ n.gates \subseteq Gate /\ Root \in n.gates /\ IsFiniteSet(n.gates) /\ IsFiniteSet(n.gates \ T)
  BY GatesAreNat, FS_Subset DEF NetRight
<1>2. /\ \A g \in U : n.fanin[g] # <<>> /\ Range(n.fanin[g]) \subseteq n.gates
      /\ T \intersect L = {}
  BY DEF IsCut
<1>3. Least(U, n.fanin, {Root} \ T, n.gates \ T)
  BY <1>1, ReachLeast DEF Above
<1>4. Least(L, n.fanin, R, n.gates)
  BY <1>1, ReachLeast DEF Below
<1>5. R \subseteq n.gates /\ \A g \in T : Reads(n, g) \subseteq R
  BY DEF ReadBy, Reads
<1> HIDE DEF U, L, R
<1>6. {Root} \ T \subseteq U /\ U \subseteq n.gates \ T
  BY <1>1, <1>3 DEF Least
<1>7. L \subseteq n.gates /\ R \subseteq L
  BY <1>4, <1>5 DEF Least
<1>8. \A g \in U : Reads(n, g) \subseteq U \union T
  <2>1. SUFFICES ASSUME NEW g \in U, NEW h \in Reads(n, g), h \notin T PROVE h \in U
    OBVIOUS
  <2>2. h \in ReadBy(n.fanin, U, n.gates \ T)
    BY <2>1 DEF ReadBy, Reads
  <2>3. QED
    BY <1>3, <2>2 DEF Least
<1>9. \A g \in T \union L : Reads(n, g) \subseteq L
  <2>1. SUFFICES ASSUME NEW g \in T \union L, NEW h \in Reads(n, g) PROVE h \in L
    OBVIOUS
  <2>2. CASE g \in T
    BY <1>5, <1>7, <2>1, <2>2
  <2>3. CASE g \in L
    <3>1. h \in ReadBy(n.fanin, L, n.gates)
      BY <2>1, <2>3 DEF ReadBy, Reads
    <3>2. QED
      BY <1>4, <3>1 DEF Least
  <2>4. QED
    BY <2>2, <2>3
<1>10. U \intersect L = {}
  <2>1. SUFFICES ASSUME U \intersect L # {} PROVE FALSE
    OBVIOUS
  <2>2. PICK g \in U \intersect L : \A h \in U \intersect L : g <= h
    <3>1. U \intersect L \in SUBSET Gate
      BY <1>1, <1>6
    <3>2. QED
      BY <2>1, <3>1, LeastGate
  <2>3. g \in n.gates /\ g \in Gate /\ n.fanin[g] # <<>> /\ Range(n.fanin[g]) \subseteq n.gates
    BY <1>1, <1>2, <1>6
  <2>4. PICK h : h \in Range(n.fanin[g])
    <3>1. n.fanin[g] \in Seq(Gate)
      BY <2>3 DEF NetRight
    <3>2. 1 \in DOMAIN n.fanin[g]
      BY <2>3, <3>1
    <3>3. n.fanin[g][1] \in Range(n.fanin[g])
      BY <3>2 DEF Range
    <3>4. QED
      BY <3>3
  <2>5. h \in Reads(n, g)
    BY <2>3, <2>4 DEF Reads
  <2>6. h \in Gate /\ g \in Gate /\ h < g
    BY <2>3, <2>5, ReadsLess
  <2>7. h \in U \intersect L
    BY <1>2, <1>8, <1>9, <2>2, <2>5
  <2>8. g <= h
    BY <2>2, <2>7
  <2>9. QED
    BY <2>6, <2>8, GatesAreNat
<1>11. n.gates \subseteq U \union T \union L
  <2> DEFINE D == n.gates \ (U \union T \union L)
  <2>1. SUFFICES ASSUME D # {} PROVE FALSE
    OBVIOUS
  <2>2. PICK g \in D : \A h \in D : h <= g
    <3>1. D \in SUBSET Gate
      BY <1>1
    <3> HIDE DEF D
    <3>2. QED
      BY <2>1, <3>1, LargestGate
  <2>3. g \in n.gates \ {Root} /\ g \notin U /\ g \notin T /\ g \notin L
    BY <1>6, <2>2
  <2>4. PICK h \in Inner(n) : g \in Reads(n, h)
    BY <2>3 DEF NetRight
  <2>5. h \in n.gates
    BY DEF Inner
  <2>6. h \in Gate /\ g \in Gate /\ g < h
    BY <2>4, <2>5, ReadsLess
  <2>7. h \notin U /\ h \notin T /\ h \notin L
    BY <1>8, <1>9, <2>3, <2>4
  <2>8. h \in D
    BY <2>5, <2>7
  <2>9. h <= g
    BY <2>2, <2>8
  <2>10. QED
    BY <2>6, <2>9, GatesAreNat
<1>12. Root \notin L
  <2>1. \A g \in n.gates : Root \notin Range(n.fanin[g])
    <3>1. SUFFICES ASSUME NEW g \in n.gates, Root \in Range(n.fanin[g]) PROVE FALSE
      OBVIOUS
    <3>2. Root \in Reads(n, g)
      BY <1>1, <3>1 DEF Reads
    <3>3. Root < g /\ g \in Gate
      BY <3>2, ReadsLess
    <3>4. QED
      BY <3>3, CutEnumAssumption DEF Gate, Root
  <2>2. R \subseteq n.gates \ {Root}
    BY <2>1 DEF R, ReadBy
  <2>3. ReadBy(n.fanin, n.gates \ {Root}, n.gates) \subseteq n.gates \ {Root}
    BY <2>1 DEF ReadBy
  <2>4. QED
    BY <1>4, <2>2, <2>3 DEF Least
<1>13. Parts(n, U, T, L)
  BY <1>2, <1>6, <1>7, <1>8, <1>9, <1>10, <1>11, <1>12 DEF Parts
<1>14. QED
  BY <1>13 DEF U, L

(* The flags of a cut are those of a legal one.                            *)
LEMMA CutIsTarget ==
  ASSUME InputsRight, NEW S \in Cuts
  PROVE  TargetRight(Net, S, FlagsOf(Net, S)) /\ lowest # {} /\ Cardinality(S) <= minCheckSize
         /\ FlagsOf(Net, S) \in [Gate -> Flags]
<1> DEFINE n == Net
           T == S \union n.dups
           U == Above(n.fanin, Root, n.gates, T)
           L == Below(n.fanin, n.gates, T)
           t == FlagsOf(n, S)
<1>1. NetRight(n) /\ n.gates \subseteq Gate /\ n.dups \subseteq n.gates /\ n.lowest = lowest
      /\ n.lowest \subseteq n.gates /\ n.lowest \intersect n.dups = {} /\ Root \in n.gates
      /\ Root \notin n.dups /\ n.news \subseteq n.lowest \union n.dups
  BY DEF InputsRight, NetRight, Net
<1>2. /\ S \subseteq n.gates \ n.dups /\ n.lowest # {}
      /\ Cardinality(S) <= minCheckSize
      /\ n.changed \/ \E g \in T : g \in n.news
      /\ IsCut(n.fanin, Root, n.gates, T) /\ n.lowest \intersect U = {}
  BY CutsAre
<1>3. T \in SUBSET n.gates
  BY <1>1, <1>2
<1>4. t \in [Gate -> Flags]
  BY DEF FlagsOf, Flags
<1>5. \A g \in Gate : t[g] = IF g \notin n.gates THEN "EMPTY" ELSE IF g \in n.dups THEN "DUP"
                             ELSE IF g \in S THEN "CUT" ELSE IF g \in L THEN "BELOW" ELSE "ABOVE"
  BY DEF FlagsOf
<1> HIDE DEF n, U, L, t
<1>6. Parts(n, U, T, L)
  <2>1. Parts(n, Above(n.fanin, Root, n.gates, T), T, Below(n.fanin, n.gates, T))
    BY <1>1, <1>2, <1>3, CutParts
  <2>2. QED
    BY <2>1 DEF U, L
<1>7. \A g \in n.gates : g \in Gate /\ (t[g] = "ABOVE" <=> g \in U) /\ (t[g] = "BELOW" <=> g \in L)
  BY <1>1, <1>2, <1>5, <1>6 DEF Parts
<1>8. \A g \in n.gates : t[g] # "ABOVE" => g \in T \union L
  BY <1>6, <1>7 DEF Parts
<1>9. FlagsRight(n, t)
  <2>1. \A g \in n.lowest : t[g] # "ABOVE"
    BY <1>1, <1>2, <1>7
  <2>2. t[Root] \in {"ABOVE", "CUT"}
    <3>1. Root \notin L /\ Root \in Gate
      BY <1>1, <1>6 DEF Parts
    <3>2. QED
      BY <1>1, <1>5, <3>1
  <2>3. \A g \in Gate : (t[g] = "EMPTY" <=> g \notin n.gates) /\ (t[g] = "DUP" <=> g \in n.dups)
    BY <1>1, <1>5
  <2>4. QED
    BY <1>4, <2>1, <2>2, <2>3 DEF FlagsRight
<1>10. Split(n, t)
  <2>1. SUFFICES ASSUME NEW g \in n.gates, t[g] = "ABOVE", NEW h \in Reads(n, g) PROVE t[h] # "BELOW"
    BY DEF Split
  <2>2. h \in n.gates /\ g \in U
    BY <1>7, <2>1 DEF Reads
  <2>3. h \in U \union T
    BY <1>6, <2>1, <2>2 DEF Parts
  <2>4. h \notin L
    BY <1>6, <2>3 DEF Parts
  <2>5. QED
    BY <1>7, <2>2, <2>4
<1>11. Closed(n, t)
  <2>1. SUFFICES ASSUME NEW g \in n.gates, t[g] # "ABOVE", NEW h \in Reads(n, g) PROVE t[h] = "BELOW"
    BY DEF Closed
  <2>2. h \in n.gates /\ g \in T \union L
    BY <1>8, <2>1 DEF Reads
  <2>3. h \in L
    BY <1>6, <2>1, <2>2 DEF Parts
  <2>4. QED
    BY <1>7, <2>2, <2>3
<1>12. S = {g \in Gate : t[g] = "CUT"} /\ \A g \in Gate : t[g] # "TAKEN"
  BY <1>1, <1>2, <1>5
<1>13. n.changed \/ \E g \in n.news : t[g] \in OnCut
  <2>1. \A g \in T : t[g] \in OnCut
    BY <1>1, <1>2, <1>5 DEF OnCut
  <2>2. QED
    BY <1>2, <2>1
<1>14. TargetRight(n, S, t)
  BY <1>9, <1>10, <1>11, <1>12, <1>13 DEF TargetRight, IsLegal
<1>15. QED
  BY <1>1, <1>2, <1>4, <1>14 DEF n, t

(* A cut from which the search, which moves it up only, can come to t.     *)
UpTo(n, f, t) ==
  \A g \in n.gates : /\ f[g] = "BELOW" => t[g] = "BELOW"
                     /\ f[g] = "CUT" => t[g] # "ABOVE"
                     /\ f[g] \in {"TAKEN", "DUP"} => t[g] \in OnCut

(* A flag may be set to what the target allows.                            *)
LEMMA UpToPut ==
  ASSUME NEW n, NetRight(n), NEW f, FlagsRight(n, f), NEW t, UpTo(n, f, t), NEW g \in n.gates, NEW x,
         x = "BELOW" => t[g] = "BELOW", x = "CUT" => t[g] # "ABOVE",
         x \in {"TAKEN", "DUP"} => t[g] \in OnCut
  PROVE  UpTo(n, Put(f, g, x), t)
<1>1. f \in [Gate -> Flags] /\ n.gates \subseteq Gate
  BY DEF NetRight, FlagsRight
<1>2. \A h \in n.gates : Put(f, g, x)[h] = IF h = g THEN x ELSE f[h]
  BY <1>1 DEF Put
<1>3. QED
  BY <1>2 DEF UpTo

(* New gates that are on the cut are counted.                              *)
LEMMA CountsAll ==
  ASSUME NEW n, NetRight(n), NEW f, NEW A \in SUBSET n.news, \A g \in A : f[g] \in OnCut
  PROVE  /\ IsFiniteSet(A) /\ Cardinality(A) \in Nat
         /\ Count(n, f) >= IF n.changed THEN Cardinality(A) + 1 ELSE Cardinality(A)
<1> DEFINE B == OffCut(n, f)
<1>1. /\ IsFiniteSet(n.news) /\ IsFiniteSet(B) /\ Cardinality(B) \in Nat /\ Cardinality(n.news) \in Nat
      /\ Cardinality(n.news) <= N
  BY NewsFinite
<1>2. IsFiniteSet(A) /\ Cardinality(A) \in Nat
  BY <1>1, FS_Subset, FS_CardinalityType
<1>3. A \intersect B = {} /\ A \union B \subseteq n.news
  BY DEF OffCut
<1> HIDE DEF B
<1>4. Cardinality(A \union B) = Cardinality(A) + Cardinality(B)
  <2>1. Cardinality(A \union B) = Cardinality(A) + Cardinality(B) - Cardinality(A \intersect B)
    BY <1>1, <1>2, FS_Union
  <2>2. Cardinality(A \intersect B) = 0
    BY <1>3, FS_EmptySet
  <2>3. QED
    BY <1>1, <1>2, <2>1, <2>2
<1>5. Cardinality(A \union B) <= Cardinality(n.news)
  BY <1>1, <1>3, FS_Subset
<1>6. Count(n, f) = Total(n) - Cardinality(B)
  BY DEF Count, B
<1>7. N \in Nat /\ Unlimited \in Nat /\ Unlimited > N
  BY CutEnumAssumption
<1>8. PICK a \in Nat, b \in Nat, k \in Nat :
        a = Cardinality(A) /\ b = Cardinality(B) /\ k = Cardinality(n.news)
  BY <1>1, <1>2
<1>9. a + b <= k /\ k <= N
  BY <1>1, <1>4, <1>5, <1>8
<1>10. CASE n.changed
  <2>1. Count(n, f) = Unlimited - b
    BY <1>6, <1>8, <1>10 DEF Total
  <2>2. Count(n, f) >= a + 1
    BY <1>7, <1>8, <1>9, <2>1
  <2>3. QED
    BY <1>2, <1>8, <1>10, <2>2
<1>11. CASE ~n.changed
  <2>1. Count(n, f) = k - b
    BY <1>6, <1>8, <1>11 DEF Total
  <2>2. Count(n, f) >= a
    BY <1>8, <1>9, <2>1
  <2>3. QED
    BY <1>2, <1>8, <1>11, <2>2
<1>12. QED
  BY <1>10, <1>11

(* A new gate of the cut to come to is on the cut.                         *)
LEMMA NewStays ==
  ASSUME NEW n, NetRight(n), NEW f, FlagsRight(n, f), NEW t, UpTo(n, f, t),
         NEW g \in n.news, t[g] \in OnCut
  PROVE  f[g] \in OnCut
<1>1. g \in n.gates
  BY DEF NetRight
<1>2. f[g] \in {"ABOVE", "BELOW", "CUT", "TAKEN", "DUP"}
  BY <1>1, FlagOf
<1>3. f[g] # "ABOVE"
  BY <1>1, AboveIsInner
<1>4. f[g] # "BELOW"
  BY <1>1 DEF UpTo, OnCut
<1>5. QED
  BY <1>2, <1>3, <1>4 DEF OnCut

(* So the count does not come to zero, and not to one while another new    *)
(* gate is to move below the cut.                                          *)
LEMMA CountsOne ==
  ASSUME NEW n, NetRight(n), NEW f, FlagsRight(n, f), NEW S, NEW t, TargetRight(n, S, t), UpTo(n, f, t)
  PROVE  Count(n, f) >= 1
<1>1. CASE n.changed
  <2>1. Cardinality({}) = 0
    BY FS_EmptySet
  <2>2. Count(n, f) >= Cardinality({}) + 1
    BY <1>1, CountsAll
  <2>3. QED
    BY <2>1, <2>2
<1>2. CASE ~n.changed
  <2>1. PICK h \in n.news : t[h] \in OnCut
    BY <1>2 DEF TargetRight
  <2>2. f[h] \in OnCut
    BY <2>1, NewStays
  <2>3. {h} \in SUBSET n.news /\ \A x \in {h} : f[x] \in OnCut
    BY <2>2
  <2>4. Count(n, f) >= Cardinality({h})
    BY <1>2, <2>3, CountsAll
  <2>5. Cardinality({h}) = 1
    BY FS_Singleton
  <2>6. QED
    BY <2>4, <2>5
<1>3. QED
  BY <1>1, <1>2

(* The last new gate is not popped, on the way to a cut that has one above *)
(* it.                                                                     *)
LEMMA CountsTwo ==
  ASSUME NEW n, NetRight(n), NEW f, FlagsRight(n, f), NEW S, NEW t, TargetRight(n, S, t), UpTo(n, f, t),
         NEW g \in n.news, f[g] \in OnCut, t[g] = "BELOW"
  PROVE  Count(n, f) >= 2
<1>1. CASE n.changed
  <2>1. {g} \in SUBSET n.news /\ \A x \in {g} : f[x] \in OnCut
    OBVIOUS
  <2>2. Count(n, f) >= Cardinality({g}) + 1
    BY <1>1, <2>1, CountsAll
  <2>3. Cardinality({g}) = 1
    BY FS_Singleton
  <2>4. QED
    BY <2>2, <2>3
<1>2. CASE ~n.changed
  <2>1. PICK h \in n.news : t[h] \in OnCut
    BY <1>2 DEF TargetRight
  <2>2. f[h] \in OnCut /\ h # g
    BY <2>1, NewStays DEF OnCut
  <2>3. {g, h} \in SUBSET n.news /\ \A x \in {g, h} : f[x] \in OnCut
    BY <2>2
  <2>4. Count(n, f) >= Cardinality({g, h})
    BY <1>2, <2>3, CountsAll
  <2>5. Cardinality({g, h}) = 2
    <3>1. IsFiniteSet({g}) /\ Cardinality({g}) = 1 /\ h \notin {g} /\ {g, h} = {g} \union {h}
      BY <2>2, FS_Singleton
    <3>2. Cardinality({g} \union {h}) = Cardinality({g}) + 1
      BY <3>1, FS_AddElement
    <3>3. QED
      BY <3>1, <3>2
  <2>6. QED
    BY <2>4, <2>5
<1>3. QED
  BY <1>1, <1>2

(* What a gate at or below the cut to come to reads is below that cut;     *)
(* what reads a gate below it is not above it.                             *)
LEMMA ReadsBelow ==
  ASSUME NEW n, NEW t, IsLegal(n, t), NEW g \in n.gates
  PROVE  /\ t[g] # "ABOVE" => \A h \in Reads(n, g) : t[h] = "BELOW"
         /\ \A h \in n.gates : t[g] = "BELOW" /\ g \in Reads(n, h) => t[h] # "ABOVE"
BY DEF IsLegal, Split, Closed

-----------------------------------------------------------------------------
(* A cut that is not found yet is one that the search can still come to,   *)
(* from the cut that it has or from that of a call that has yet to pop its *)
(* gate.                                                                   *)
Ahead(t) ==
  /\ pc \in {"enumerate", "pop", "legalize", "decide"} /\ UpTo(Net, flag, t)
  /\ \A g \in Range(spread) \intersect Net.gates : t[g] # "ABOVE"
  /\ \A g \in Range(waiting) \intersect Net.gates : t[g] = "BELOW"
Later(t) ==
  \E j \in 1 .. Len(stack) :
    ~stack[j].popped /\ UpTo(Net, stack[j].before.flag, t) /\ t[stack[j].gate] = "BELOW"
Comes(t) == Ahead(t) \/ Later(t)

CallsStay ==
  \A j \in 1 .. Len(stack) : ~stack[j].popped =>
    /\ j \in 1 .. Len(stack') /\ ~stack'[j].popped
    /\ stack'[j].gate = stack[j].gate /\ stack'[j].before = stack[j].before

(* A cut that a call comes to later stays so, while the calls do.          *)
LEMMA LaterStays ==
  ASSUME CallsStay, Net' = Net, NEW t, Later(t)
  PROVE  Later(t)'
<1>1. PICK j \in 1 .. Len(stack) :
        ~stack[j].popped /\ UpTo(Net, stack[j].before.flag, t) /\ t[stack[j].gate] = "BELOW"
  BY DEF Later
<1>2. /\ j \in 1 .. Len(stack') /\ ~stack'[j].popped
      /\ stack'[j].gate = stack[j].gate /\ stack'[j].before = stack[j].before
  BY <1>1 DEF CallsStay
<1>3. UpTo(Net', stack'[j].before.flag, t) /\ t[stack'[j].gate] = "BELOW"
  BY <1>1, <1>2
<1>4. QED
  BY <1>2, <1>3 DEF Later

(* The result of a legalization keeps the calls.                           *)
LEMMA ResultStays ==
  ASSUME stack \in Seq(Call), stack' = Result \/ stack' = stack
  PROVE  CallsStay
<1>1. CASE stack' = stack
  BY <1>1 DEF CallsStay
<1>2. CASE stack' = Result /\ stack = <<>>
  BY <1>2 DEF Result, CallsStay
<1>3. CASE stack' = Result /\ stack # <<>>
  <2> DEFINE k == Len(stack)
             c == [stack[k] EXCEPT !.removed = removed']
  <2>1. k \in Nat /\ k \in 1 .. k /\ stack \in [1 .. k -> Call]
    BY <1>3
  <2>2. stack[k] \in Call /\ stack' = [stack EXCEPT ![k] = c]
    BY <1>3, <2>1 DEF Result
  <2>3. c.gate = stack[k].gate /\ c.popped = stack[k].popped /\ c.before = stack[k].before
    BY <2>2 DEF Call
  <2> HIDE DEF c, k
  <2>4. DOMAIN stack' = 1 .. k /\ stack'[k] = c /\ \A j \in 1 .. k : j # k => stack'[j] = stack[j]
    BY <2>1, <2>2
  <2>5. Len(stack') = k
    <3>1. stack' \in [1 .. k -> Call \union {c}]
      BY <2>1, <2>2
    <3>2. stack' \in Seq(Call \union {c})
      BY <2>1, <3>1
    <3>3. QED
      BY <2>1, <2>4, <3>2
  <2>6. \A j \in 1 .. k : /\ stack'[j].popped = stack[j].popped
                          /\ stack'[j].gate = stack[j].gate /\ stack'[j].before = stack[j].before
    BY <2>3, <2>4
  <2>7. QED
    BY <2>5, <2>6 DEF CallsStay, k
<1>4. QED
  BY <1>1, <1>2, <1>3

-----------------------------------------------------------------------------
(* Each step comes to the same cuts.                                       *)
LEMMA EnumerateCutsComes ==
  ASSUME IInv, EnumerateCuts, lowest # {}, NEW S, NEW t, TargetRight(Net, S, t), Comes(t)
  PROVE  Comes(t)'
<1>1. /\ pc = "enumerate" /\ pc' = (IF active = {} THEN "done" ELSE "pop")
      /\ UNCHANGED inputs /\ flag' = flag /\ UNCHANGED <<waiting, spread, stack>>
  BY DEF EnumerateCuts, cut
<1>2. InputsRight /\ PhaseRight /\ CutRight /\ StackRight
  BY DEF IInv
<1>3. Net' = Net
  BY <1>1, <1>2, NetKept
<1>4. active # {}
  <2>1. flag = LowestFlags(Net) /\ active = {g \in Gate : flag[g] = "CUT"} /\ Net.lowest = lowest
    BY <1>1, <1>2 DEF PhaseRight, CutRight, Net
  <2>2. Net.lowest \subseteq Net.gates /\ Net.gates \subseteq Gate /\ Net.lowest \intersect Net.dups = {}
    BY <1>2 DEF InputsRight, NetRight
  <2>3. \A g \in Net.lowest : g \in Gate /\ flag[g] = "CUT"
    BY <2>1, <2>2 DEF LowestFlags
  <2>4. QED
    BY <2>1, <2>3
<1>5. CASE Ahead(t)
  <2>1. Ahead(t)'
    BY <1>1, <1>3, <1>4, <1>5 DEF Ahead
  <2>2. QED
    BY <2>1 DEF Comes
<1>6. CASE Later(t)
  <2>1. CallsStay
    BY <1>1 DEF CallsStay
  <2>2. QED
    BY <1>3, <1>6, <2>1, LaterStays DEF Comes
<1>7. QED
  BY <1>5, <1>6 DEF Comes

(* A gate that comes onto the cut is on the target or below it.            *)
LEMMA CoverFanoutComes ==
  ASSUME IInv, CoverFanout, NEW S, NEW t, TargetRight(Net, S, t), Comes(t)
  PROVE  Comes(t)'
<1>1. /\ pc \in {"pop", "legalize"} /\ spread # <<>>
      /\ UNCHANGED <<inputs, waiting, stack, pc>>
  BY DEF CoverFanout
<1>2. /\ InputsRight /\ NetRight(Net) /\ FlagsRight(Net, flag) /\ Net.gates = reached /\ reached \subseteq Gate
      /\ spread \in Seq(Gate)
  BY <1>1, LegalizeFinds
<1>3. Net' = Net
  BY <1>1, <1>2, NetKept
<1>4. IsLegal(Net, t)
  BY DEF TargetRight
<1>5. PICK g \in Gate : g = Head(spread)
  BY <1>1, <1>2, RangeTail
<1>6. Tail(spread) \in Seq(Gate) /\ Range(spread) = {g} \union Range(Tail(spread))
  BY <1>1, <1>2, <1>5, RangeTail
<1>7. CASE Ahead(t)
  <2>1. /\ UpTo(Net, flag, t)
        /\ \A h \in Range(spread) \intersect Net.gates : t[h] # "ABOVE"
        /\ \A h \in Range(waiting) \intersect Net.gates : t[h] = "BELOW"
    BY <1>7 DEF Ahead
  <2>2. g \in Net.gates => t[g] # "ABOVE"
    BY <1>6, <2>1
  <2>3. UpTo(Net, flag', t) /\ \A h \in Range(spread') \intersect Net.gates : t[h] # "ABOVE"
    <3>1. CASE g \in reached /\ flag[g] = "BELOW" /\ ~covered[g]
      <4>1. flag' = flag /\ spread' = Tail(spread) \o fanout[g]
        BY <1>5, <3>1 DEF CoverFanout
      <4>2. /\ fanout[g] \in Seq(Gate)
            /\ \A h \in Net.gates : g \in Net.gates => (h \in Range(fanout[g]) <=> g \in Reads(Net, h))
        BY <1>2, NetLists
      <4>3. Range(spread') = Range(Tail(spread)) \union Range(fanout[g])
        <5>1. PICK p \in Seq(Gate), q \in Seq(Gate) : p = Tail(spread) /\ q = fanout[g]
          BY <1>6, <4>2
        <5>2. Range(p \o q) = Range(p) \union Range(q)
          BY RangeConcat
        <5>3. QED
          BY <4>1, <5>1, <5>2
      <4>4. g \in Net.gates /\ t[g] = "BELOW"
        BY <1>2, <2>1, <3>1 DEF UpTo
      <4>5. \A h \in Range(fanout[g]) \intersect Net.gates : t[h] # "ABOVE"
        BY <1>4, <4>2, <4>4, ReadsBelow
      <4>6. QED
        BY <1>6, <2>1, <4>1, <4>3, <4>5
    <3>2. CASE ~(g \in reached /\ flag[g] = "BELOW" /\ ~covered[g])
      <4>1. /\ spread' = Tail(spread)
            /\ flag' = flag \/ (g \in reached /\ flag' = Put(flag, g, "CUT"))
        BY <1>5, <3>2 DEF CoverFanout, Put
      <4>2. ASSUME g \in reached PROVE UpTo(Net, Put(flag, g, "CUT"), t)
        BY <1>2, <2>1, <2>2, <4>2, UpToPut
      <4>3. QED
        BY <1>6, <2>1, <4>1, <4>2
    <3>3. QED
      BY <3>1, <3>2
  <2>4. Ahead(t)'
    BY <1>1, <1>3, <2>1, <2>3 DEF Ahead
  <2>5. QED
    BY <2>4 DEF Comes
<1>8. CASE Later(t)
  <2>1. CallsStay
    BY <1>1 DEF CallsStay
  <2>2. QED
    BY <1>3, <1>8, <2>1, LaterStays DEF Comes
<1>9. QED
  BY <1>7, <1>8 DEF Comes

(* A cut without new gates comes to no target.                             *)
LEMMA LegalizeCutComes ==
  ASSUME IInv, LegalizeCut, NEW S, NEW t, TargetRight(Net, S, t), Comes(t)
  PROVE  Comes(t)'
<1>1. /\ pc = "pop" /\ flag' = flag /\ spread' = spread
      /\ UNCHANGED inputs /\ (stack' = Result \/ stack' = stack)
      /\ numNew # 0 => pc' = "legalize" /\ waiting' = waiting
  BY DEF LegalizeCut, cut, Fail
<1>2. /\ InputsRight /\ NetRight(Net) /\ FlagsRight(Net, flag) /\ CutRight /\ StackRight
  BY <1>1, LegalizeFinds
<1>3. Net' = Net
  BY <1>1, <1>2, NetKept
<1>4. CASE Ahead(t)
  <2>1. Count(Net, flag) >= 1 /\ Count(Net, flag) \in Nat
    BY <1>2, <1>4, CountsOne, NewsFinite DEF Ahead
  <2>2. numNew # 0
    BY <1>2, <2>1 DEF CutRight
  <2>3. Ahead(t)'
    BY <1>1, <1>3, <1>4, <2>2 DEF Ahead
  <2>4. QED
    BY <2>3 DEF Comes
<1>5. CASE Later(t)
  <2>1. CallsStay
    BY <1>1, <1>2, ResultStays DEF StackRight, CallsRight
  <2>2. QED
    BY <1>3, <1>5, <2>1, LaterStays DEF Comes
<1>6. QED
  BY <1>4, <1>5 DEF Comes

(* The next gate to check.                                                 *)
LEMMA CheckNextComes ==
  ASSUME IInv, CheckNext, NEW S, NEW t, TargetRight(Net, S, t), Comes(t)
  PROVE  Comes(t)'
<1>1. /\ pc = "legalize" /\ queue # <<>> /\ flag' = flag
      /\ UNCHANGED <<inputs, spread, stack, pc>>
  BY DEF CheckNext, cut
<1>2. /\ InputsRight /\ NetRight(Net) /\ FlagsRight(Net, flag) /\ Net.gates = reached /\ reached \subseteq Gate
      /\ queue \in Seq(Gate)
      /\ Legalizing(Net, Base, flag, covered, Range(queue), Range(waiting), Range(spread))
  BY <1>1, LegalizeFinds
<1>3. Net' = Net
  BY <1>1, <1>2, NetKept
<1>4. IsLegal(Net, t)
  BY DEF TargetRight
<1>5. PICK g \in Gate : g = Head(queue) /\ g \in Range(queue)
  BY <1>1, <1>2, RangeTail
<1>6. waiting' = IF g \in reached /\ flag[g] # "BELOW" THEN fanin[g] ELSE <<>>
  BY <1>5 DEF CheckNext
<1>7. CASE Ahead(t)
  <2>1. \A h \in Range(waiting') \intersect Net.gates : t[h] = "BELOW"
    <3>1. CASE g \in reached /\ flag[g] # "BELOW"
      <4>1. flag[g] # "ABOVE"
        BY <1>2, <1>5 DEF Legalizing
      <4>2. flag[g] \in {"CUT", "TAKEN", "DUP"}
        BY <1>2, <3>1, <4>1, FlagOf
      <4>3. t[g] # "ABOVE" /\ g \in Net.gates
        BY <1>2, <1>7, <3>1, <4>2 DEF Ahead, UpTo, OnCut
      <4>4. \A h \in Reads(Net, g) : t[h] = "BELOW"
        BY <1>4, <4>3, ReadsBelow
      <4>5. Range(waiting') \intersect Net.gates = Reads(Net, g)
        BY <1>2, <1>6, <3>1, NetLists
      <4>6. QED
        BY <4>4, <4>5
    <3>2. CASE ~(g \in reached /\ flag[g] # "BELOW")
      BY <1>6, <3>2, RangeEmpty
    <3>3. QED
      BY <3>1, <3>2
  <2>2. Ahead(t)'
    BY <1>1, <1>3, <1>7, <2>1 DEF Ahead
  <2>3. QED
    BY <2>2 DEF Comes
<1>8. CASE Later(t)
  <2>1. CallsStay
    BY <1>1 DEF CallsStay
  <2>2. QED
    BY <1>3, <1>8, <2>1, LaterStays DEF Comes
<1>9. QED
  BY <1>7, <1>8 DEF Comes

(* A gate that is below the cut already.                                   *)
LEMMA IsBelowComes ==
  ASSUME IInv, NEW g \in Gate, IsBelow(g), NEW S, NEW t, TargetRight(Net, S, t), Comes(t)
  PROVE  Comes(t)'
<1>1. /\ pc = "legalize" /\ waiting # <<>> /\ waiting' = Tail(waiting) /\ flag' = flag
      /\ UNCHANGED <<inputs, spread, stack, pc>>
  BY DEF IsBelow, Checked, cut
<1>2. InputsRight /\ waiting \in Seq(Gate)
  BY <1>1, LegalizeFinds
<1>3. Net' = Net /\ Range(Tail(waiting)) \subseteq Range(waiting)
  BY <1>1, <1>2, NetKept, RangeTail
<1>4. CASE Ahead(t)
  <2>1. Ahead(t)'
    BY <1>1, <1>3, <1>4 DEF Ahead
  <2>2. QED
    BY <2>1 DEF Comes
<1>5. CASE Later(t)
  <2>1. CallsStay
    BY <1>1 DEF CallsStay
  <2>2. QED
    BY <1>3, <1>5, <2>1, LaterStays DEF Comes
<1>6. QED
  BY <1>4, <1>5 DEF Comes

(* What is checked next, when g moves below the cut.                       *)
LEMMA FaninsComeNext ==
  ASSUME InputsRight, waiting \in Seq(Gate), waiting # <<>>, NEW g \in Gate, g = Head(waiting), g \in reached,
         NEW t, IsLegal(Net, t), \A h \in Range(waiting) \intersect Net.gates : t[h] = "BELOW",
         waiting' = fanin[g] \o Tail(waiting)
  PROVE  t[g] = "BELOW" /\ \A h \in Range(waiting') \intersect Net.gates : t[h] = "BELOW"
<1>1. /\ fanin[g] \in Seq(Gate) /\ Range(fanin[g]) \intersect Net.gates = Reads(Net, g) /\ g \in Net.gates
  BY NetLists
<1>2. Tail(waiting) \in Seq(Gate) /\ Range(waiting) = {g} \union Range(Tail(waiting))
  BY RangeTail
<1>3. Range(waiting') = Range(fanin[g]) \union Range(Tail(waiting))
  <2>1. PICK p \in Seq(Gate), q \in Seq(Gate) : p = fanin[g] /\ q = Tail(waiting)
    BY <1>1, <1>2
  <2>2. Range(p \o q) = Range(p) \union Range(q)
    BY RangeConcat
  <2>3. QED
    BY <2>1, <2>2
<1>4. t[g] = "BELOW"
  BY <1>1, <1>2
<1>5. \A h \in Reads(Net, g) : t[h] = "BELOW"
  BY <1>1, <1>4, ReadsBelow
<1>6. QED
  BY <1>1, <1>2, <1>3, <1>4, <1>5

(* A gate below one of the cut is below the target too.                    *)
LEMMA MoveBelowComes ==
  ASSUME IInv, NEW g \in Gate, MoveBelow(g), NEW S, NEW t, TargetRight(Net, S, t), Comes(t)
  PROVE  Comes(t)'
<1>1. /\ pc = "legalize" /\ waiting # <<>> /\ g = Head(waiting) /\ g \in reached
      /\ UNCHANGED <<inputs, spread, stack, pc>>
      /\ flag' = Put(flag, g, "BELOW") /\ waiting' = fanin[g] \o Tail(waiting)
  BY DEF MoveBelow, Checked, Put
<1>2. /\ InputsRight /\ NetRight(Net) /\ FlagsRight(Net, flag) /\ Net.gates = reached /\ waiting \in Seq(Gate)
  BY <1>1, LegalizeFinds
<1>3. Net' = Net
  BY <1>1, <1>2, NetKept
<1>4. IsLegal(Net, t)
  BY DEF TargetRight
<1>5. CASE Ahead(t)
  <2>1. t[g] = "BELOW" /\ \A h \in Range(waiting') \intersect Net.gates : t[h] = "BELOW"
    BY <1>1, <1>2, <1>4, <1>5, FaninsComeNext DEF Ahead
  <2>2. UpTo(Net, Put(flag, g, "BELOW"), t)
    BY <1>1, <1>2, <1>5, <2>1, UpToPut DEF Ahead
  <2>3. Ahead(t)'
    BY <1>1, <1>3, <1>5, <2>1, <2>2 DEF Ahead
  <2>4. QED
    BY <2>3 DEF Comes
<1>6. CASE Later(t)
  <2>1. CallsStay
    BY <1>1 DEF CallsStay
  <2>2. QED
    BY <1>3, <1>6, <2>1, LaterStays DEF Comes
<1>7. QED
  BY <1>5, <1>6 DEF Comes

(* So is one that is removed.                                              *)
LEMMA RemoveFromCutComes ==
  ASSUME IInv, NEW g \in Gate, RemoveFromCut(g), NEW S, NEW t, TargetRight(Net, S, t), Comes(t)
  PROVE  Comes(t)'
<1>1. /\ pc = "legalize" /\ waiting # <<>> /\ g = Head(waiting) /\ g \in reached
      /\ UNCHANGED <<inputs, stack, pc>> /\ spread' = fanout[g]
      /\ flag' = Put(flag, g, "BELOW") /\ waiting' = fanin[g] \o Tail(waiting)
  BY DEF RemoveFromCut, Checked, PopUp, Put
<1>2. /\ InputsRight /\ NetRight(Net) /\ FlagsRight(Net, flag) /\ Net.gates = reached /\ waiting \in Seq(Gate)
  BY <1>1, LegalizeFinds
<1>3. Net' = Net
  BY <1>1, <1>2, NetKept
<1>4. IsLegal(Net, t)
  BY DEF TargetRight
<1>5. CASE Ahead(t)
  <2>1. t[g] = "BELOW" /\ \A h \in Range(waiting') \intersect Net.gates : t[h] = "BELOW"
    BY <1>1, <1>2, <1>4, <1>5, FaninsComeNext DEF Ahead
  <2>2. UpTo(Net, Put(flag, g, "BELOW"), t)
    BY <1>1, <1>2, <1>5, <2>1, UpToPut DEF Ahead
  <2>3. \A h \in Range(fanout[g]) \intersect Net.gates : t[h] # "ABOVE"
    <3>1. \A h \in Net.gates : g \in Net.gates => (h \in Range(fanout[g]) <=> g \in Reads(Net, h))
      BY <1>2, NetLists
    <3>2. QED
      BY <1>1, <1>2, <1>4, <2>1, <3>1, ReadsBelow
  <2>4. Ahead(t)'
    BY <1>1, <1>3, <1>5, <2>1, <2>2, <2>3 DEF Ahead
  <2>5. QED
    BY <2>4 DEF Comes
<1>6. CASE Later(t)
  <2>1. CallsStay
    BY <1>1 DEF CallsStay
  <2>2. QED
    BY <1>3, <1>6, <2>1, LaterStays DEF Comes
<1>7. QED
  BY <1>5, <1>6 DEF Comes

(* A gate that cannot be removed would be on each target, with one above   *)
(* it.                                                                     *)
LEMMA CannotRemoveComes ==
  ASSUME IInv, NEW g \in Gate, CannotRemove(g), NEW S, NEW t, TargetRight(Net, S, t), Comes(t)
  PROVE  Comes(t)'
<1>1. /\ pc = "legalize" /\ waiting # <<>> /\ g = Head(waiting) /\ g \in reached /\ Stays(g)
      /\ UNCHANGED inputs /\ stack' = Result
  BY DEF CannotRemove, Checked, Fail
<1>2. /\ InputsRight /\ NetRight(Net) /\ FlagsRight(Net, flag) /\ CutRight /\ StackRight
      /\ Net.gates = reached /\ waiting \in Seq(Gate)
  BY <1>1, LegalizeFinds
<1>3. Net' = Net
  BY <1>1, <1>2, NetKept
<1>4. ~Ahead(t)
  <2>1. SUFFICES ASSUME Ahead(t) PROVE FALSE
    OBVIOUS
  <2>2. g \in Range(waiting) /\ g \in Net.gates
    BY <1>1, <1>2, RangeTail
  <2>3. t[g] = "BELOW" /\ UpTo(Net, flag, t)
    BY <2>1, <2>2 DEF Ahead
  <2>4. flag[g] \notin {"TAKEN", "DUP"}
    BY <2>2, <2>3 DEF UpTo, OnCut
  <2>5. flag[g] = "CUT" /\ isNew[g] /\ numNew = 1
    BY <1>1, <2>4 DEF Stays, LastNew
  <2>6. g \in Net.news /\ flag[g] \in OnCut
    BY <1>2, <2>5, NetLists DEF OnCut
  <2>7. Count(Net, flag) >= 2
    BY <1>2, <2>3, <2>6, CountsTwo
  <2>8. QED
    BY <1>2, <2>5, <2>7 DEF CutRight
<1>5. Later(t)
  BY <1>4 DEF Comes
<1>6. CallsStay
  BY <1>1, <1>2, ResultStays DEF StackRight, CallsRight
<1>7. QED
  BY <1>3, <1>5, <1>6, LaterStays DEF Comes

(* A legal cut is one to decide on.                                        *)
LEMMA LegalComes ==
  ASSUME IInv, Legal, NEW S, NEW t, TargetRight(Net, S, t), Comes(t)
  PROVE  Comes(t)'
<1>1. /\ pc = "legalize" /\ flag' = flag /\ UNCHANGED inputs /\ UNCHANGED <<spread, waiting>>
      /\ stack' = Result /\ pc' = "decide"
  BY DEF Legal, cut
<1>2. InputsRight /\ StackRight
  BY <1>1, LegalizeFinds
<1>3. Net' = Net
  BY <1>1, <1>2, NetKept
<1>4. CASE Ahead(t)
  <2>1. Ahead(t)'
    BY <1>1, <1>3, <1>4 DEF Ahead
  <2>2. QED
    BY <2>1 DEF Comes
<1>5. CASE Later(t)
  <2>1. CallsStay
    BY <1>1, <1>2, ResultStays DEF StackRight, CallsRight
  <2>2. QED
    BY <1>3, <1>5, <2>1, LaterStays DEF Comes
<1>6. QED
  BY <1>4, <1>5 DEF Comes

(* A cut with as many gates as can be taken is found when they are taken:  *)
(* until then, one of its gates is on the cut or above it.                 *)
LEMMA NotTooLong ==
  ASSUME NEW n, NetRight(n), NEW f, IsLegal(n, f), NEW t, IsLegal(n, t), UpTo(n, f, t),
         \A g \in n.gates : t[g] = "CUT" => f[g] = "TAKEN", \A g \in n.gates : t[g] # "TAKEN",
         NEW c \in n.gates, f[c] = "CUT"
  PROVE  FALSE
<1>1. /\ FlagsRight(n, f) /\ Split(n, f) /\ Closed(n, f) /\ FlagsRight(n, t) /\ Split(n, t) /\ Closed(n, t)
      /\ n.gates \subseteq Gate /\ Root \in n.gates
  BY DEF IsLegal, NetRight
<1> DEFINE D == {g \in n.gates : t[g] = "BELOW" /\ f[g] \in {"CUT", "ABOVE"}}
<1>2. c \in D
  <2>1. t[c] # "ABOVE" /\ t[c] # "CUT" /\ t[c] # "TAKEN" /\ t[c] # "DUP"
    BY <1>1, FlagOf DEF UpTo
  <2>2. t[c] \in {"ABOVE", "BELOW", "CUT", "TAKEN", "DUP"}
    BY <1>1, FlagOf
  <2>3. QED
    BY <2>1, <2>2
<1>3. D \in SUBSET Gate /\ \A g \in D : g \in n.gates /\ t[g] = "BELOW" /\ f[g] \in {"CUT", "ABOVE"}
  BY <1>1
<1>4. \A g \in n.gates : t[g] = "BELOW" /\ f[g] = "ABOVE" => g \in D
  OBVIOUS
<1> HIDE DEF D
<1>5. PICK g \in D : \A h \in D : h <= g
  BY <1>2, <1>3, LargestGate
<1>6. g \in n.gates \ {Root}
  BY <1>1, <1>3 DEF FlagsRight
<1>7. PICK h \in Inner(n) : g \in Reads(n, h)
  BY <1>6 DEF NetRight
<1>8. h \in n.gates
  BY DEF Inner
<1>9. g \in Gate /\ h \in Gate /\ g < h
  BY <1>7, <1>8, ReadsLess
<1>10. f[h] = "ABOVE"
  BY <1>1, <1>3, <1>7, <1>8 DEF Closed
<1>11. t[h] \notin {"ABOVE", "DUP", "CUT", "TAKEN"}
  <2>1. t[h] # "ABOVE"
    BY <1>1, <1>3, <1>7, <1>8 DEF Split
  <2>2. t[h] # "DUP"
    BY <1>1, <1>8, <1>10, FlagOf
  <2>3. QED
    BY <1>8, <1>10, <2>1, <2>2
<1>12. t[h] = "BELOW"
  BY <1>1, <1>8, <1>11, FlagOf
<1>13. h <= g
  BY <1>4, <1>5, <1>8, <1>10, <1>12
<1>14. QED
  BY <1>9, <1>13, GatesAreNat

(* A cut that is all taken has all gates of the cut to come to.            *)
LEMMA AllAreTaken ==
  ASSUME NEW n, NetRight(n), NEW f, IsLegal(n, f), NEW t, IsLegal(n, t), UpTo(n, f, t),
         \A g \in n.gates : f[g] # "CUT", \A g \in n.gates : t[g] # "TAKEN"
  PROVE  \A g \in n.gates : f[g] = "TAKEN" <=> t[g] = "CUT"
<1>1. /\ FlagsRight(n, f) /\ Split(n, f) /\ Closed(n, f) /\ FlagsRight(n, t) /\ Split(n, t) /\ Closed(n, t)
      /\ n.gates \subseteq Gate /\ Root \in n.gates
  BY DEF IsLegal, NetRight
<1>2. \A g \in n.gates : (f[g] = "DUP" <=> g \in n.dups) /\ (t[g] = "DUP" <=> g \in n.dups)
  BY <1>1, FlagOf
<1>3. ASSUME NEW g \in n.gates, f[g] = "TAKEN" PROVE t[g] = "CUT"
  BY <1>2, <1>3 DEF UpTo, OnCut
<1> DEFINE D == {g \in n.gates : f[g] = "ABOVE" /\ t[g] # "ABOVE"}
<1>4. D = {}
  <2>1. SUFFICES ASSUME D # {} PROVE FALSE
    OBVIOUS
  <2>2. D \in SUBSET Gate /\ \A g \in D : g \in n.gates /\ f[g] = "ABOVE" /\ t[g] # "ABOVE"
    BY <1>1
  <2>3. \A g \in n.gates : f[g] = "ABOVE" /\ t[g] # "ABOVE" => g \in D
    OBVIOUS
  <2> HIDE DEF D
  <2>4. PICK g \in D : \A h \in D : g <= h
    BY <2>1, <2>2, LeastGate
  <2>5. g \in n.gates /\ f[g] = "ABOVE" /\ t[g] # "ABOVE"
    BY <2>2
  <2>6. g \in Inner(n)
    BY <1>1, <2>5, AboveIsInner
  <2>7. PICK h : h \in Reads(n, g)
    BY <2>6, InnerReads
  <2>8. h \in n.gates /\ h \in Gate /\ g \in Gate /\ h < g
    BY <2>5, <2>7, ReadsLess
  <2>9. t[h] = "BELOW" /\ f[h] # "BELOW"
    BY <1>1, <2>5, <2>7 DEF Closed, Split
  <2>10. f[h] \notin {"TAKEN", "DUP"}
    BY <2>8, <2>9 DEF UpTo, OnCut
  <2>11. f[h] = "ABOVE"
    BY <1>1, <2>8, <2>9, <2>10, FlagOf
  <2>12. g <= h
    BY <2>3, <2>4, <2>8, <2>9, <2>11
  <2>13. QED
    BY <2>8, <2>12, GatesAreNat
<1>5. ASSUME NEW g \in n.gates, t[g] = "CUT" PROVE f[g] = "TAKEN"
  <2>1. f[g] # "ABOVE"
    BY <1>4, <1>5
  <2>2. f[g] # "BELOW"
    BY <1>5 DEF UpTo
  <2>3. f[g] # "DUP"
    BY <1>2, <1>5
  <2>4. QED
    BY <1>1, <2>1, <2>2, <2>3, FlagOf
<1>6. QED
  BY <1>3, <1>5

(* A call that may not take more gates has no target ahead.                *)
LEMMA TooLongComes ==
  ASSUME IInv, TooLong, NEW S, NEW t, TargetRight(Net, S, t), Cardinality(S) <= minCheckSize, Comes(t)
  PROVE  Comes(t)'
<1>1. pc = "decide" /\ UNCHANGED inputs /\ stack' = stack /\ Len(taken) >= minCheckSize
  BY DEF TooLong
<1>2. /\ InputsRight /\ CutRight /\ TakenRight /\ NetRight(Net) /\ IsLegal(Net, flag) /\ active # {}
      /\ active \subseteq Gate /\ active \subseteq reached /\ Net.gates = reached
  BY <1>1, DecideFinds
<1>3. Net' = Net
  BY <1>1, <1>2, NetKept
<1>4. /\ IsLegal(Net, t) /\ S = {g \in Gate : t[g] = "CUT"} /\ \A g \in Gate : t[g] # "TAKEN"
  BY DEF TargetRight
<1>5. ~Ahead(t)
  <2>1. SUFFICES ASSUME Ahead(t) PROVE FALSE
    OBVIOUS
  <2>2. UpTo(Net, flag, t)
    BY <2>1 DEF Ahead
  <2>3. /\ taken \in Seq(Gate) /\ IsInjective(taken) /\ Len(taken) <= minCheckSize
        /\ Range(taken) = {g \in Gate : flag[g] = "TAKEN"} /\ minCheckSize \in Nat /\ Len(taken) \in Nat
    BY <1>2 DEF TakenRight, InputsRight
  <2>4. Cardinality(Range(taken)) = Len(taken)
    BY <2>3, AsManyAsLong
  <2>5. FlagsRight(Net, flag) /\ FlagsRight(Net, t) /\ Net.gates \subseteq Gate
    BY <1>2, <1>4 DEF IsLegal, NetRight
  <2>6. Range(taken) \subseteq S
    <3>1. SUFFICES ASSUME NEW g \in Gate, flag[g] = "TAKEN" PROVE t[g] = "CUT"
      BY <1>4, <2>3
    <3>2. g \in Net.gates /\ g \notin Net.dups
      BY <2>5, <3>1 DEF FlagsRight
    <3>3. t[g] \in OnCut /\ t[g] # "DUP"
      BY <2>2, <2>5, <3>1, <3>2 DEF UpTo, FlagsRight
    <3>4. QED
      BY <1>4, <3>3 DEF OnCut
  <2>7. S \subseteq Gate /\ IsFiniteSet(S) /\ Cardinality(S) \in Nat
    BY <1>4, GatesAreNat, FS_Subset, FS_CardinalityType
  <2>8. Cardinality(Range(taken)) >= Cardinality(S)
    BY <1>1, <2>3, <2>4, <2>7
  <2>9. Range(taken) = S
    <3>1. IsFiniteSet(Range(taken)) /\ Cardinality(Range(taken)) <= Cardinality(S)
          /\ (Cardinality(Range(taken)) = Cardinality(S) => Range(taken) = S)
      BY <2>6, <2>7, FS_Subset
    <3>2. Cardinality(Range(taken)) \in Nat
      BY <2>3, <2>4
    <3>3. QED
      BY <2>7, <2>8, <3>1, <3>2
  <2>10. \A g \in Net.gates : (t[g] = "CUT" => flag[g] = "TAKEN") /\ t[g] # "TAKEN"
    BY <1>4, <2>3, <2>5, <2>9
  <2>11. PICK c \in Net.gates : flag[c] = "CUT"
    BY <1>2 DEF CutRight
  <2>12. QED
    BY <1>2, <1>4, <2>2, <2>10, <2>11, NotTooLong
<1>6. Later(t)
  BY <1>5 DEF Comes
<1>7. CallsStay
  BY <1>1 DEF CallsStay
<1>8. QED
  BY <1>3, <1>6, <1>7, LaterStays DEF Comes

(* The lowest gate is on the target and is taken, or it is below the       *)
(* target and the call comes to it by popping; with the last gate, the     *)
(* target is found.                                                        *)
LEMMA TakeComes ==
  ASSUME IInv, Take, cutList \in Seq(Seq(Gate)), NEW S, NEW t, TargetRight(Net, S, t), Comes(t)
  PROVE  Comes(t)' \/ S \in Found'
<1>1. pc = "decide" /\ UNCHANGED inputs /\ UNCHANGED <<waiting, spread>>
  BY DEF Take, lists
<1>2. /\ InputsRight /\ CutRight /\ StackRight /\ NetRight(Net) /\ IsLegal(Net, flag) /\ active # {}
      /\ active \subseteq Gate /\ active \subseteq reached /\ Net.gates = reached /\ Min(active) \in active
      /\ numNew = Count(Net, flag)
  BY <1>1, DecideFinds
<1>3. Net' = Net
  BY <1>1, <1>2, NetKept
<1>4. /\ IsLegal(Net, t) /\ S = {g \in Gate : t[g] = "CUT"} /\ \A g \in Gate : t[g] # "TAKEN"
  BY DEF TargetRight
<1>5. PICK g : g = Min(active)
  OBVIOUS
<1> DEFINE c == [gate |-> g, removed |-> <<>>, popped |-> FALSE,
                 before |-> [flag |-> flag, active |-> active, numNew |-> numNew]]
<1>6. /\ active' = active \ {g} /\ flag' = Put(flag, g, "TAKEN") /\ stack' = Append(stack, c)
      /\ pc' = IF active' = {} THEN "return" ELSE "decide"
  BY <1>2, <1>5 DEF Take, Put
<1>7. g \in Gate /\ g \in Net.gates /\ flag[g] = "CUT" /\ FlagsRight(Net, flag) /\ FlagsRight(Net, t)
  BY <1>2, <1>4, <1>5 DEF CutRight, IsLegal
<1>8. c \in Call /\ ~c.popped /\ c.gate = g /\ c.before.flag = flag
  <2>1. flag \in [Gate -> Flags] /\ active \in SUBSET Gate /\ <<>> \in Seq(Gate) /\ numNew \in Nat
    BY <1>2, <1>7, RangeEmpty, NewsFinite DEF FlagsRight
  <2>2. QED
    BY <1>7, <2>1 DEF Call, Cut
<1> HIDE DEF c
<1>9. /\ stack \in Seq(Call) /\ Len(stack) \in Nat /\ Len(stack') = Len(stack) + 1
      /\ stack'[Len(stack) + 1] = c /\ \A j \in 1 .. Len(stack) : stack'[j] = stack[j]
  <2>1. stack \in Seq(Call)
    BY <1>2 DEF StackRight, CallsRight
  <2>2. QED
    BY <1>6, <1>8, <2>1, AppendIs
<1>10. CASE Later(t)
  <2>1. \A j \in 1 .. Len(stack) : j \in 1 .. Len(stack')
    BY <1>9
  <2>2. CallsStay
    BY <1>9, <2>1 DEF CallsStay
  <2>3. QED
    BY <1>3, <1>10, <2>2, LaterStays DEF Comes
<1>11. CASE Ahead(t)
  <2>1. UpTo(Net, flag, t)
    BY <1>11 DEF Ahead
  <2>2. CASE t[g] = "BELOW"
    <3>1. Len(stack) + 1 \in 1 .. Len(stack')
      BY <1>9
    <3>2. UpTo(Net', flag, t)
      BY <1>3, <2>1
    <3>3. Later(t)'
      BY <1>8, <1>9, <2>2, <3>1, <3>2 DEF Later
    <3>4. QED
      BY <3>3 DEF Comes
  <2>3. CASE t[g] # "BELOW"
    <3>1. t[g] \in OnCut
      <4>1. t[g] # "ABOVE"
        BY <1>7, <2>1 DEF UpTo
      <4>2. QED
        BY <1>2, <1>7, <2>3, <4>1, FlagOf DEF OnCut
    <3>2. UpTo(Net, flag', t)
      BY <1>2, <1>6, <1>7, <2>1, <3>1, UpToPut
    <3>3. CASE active' # {}
      <4>1. Ahead(t)'
        BY <1>1, <1>3, <1>6, <1>11, <3>2, <3>3 DEF Ahead
      <4>2. QED
        BY <4>1 DEF Comes
    <3>4. CASE active' = {}
      <4>1. /\ Found' = Found \union {Range(taken')} /\ IsLegal(Net, flag')
        BY <3>4, TakeFinds
      <4>2. IInv'
        BY TakeKeeps
      <4>3. /\ active' = {h \in Gate : flag'[h] = "CUT"} /\ Range(taken') = {h \in Gate : flag'[h] = "TAKEN"}
        BY <4>2 DEF IInv, CutRight, TakenRight
      <4>4. Net.gates \subseteq Gate /\ \A h \in Net.gates : flag'[h] # "CUT" /\ t[h] # "TAKEN"
        BY <1>2, <1>4, <3>4, <4>3 DEF NetRight
      <4>5. \A h \in Net.gates : flag'[h] = "TAKEN" <=> t[h] = "CUT"
        BY <1>2, <1>4, <3>2, <4>1, <4>4, AllAreTaken
      <4>6. \A h \in Gate : flag'[h] = "TAKEN" \/ t[h] = "CUT" => h \in Net.gates
        BY <1>7, <4>1 DEF IsLegal, FlagsRight
      <4>7. Range(taken') = S
        BY <1>4, <4>3, <4>5, <4>6
      <4>8. QED
        BY <4>1, <4>7
    <3>5. QED
      BY <3>3, <3>4
  <2>4. QED
    BY <2>2, <2>3
<1>12. QED
  BY <1>10, <1>11 DEF Comes

(* The targets of a call that pops its gate are those that have the gate   *)
(* below.                                                                  *)
LEMMA PopComes ==
  ASSUME IInv, Pop, NEW S, NEW t, TargetRight(Net, S, t), Comes(t)
  PROVE  Comes(t)'
<1>1. /\ pc = "return" /\ UNCHANGED inputs /\ waiting' = waiting
      /\ stack' = [stack EXCEPT ![Len(stack)].popped = TRUE]
  BY DEF Pop
<1>2. /\ InputsRight /\ CutRight /\ PhaseRight /\ NetRight(Net) /\ Net.gates = reached
      /\ FlagsRight(Net, flag)
      /\ stack \in Seq(Call) /\ stack # <<>> /\ Len(stack) \in Nat /\ Len(stack) >= 1
      /\ Last(stack) = Top /\ IsLegal(Net, Base) /\ Base = Top.before.flag /\ FlagsRight(Net, Base)
      /\ Top.gate \in Gate /\ Base[Top.gate] = "CUT" /\ Top.gate \in reached
      /\ numNew = Count(Net, flag)
  BY <1>1, ReturnFinds
<1>3. Net' = Net
  BY <1>1, <1>2, NetKept
<1>4. IsLegal(Net, t)
  BY DEF TargetRight
<1>5. ~Top.popped
  BY <1>2 DEF Pop
<1> DEFINE k == Len(stack)
           c == [stack[k] EXCEPT !.popped = TRUE]
<1>6. stack[k] = Top
  BY DEF Top
<1>7. PICK j \in 1 .. k : ~stack[j].popped /\ UpTo(Net, stack[j].before.flag, t) /\ t[stack[j].gate] = "BELOW"
  BY <1>1 DEF Comes, Ahead, Later
<1>8. CASE j # k
  <2>1. stack \in [1 .. k -> Call] /\ k \in Nat /\ k \in 1 .. k
    BY <1>2
  <2>2. stack' = [stack EXCEPT ![k] = c]
    BY <1>1, <2>1
  <2> HIDE DEF k, c
  <2>3. stack' \in [1 .. k -> Call \union {c}] /\ stack'[j] = stack[j]
    BY <1>7, <1>8, <2>1, <2>2
  <2>4. Len(stack') = k
    <3>1. stack' \in Seq(Call \union {c}) /\ DOMAIN stack' = 1 .. k
      BY <2>1, <2>3
    <3>2. QED
      BY <2>1, <3>1
  <2>5. j \in 1 .. Len(stack') /\ UpTo(Net', stack'[j].before.flag, t)
    BY <1>3, <1>7, <2>3, <2>4
  <2>6. Later(t)'
    BY <1>7, <2>3, <2>5 DEF Later
  <2>7. QED
    BY <2>6 DEF Comes
<1>9. CASE j = k
  <2>1. PICK g \in Gate : g = Top.gate
    BY <1>2
  <2>2. UpTo(Net, Base, t) /\ t[g] = "BELOW" /\ g \in Net.gates /\ Base[g] = "CUT"
    BY <1>2, <1>6, <1>7, <1>9, <2>1
  <2>3. flag = Put(Base, g, "TAKEN")
    BY <1>1, <1>2, <1>5, <2>1 DEF PhaseRight, After
  <2>4. Base \in [Gate -> Flags] /\ Net.news \subseteq Gate
    BY <1>2 DEF FlagsRight, NetRight
  <2>5. Count(Net, flag) = Count(Net, Base)
    <3>1. \A h \in Net.news : Base[h] \in OnCut <=> flag[h] \in OnCut
      BY <2>2, <2>3, <2>4 DEF Put, OnCut
    <3>2. QED
      BY <3>1, CountSame
  <2>6. ~LastNew(g)
    <3>1. SUFFICES ASSUME isNew[g], numNew = 1 PROVE FALSE
      BY DEF LastNew
    <3>2. g \in Net.news /\ Base[g] \in OnCut
      BY <1>2, <2>2, <3>1, NetLists DEF OnCut
    <3>3. Count(Net, Base) >= 2
      BY <1>2, <2>2, <3>2, CountsTwo
    <3>4. QED
      BY <1>2, <2>5, <3>1, <3>3
  <2>7. flag' = Put(flag, g, "BELOW") /\ spread' = fanout[g] /\ pc' = "pop"
    BY <1>2, <2>1, <2>6 DEF Pop, PopUp, Put
  <2>8. flag' = Put(Base, g, "BELOW")
    BY <2>3, <2>4, <2>7 DEF Put
  <2>9. UpTo(Net, flag', t)
    BY <1>2, <2>2, <2>8, UpToPut
  <2>10. \A h \in Range(fanout[g]) \intersect Net.gates : t[h] # "ABOVE"
    <3>1. \A h \in Net.gates : g \in Net.gates => (h \in Range(fanout[g]) <=> g \in Reads(Net, h))
      BY <1>2, NetLists
    <3>2. QED
      BY <1>4, <2>2, <3>1, ReadsBelow
  <2>11. Range(waiting') = {}
    BY <1>1, <1>2, RangeEmpty DEF PhaseRight
  <2>12. Ahead(t)'
    BY <1>3, <2>7, <2>9, <2>10, <2>11 DEF Ahead
  <2>13. QED
    BY <2>12 DEF Comes
<1>10. QED
  BY <1>8, <1>9

(* While a call recovers, nothing is decided.                              *)
LEMMA RecoverComes ==
  ASSUME IInv, Recover \/ PopDown \/ RecoverCut \/ CheckNextFanouts \/ CheckFanout \/ CoverFanin,
         NEW S, NEW t, TargetRight(Net, S, t), Comes(t)
  PROVE  Comes(t)'
<1>1. /\ pc \in {"return", "recover", "fanouts"} /\ UNCHANGED inputs /\ stack' = stack
  BY DEF Recover, PopDown, RecoverCut, CheckNextFanouts, CheckFanout, CoverFanin
<1>2. Net' = Net
  BY <1>1, NetKept DEF IInv
<1>3. Later(t)
  BY <1>1 DEF Comes, Ahead
<1>4. CallsStay
  BY <1>1 DEF CallsStay
<1>5. QED
  BY <1>2, <1>3, <1>4, LaterStays DEF Comes

(* A call that returns leaves its caller's targets.                        *)
LEMMA RecoveredComes ==
  ASSUME IInv, Recovered, NEW S, NEW t, TargetRight(Net, S, t), Comes(t)
  PROVE  Comes(t)'
<1>1. pc = "fanouts" /\ UNCHANGED inputs /\ stack' = Front(stack)
  BY DEF Recovered
<1>2. /\ stack \in Seq(Call) /\ stack # <<>> /\ Len(stack) \in Nat /\ Len(stack) >= 1 /\ PhaseRight
  BY <1>1, ReturnFinds
<1>3. Net' = Net
  BY <1>1, NetKept DEF IInv
<1>4. Later(t)
  BY <1>1 DEF Comes, Ahead
<1>5. CallsStay
  <2>1. stack[Len(stack)].popped
    BY <1>1, <1>2 DEF PhaseRight, Top
  <2>2. /\ Len(stack') = Len(stack) - 1 /\ \A j \in 1 .. (Len(stack) - 1) : stack'[j] = stack[j]
    BY <1>1, <1>2, FrontIs
  <2>3. \A j \in 1 .. Len(stack) : j = Len(stack) \/ j \in 1 .. (Len(stack) - 1)
    BY <1>2
  <2>4. QED
    BY <2>1, <2>2, <2>3 DEF CallsStay
<1>6. QED
  BY <1>3, <1>4, <1>5, LaterStays DEF Comes

(* A step that changes nothing.                                            *)
LEMMA StutterComes ==
  ASSUME IInv, UNCHANGED vars, NEW S, NEW t, TargetRight(Net, S, t), Comes(t)
  PROVE  Comes(t)'
<1>1. UNCHANGED <<pc, flag, spread, waiting, stack>> /\ UNCHANGED inputs
  BY DEF vars, cut, lists
<1>2. Net' = Net
  BY <1>1, NetKept DEF IInv
<1>3. QED
  BY <1>1, <1>2 DEF Comes, Ahead, Later

(* Each step keeps the target ahead, or finds it.                          *)
LEMMA StepComes ==
  ASSUME IInv, [Next]_vars, lowest # {}, cutList \in Seq(Seq(Gate)), NEW S, NEW t, TargetRight(Net, S, t),
         Cardinality(S) <= minCheckSize, Comes(t)
  PROVE  Comes(t)' \/ S \in Found'
<1>1. CASE UNCHANGED vars
  BY <1>1, StutterComes
<1>2. CASE EnumerateCuts
  BY <1>2, EnumerateCutsComes
<1>3. CASE CoverFanout
  BY <1>3, CoverFanoutComes
<1>4. CASE LegalizeCut
  BY <1>4, LegalizeCutComes
<1>5. CASE CheckNext
  BY <1>5, CheckNextComes
<1>6. CASE CheckFanin
  <2>1. PICK g \in Gate : IsBelow(g) \/ MoveBelow(g) \/ RemoveFromCut(g) \/ CannotRemove(g)
    BY <1>6 DEF CheckFanin
  <2>2. CASE IsBelow(g)
    BY <2>2, IsBelowComes
  <2>3. CASE MoveBelow(g)
    BY <2>3, MoveBelowComes
  <2>4. CASE RemoveFromCut(g)
    BY <2>4, RemoveFromCutComes
  <2>5. CASE CannotRemove(g)
    BY <2>5, CannotRemoveComes
  <2>6. QED
    BY <2>1, <2>2, <2>3, <2>4, <2>5
<1>7. CASE Legal
  BY <1>7, LegalComes
<1>8. CASE TooLong
  BY <1>8, TooLongComes
<1>9. CASE Take
  BY <1>9, TakeComes
<1>10. CASE Pop
  BY <1>10, PopComes
<1>11. CASE Recover \/ PopDown \/ RecoverCut \/ CheckNextFanouts \/ CheckFanout \/ CoverFanin
  BY <1>11, RecoverComes
<1>12. CASE Recovered
  BY <1>12, RecoveredComes
<1>13. QED
  BY <1>1, <1>2, <1>3, <1>4, <1>5, <1>6, <1>7, <1>8, <1>9, <1>10, <1>11, <1>12 DEF Next

-----------------------------------------------------------------------------
(* Every cut is found or comes.                                            *)
AllCome == \A S \in Cuts \ Found : \E t \in {FlagsOf(Net, S)} : Comes(t)
AInv == cutList \in Seq(Seq(Gate)) /\ AllCome

(* At first every cut is ahead.                                            *)
LEMMA InitAllCome == Init => AInv
<1> SUFFICES ASSUME Init PROVE AInv
  OBVIOUS
<1>1. IInv
  BY InitIInv
<1>2. /\ cutList \in Seq(Seq(Gate)) /\ pc = "enumerate" /\ spread = <<>> /\ waiting = <<>>
  BY DEF Init
<1>3. flag = LowestFlags(Net) /\ InputsRight /\ NetRight(Net)
  BY <1>1, <1>2 DEF IInv, PhaseRight, InputsRight
<1>4. ASSUME NEW S \in Cuts PROVE Ahead(FlagsOf(Net, S))
  <2>1. PICK t : t = FlagsOf(Net, S)
    OBVIOUS
  <2>2. FlagsRight(Net, t)
    BY <1>3, <2>1, CutIsTarget DEF TargetRight, IsLegal
  <2>3. \A g \in Net.gates : g \in Gate /\ (t[g] = "DUP" <=> g \in Net.dups)
    BY <1>3, <2>2, FlagOf
  <2>4. UpTo(Net, flag, t)
    <3>1. \A g \in Net.gates : flag[g] = IF g \in Net.dups THEN "DUP"
                                         ELSE IF g \in Net.lowest THEN "CUT" ELSE "ABOVE"
      BY <1>3, <2>3 DEF LowestFlags
    <3>2. \A g \in Net.lowest : t[g] # "ABOVE"
      BY <2>2 DEF FlagsRight
    <3>3. QED
      BY <2>3, <3>1, <3>2 DEF UpTo, OnCut
  <2>5. Range(spread) = {} /\ Range(waiting) = {}
    BY <1>2, RangeEmpty
  <2>6. Ahead(t)
    BY <1>2, <2>4, <2>5 DEF Ahead
  <2>7. QED
    BY <2>1, <2>6
<1>5. QED
  BY <1>2, <1>4 DEF AInv, AllCome, Comes

(* Each step keeps that every cut is found or comes.                       *)
LEMMA StepKeepsAllCome == ASSUME IInv, AInv, [Next]_vars PROVE AInv'
<1>1. InputsRight /\ UNCHANGED inputs
  BY StepKeepsFound DEF IInv
<1>2. Net' = Net /\ Cuts' = Cuts
  BY <1>1, NetKept DEF Cuts, inputs
<1>3. cutList' \in Seq(Seq(Gate)) /\ Found \subseteq Found'
  <2>1. CASE Take
    BY <2>1, TakeFinds DEF AInv
  <2>2. CASE ~Take
    <3>1. cutList' = cutList
      BY <2>2, StepKeepsFound
    <3>2. QED
      BY <1>1, <3>1, FoundKept DEF AInv
  <2>3. QED
    BY <2>1, <2>2
<1>4. ASSUME NEW S \in Cuts, S \notin Found', NEW t, t = FlagsOf(Net, S) PROVE Comes(t)'
  <2>1. TargetRight(Net, S, t) /\ lowest # {} /\ Cardinality(S) <= minCheckSize
    BY <1>1, <1>4, CutIsTarget
  <2>2. Comes(t)
    BY <1>3, <1>4 DEF AInv, AllCome
  <2>3. QED
    BY <1>4, <2>1, <2>2, StepComes DEF AInv
<1>5. ASSUME NEW S \in Cuts' \ Found', NEW t \in {FlagsOf(Net', S)} PROVE Comes(t)'
  BY <1>2, <1>4, <1>5
<1>6. AllCome'
  BY <1>5 DEF AllCome
<1>7. QED
  BY <1>3, <1>6 DEF AInv

(* Every cut at or above the lowest one, with no more gates than may be    *)
(* taken, is found, although the search only ever moves the cut that it    *)
(* has and ends a branch at the first cut that is too long.                *)
THEOREM FoundCompletely == Spec => []AllFound
<1>1. Init => AInv
  BY InitAllCome
<1>2. IInv /\ AInv /\ [Next]_vars => AInv'
  BY StepKeepsAllCome
<1>3. IInv /\ AInv => AllFound
  <2>1. SUFFICES ASSUME IInv, AInv, pc = "done", NEW S \in Cuts, S \notin Found PROVE FALSE
    BY DEF AllFound
  <2>2. PICK t : Comes(t)
    BY <2>1 DEF AInv, AllCome
  <2>3. stack = <<>> /\ Len(stack) = 0
    BY <2>1 DEF IInv, PhaseRight
  <2>4. QED
    BY <2>1, <2>2, <2>3 DEF Comes, Ahead, Later
<1>4. QED
  BY <1>1, <1>2, <1>3, Invariance, PTL DEF Spec
=============================================================================
