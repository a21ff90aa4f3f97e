----------------------------- MODULE DriverProofs -----------------------------
(***************************************************************************)
(* Proofs about the driver and two parts that it calls, for every value of *)
(* the constants: the merge lists of the miter (MergeList), the selection  *)
(* of the patches that are needed (SelectPatch) and the driver's loops     *)
(* themselves (EcoDriver).                                                 *)
(*                                                                         *)
(* All but type correctness of SelectPatch assume that every select input  *)
(* is in the cone of the miter.  The invariant of EcoDriver says of each   *)
(* point of a search which netlist the manager holds and for which pair it *)
(* was prepared, and of each point of the replacement of the patch file    *)
(* what the file, the temporary file and the cost have in common.          *)
(***************************************************************************)
EXTENDS MergeList, SelectPatch, EcoDriver, TLAPS

-----------------------------------------------------------------------------
(* The walk along _mg_next.                                                *)

PointerMap == [Gate -> Gate \union {NoGate}]

(* A walk visits the gate it starts at.                                    *)
LEMMA ChainSelf ==
  ASSUME NEW next \in PointerMap, NEW g \in Gate
  PROVE  g \in Chain(g, next)
BY DEF Chain

(* A walk that visits y goes on to the gate behind y.                      *)
LEMMA ChainStep ==
  ASSUME NEW next \in PointerMap, NEW g \in Gate,
         NEW y \in Chain(g, next), next[y] # NoGate
  PROVE  next[y] \in Chain(g, next)
BY MergeListAssumption DEF Chain, Closed, PointerMap

(* A walk stays inside every closed set it starts in.                      *)
LEMMA ChainLeast ==
  ASSUME NEW next, NEW g, NEW S \in SUBSET Gate,
         g \in S, Closed(S, next)
  PROVE  Chain(g, next) \subseteq S
BY DEF Chain

(* A walk from a gate that is on a chain stays on that chain.              *)
LEMMA ChainTail ==
  ASSUME NEW next \in PointerMap, NEW g \in Gate, NEW y \in Chain(g, next)
  PROVE  Chain(y, next) \subseteq Chain(g, next)
<1>1. Chain(g, next) \in SUBSET Gate
  BY DEF Chain
<1>2. Closed(Chain(g, next), next)
  BY ChainStep DEF Closed
<1>3. QED
  BY <1>1, <1>2, ChainLeast

(* What the walk from y becomes when g enters behind h.                    *)
Inserted(y, h, g, next, next2) ==
  /\ Chain(y, next) \subseteq Chain(y, next2)
  /\ Chain(y, next2) \subseteq Chain(y, next) \union {g}
  /\ h \in Chain(y, next) => g \in Chain(y, next2)
  /\ h \notin Chain(y, next) => g \notin Chain(y, next2)

(* Inserting g behind h adds at most g to a walk that starts elsewhere,    *)
(* and loses no gate of it.                                                *)
LEMMA ChainInsert ==
  ASSUME NEW next \in PointerMap, NEW h \in Gate, NEW g \in Gate, g # h,
         next[g] = NoGate, \A x \in Gate : next[x] # g,
         NEW y \in Gate, y # g,
         NEW next2, next2 = [next EXCEPT ![g] = next[h], ![h] = g]
  PROVE  Inserted(y, h, g, next, next2)
<1>1. next2 \in PointerMap
  BY DEF PointerMap
<1>2. \A x \in Gate : next2[x] = IF x = h THEN g ELSE IF x = g THEN next[h] ELSE next[x]
  BY DEF PointerMap
<1>3. Chain(y, next) \subseteq Chain(y, next2)
  <2>1. SUFFICES ASSUME NEW x \in Chain(y, next), NEW S \in SUBSET Gate,
                        y \in S, Closed(S, next2)
                 PROVE  x \in S
    BY DEF Chain
  <2>2. Closed(S \ {g}, next)
    BY <1>2, <2>1, MergeListAssumption DEF Closed, PointerMap
  <2>3. QED
    BY <2>1, <2>2, ChainLeast
<1>4. h \in Chain(y, next) => g \in Chain(y, next2)
  <2>1. ASSUME h \in Chain(y, next) PROVE g \in Chain(y, next2)
    <3>1. h \in Chain(y, next2)
      BY <1>3, <2>1
    <3>2. next2[h] = g /\ g # NoGate
      BY <1>2, MergeListAssumption
    <3>3. QED
      BY <1>1, <3>1, <3>2, ChainStep
  <2>2. QED
    BY <2>1
<1>5. Chain(y, next2) \subseteq Chain(y, next) \union {g}
  <2>1. Chain(y, next) \union {g} \in SUBSET Gate
    BY DEF Chain
  <2>2. y \in Chain(y, next)
    BY ChainSelf
  <2>3. CASE h \in Chain(y, next)
    <3>1. Closed(Chain(y, next) \union {g}, next2)
      BY <1>2, <2>1, <2>3, ChainStep DEF Closed
    <3>2. QED
      BY <2>1, <2>2, <3>1, ChainLeast
  <2>4. CASE h \notin Chain(y, next)
    <3>1. g \notin Chain(y, next)
      <4>1. Closed(Chain(y, next) \ {g}, next)
        BY ChainStep DEF Closed, Chain
      <4>2. Chain(y, next) \ {g} \in SUBSET Gate /\ y \in Chain(y, next) \ {g}
        BY <2>1, <2>2
      <4>3. QED
        BY <4>1, <4>2, ChainLeast
    <3>2. Closed(Chain(y, next), next2)
      BY <1>2, <2>1, <2>4, <3>1, ChainStep DEF Closed
    <3>3. QED
      BY <2>1, <2>2, <3>2, ChainLeast
  <2>5. QED
    BY <2>3, <2>4
<1>6. h \notin Chain(y, next) => g \notin Chain(y, next2)
  <2>1. ASSUME h \notin Chain(y, next) PROVE g \notin Chain(y, next2)
    <3>1. y \in Chain(y, next) /\ Chain(y, next) \in SUBSET Gate
      BY ChainSelf DEF Chain
    <3>2. Closed(Chain(y, next) \ {g}, next2)
      BY <1>2, <2>1, <3>1, ChainStep DEF Closed
    <3>3. QED
      BY <3>1, <3>2, ChainLeast
  <2>2. QED
    BY <2>1
<1>7. QED
  BY <1>3, <1>4, <1>5, <1>6 DEF Inserted

(* Inserting g behind h: the walk from g is g and the old walk from the    *)
(* gate that was behind h.                                                 *)
LEMMA ChainFromInserted ==
  ASSUME NEW next \in PointerMap, NEW h \in Gate, NEW g \in Gate, g # h,
         next[g] = NoGate, \A x \in Gate : next[x] # g,
         next[h] # NoGate => h \notin Chain(next[h], next),
         NEW next2, next2 = [next EXCEPT ![g] = next[h], ![h] = g]
  PROVE  h \notin Chain(g, next2)
<1>1. \A x \in Gate : next2[x] = IF x = h THEN g ELSE IF x = g THEN next[h] ELSE next[x]
  BY DEF PointerMap
<1>2. CASE next[h] = NoGate
  <2>1. Closed({g}, next2)
    BY <1>1, <1>2 DEF Closed
  <2>2. QED
    BY <2>1, ChainLeast
<1>3. CASE next[h] # NoGate
  <2>1. next[h] \in Gate
    BY <1>3 DEF PointerMap
  <2> DEFINE S == Chain(next[h], next) \union {g}
  <2>2. S \in SUBSET Gate
    BY DEF Chain
  <2>3. Closed(S, next2)
    BY <1>1, <1>3, <2>1, <2>2, ChainSelf, ChainStep DEF Closed
  <2>4. h \notin S
    BY <1>3
  <2>5. QED
    BY <2>2, <2>3, <2>4, ChainLeast
<1>4. QED
  BY <1>2, <1>3

-----------------------------------------------------------------------------
(***************************************************************************)
(* The inductive invariant.  A gate outside Merging is on no list.         *)
(* _mg_heads points to the first gate of each group.  _mg_head names one   *)
(* representative per circuit and literal; the chain of a representative   *)
(* holds exactly the gates it represents; and _mg_list is the              *)
(* representative of the other circuit once one exists.                    *)
(***************************************************************************)

Unmapped ==
  \A g \in Gate : g \notin Merging =>
    mg_head[g] = NoGate /\ mg_list[g] = NoGate /\ mg_next[g] = NoGate

Groups ==
  \A k \in Key :
    /\ mg_heads[k] = NoGate => \A g \in Merging : aigMiterNode[g] # k
    /\ mg_heads[k] # NoGate => /\ mg_heads[k] \in Merging
                              /\ aigMiterNode[mg_heads[k]] = k
                              /\ mg_head[mg_heads[k]] = mg_heads[k]

Heads ==
  /\ \A g \in Merging : /\ mg_head[g] \in Merging
                        /\ aigMiterNode[mg_head[g]] = aigMiterNode[g]
                        /\ SameCircuit(mg_head[g], g)
                        /\ mg_head[mg_head[g]] = mg_head[g]
  /\ \A a, b \in Merging :
       aigMiterNode[a] = aigMiterNode[b] /\ SameCircuit(a, b)
         => mg_head[a] = mg_head[b]

Links ==
  \A g \in Merging : mg_next[g] # NoGate =>
    mg_next[g] \in Merging /\ mg_head[mg_next[g]] = mg_head[g]

Members == \A g \in Merging : g \in Chain(mg_head[g], mg_next)

Lists ==
  /\ \A g \in Merging : mg_list[g] # NoGate =>
       /\ mg_list[g] \in Merging
       /\ aigMiterNode[mg_list[g]] = aigMiterNode[g]
       /\ ~SameCircuit(mg_list[g], g)
       /\ mg_head[mg_list[g]] = mg_list[g]
  /\ \A a, b \in Merging :
       aigMiterNode[a] = aigMiterNode[b] /\ ~SameCircuit(a, b)
         => mg_list[a] = mg_head[b]

MergeIInv ==
  /\ MergeTypeOK /\ Unmapped /\ Groups /\ Heads /\ Links /\ Members /\ Lists
  /\ ChainsAcyclic

(* The gates a representative stands for are exactly its chain.            *)
LEMMA ChainIsClass ==
  ASSUME MergeIInv, NEW h \in Merging, mg_head[h] = h, NEW x \in Gate
  PROVE  x \in Chain(h, mg_next) <=> x \in Merging /\ mg_head[x] = h
<1> DEFINE S == {y \in Merging : mg_head[y] = h}
<1>1. S \in SUBSET Gate /\ h \in S
  BY DEF Merging
<1>2. Closed(S, mg_next)
  BY DEF MergeIInv, Links, Closed
<1>3. Chain(h, mg_next) \subseteq S
  BY <1>1, <1>2, ChainLeast
<1>4. QED
  BY <1>3 DEF MergeIInv, Members

(* A gate that is not on any list is behind no gate and on no walk.        *)
LEMMA FreshGate ==
  ASSUME MergeIInv, NEW g \in Gate, g \notin Merging
  PROVE  /\ mg_head[g] = NoGate /\ mg_list[g] = NoGate /\ mg_next[g] = NoGate
         /\ \A x \in Gate : mg_next[x] # g /\ mg_list[x] # g /\ mg_head[x] # g
         /\ \A k \in Key : mg_heads[k] # g
<1>1. g # NoGate
  BY MergeListAssumption
<1>2. mg_head[g] = NoGate /\ mg_list[g] = NoGate /\ mg_next[g] = NoGate
  BY DEF MergeIInv, Unmapped
<1>3. \A x \in Gate : mg_next[x] # g
  BY <1>1 DEF MergeIInv, Unmapped, Links
<1>4. \A x \in Gate : mg_list[x] # g
  BY <1>1 DEF MergeIInv, Unmapped, Lists
<1>5. \A x \in Gate : mg_head[x] # g
  BY <1>1 DEF MergeIInv, Unmapped, Heads
<1>6. \A k \in Key : mg_heads[k] # g
  BY <1>1 DEF MergeIInv, Groups
<1>7. QED
  BY <1>2, <1>3, <1>4, <1>5, <1>6

(* A gate appended behind the representative of its circuit and literal.   *)
LEMMA AppendStep ==
  ASSUME MergeIInv, NEW k \in Key, mg_heads[k] # NoGate,
         NEW g \in Gate, g \notin PrePatch, aigMiterNode[g] = NoKey,
         NEW h \in Merging, mg_head[h] = h, aigMiterNode[h] = k,
         SameCircuit(h, g),
         aigMiterNode' = [aigMiterNode EXCEPT ![g] = k],
         mg_append(h, g), UNCHANGED mg_heads
  PROVE  MergeIInv'
<1>1. g \notin Merging /\ g # h /\ h \in Gate /\ g # NoGate
  BY MergeListAssumption DEF Merging
<1>2. /\ mg_head[g] = NoGate /\ mg_list[g] = NoGate /\ mg_next[g] = NoGate
      /\ \A x \in Gate : mg_next[x] # g /\ mg_list[x] # g /\ mg_head[x] # g
  BY <1>1, FreshGate
<1>3. MergeTypeOK
  BY DEF MergeIInv
<1>4. Merging' = Merging \union {g}
  BY <1>3, MergeListAssumption DEF Merging, MergeTypeOK
<1>5. /\ \A x \in Gate : mg_head'[x] = IF x = g THEN h ELSE mg_head[x]
      /\ \A x \in Gate : mg_list'[x] = IF x = g THEN mg_list[h] ELSE mg_list[x]
      /\ \A x \in Gate : mg_next'[x] = IF x = h THEN g ELSE IF x = g THEN mg_next[h]
                                        ELSE mg_next[x]
      /\ \A x \in Gate : aigMiterNode'[x] = IF x = g THEN k ELSE aigMiterNode[x]
  BY <1>1, <1>3 DEF mg_append, MergeTypeOK
<1>6. MergeTypeOK'
  BY <1>1, <1>3 DEF MergeTypeOK, mg_append
<1>7. Unmapped'
  BY <1>1, <1>4, <1>5 DEF MergeIInv, Unmapped
<1>8. Groups'
  BY <1>1, <1>4, <1>5 DEF MergeIInv, Groups, Merging
<1>9. Heads'
  BY <1>1, <1>4, <1>5 DEF MergeIInv, Heads, Merging, SameCircuit
<1>10. Links'
  BY <1>1, <1>2, <1>4, <1>5 DEF MergeIInv, Links, Merging
<1>11. mg_next \in PointerMap /\ mg_next' = [mg_next EXCEPT ![g] = mg_next[h], ![h] = g]
  BY <1>3 DEF MergeTypeOK, PointerMap, mg_append
<1>12. \A y \in Gate \ {g} : Inserted(y, h, g, mg_next, mg_next')
  <2> DEFINE after == mg_next'
  <2>1. after = [mg_next EXCEPT ![g] = mg_next[h], ![h] = g]
    BY <1>11
  <2>2. \A x \in Gate : mg_next[x] # g
    BY <1>2
  <2> HIDE DEF after
  <2>3. \A y \in Gate \ {g} : Inserted(y, h, g, mg_next, after)
    BY <1>1, <1>2, <1>11, <2>1, <2>2, ChainInsert
  <2>4. QED
    BY <2>3 DEF after
<1>13. Members'
  <2>1. h \in Chain(h, mg_next)
    BY <1>1, <1>11, ChainSelf
  <2>2. \A x \in Merging : x \in Chain(mg_head[x], mg_next) /\ mg_head[x] \in Gate \ {g}
    BY <1>1 DEF MergeIInv, Members, Heads, Merging
  <2>3. QED
    BY <1>1, <1>4, <1>5, <1>12, <2>1, <2>2 DEF Members, Merging, Inserted
<1>14. Lists'
  <2>1. \A x \in Merging' : mg_list'[x] # NoGate =>
          /\ mg_list'[x] \in Merging'
          /\ aigMiterNode'[mg_list'[x]] = aigMiterNode'[x]
          /\ ~SameCircuit(mg_list'[x], x)
          /\ mg_head'[mg_list'[x]] = mg_list'[x]
    BY <1>1, <1>2, <1>4, <1>5 DEF MergeIInv, Lists, Merging, SameCircuit
  <2>2. \A a, b \in Merging' :
          aigMiterNode'[a] = aigMiterNode'[b] /\ ~SameCircuit(a, b)
            => mg_list'[a] = mg_head'[b]
    BY <1>1, <1>4, <1>5 DEF MergeIInv, Lists, Merging, SameCircuit
  <2>3. QED
    BY <2>1, <2>2 DEF Lists, SameCircuit
<1>15. ChainsAcyclic'
  <2>1. SUFFICES ASSUME NEW x \in Gate, mg_next'[x] # NoGate
                 PROVE  x \notin Chain(mg_next'[x], mg_next')
    BY DEF ChainsAcyclic
  <2>2. mg_next[h] # NoGate => h \notin Chain(mg_next[h], mg_next)
    BY <1>1 DEF MergeIInv, ChainsAcyclic
  <2>3. CASE x = h
    <3> DEFINE after == mg_next'
    <3>1. after = [mg_next EXCEPT ![g] = mg_next[h], ![h] = g]
      BY <1>11
    <3>2. \A y \in Gate : mg_next[y] # g
      BY <1>2
    <3>3. after[h] = g
      BY <1>1, <1>5
    <3> HIDE DEF after
    <3>4. h \notin Chain(g, after)
      BY <1>1, <1>2, <1>11, <2>2, <3>1, <3>2, ChainFromInserted
    <3>5. QED
      BY <2>3, <3>3, <3>4 DEF after
  <2>4. CASE x = g
    <3>1. mg_next'[x] = mg_next[h] /\ mg_next[h] \in Gate \ {g} /\ h \notin Chain(mg_next[h], mg_next)
      BY <1>1, <1>2, <1>5, <1>11, <2>1, <2>2, <2>4 DEF PointerMap
    <3>2. g \notin Chain(mg_next[h], mg_next')
      BY <1>12, <3>1 DEF Inserted
    <3>3. QED
      BY <2>4, <3>1, <3>2
  <2>5. CASE x # h /\ x # g
    <3>1. mg_next'[x] = mg_next[x] /\ mg_next[x] \in Gate \ {g}
      BY <1>2, <1>5, <1>11, <2>1, <2>5 DEF PointerMap
    <3>2. x \notin Chain(mg_next[x], mg_next)
      BY <2>1, <3>1 DEF MergeIInv, ChainsAcyclic
    <3>3. QED
      BY <1>12, <2>5, <3>1, <3>2 DEF Inserted
  <2>6. QED
    BY <2>3, <2>4, <2>5
<1>16. QED
  BY <1>6, <1>7, <1>8, <1>9, <1>10, <1>13, <1>14, <1>15 DEF MergeIInv

(* The first gate of its circuit on a literal only the other circuit has:  *)
(* every gate of that literal is on the chain mg_update walks.             *)
LEMMA FirstStep ==
  ASSUME MergeIInv, NEW k \in Key, mg_heads[k] # NoGate,
         NEW g \in Gate, g \notin PrePatch, aigMiterNode[g] = NoKey,
         ~SameCircuit(mg_heads[k], g),
         aigMiterNode' = [aigMiterNode EXCEPT ![g] = k],
         mg_appendFirst(mg_heads[k], g), UNCHANGED mg_heads
  PROVE  MergeIInv'
<1> DEFINE h == mg_heads[k]
<1>1. /\ h \in Merging /\ h \in Gate /\ aigMiterNode[h] = k /\ mg_head[h] = h
      /\ mg_list[h] = NoGate
  BY DEF MergeIInv, Groups, Merging, mg_appendFirst
<1>2. g \notin Merging /\ g # NoGate /\ g # h
  BY <1>1, MergeListAssumption DEF Merging
<1>3. /\ mg_head[g] = NoGate /\ mg_list[g] = NoGate /\ mg_next[g] = NoGate
      /\ \A x \in Gate : mg_next[x] # g /\ mg_list[x] # g /\ mg_head[x] # g
      /\ \A j \in Key : mg_heads[j] # g
  BY <1>2, FreshGate
<1>4. MergeTypeOK
  BY DEF MergeIInv
<1>5. Merging' = Merging \union {g}
  BY <1>4, MergeListAssumption DEF Merging, MergeTypeOK
<1>6. \A x \in Gate : x \in Chain(h, mg_next) <=> x \in Merging /\ mg_head[x] = h
  BY <1>1, ChainIsClass
<1>7. /\ \A x \in Gate : mg_head'[x] = IF x = g THEN g ELSE mg_head[x]
      /\ \A x \in Gate : mg_list'[x] = IF x = g THEN h
                                       ELSE IF x \in Merging /\ mg_head[x] = h THEN g
                                       ELSE mg_list[x]
      /\ \A x \in Gate : aigMiterNode'[x] = IF x = g THEN k ELSE aigMiterNode[x]
  BY <1>4, <1>6 DEF mg_appendFirst, MergeTypeOK
<1>8. mg_next' = mg_next
  BY <1>3, <1>4 DEF mg_appendFirst, MergeTypeOK
<1>9. \A x \in Merging : aigMiterNode[x] = k => SameCircuit(x, h) /\ mg_head[x] = h
  <2>1. SUFFICES ASSUME NEW x \in Merging, aigMiterNode[x] = k
                 PROVE  SameCircuit(x, h) /\ mg_head[x] = h
    OBVIOUS
  <2>2. SameCircuit(x, h)
    BY <1>1, <2>1, MergeListAssumption DEF MergeIInv, Lists, Heads, Merging, SameCircuit
  <2>3. QED
    BY <1>1, <2>1, <2>2 DEF MergeIInv, Heads
<1>10. MergeTypeOK'
  BY <1>1, <1>4, <1>8 DEF MergeTypeOK, mg_appendFirst
<1>11. Unmapped'
  BY <1>1, <1>5, <1>7, <1>8 DEF MergeIInv, Unmapped
<1>12. Groups'
  BY <1>1, <1>2, <1>5, <1>7 DEF MergeIInv, Groups, Merging
<1>13. Heads'
  <2>1. \A x \in Merging' : /\ mg_head'[x] \in Merging'
                            /\ aigMiterNode'[mg_head'[x]] = aigMiterNode'[x]
                            /\ SameCircuit(mg_head'[x], x)
                            /\ mg_head'[mg_head'[x]] = mg_head'[x]
    BY <1>1, <1>2, <1>5, <1>7 DEF MergeIInv, Heads, Merging, SameCircuit
  <2>2. \A a, b \in Merging' :
          aigMiterNode'[a] = aigMiterNode'[b] /\ SameCircuit(a, b)
            => mg_head'[a] = mg_head'[b]
    BY <1>1, <1>2, <1>5, <1>7, <1>9 DEF MergeIInv, Heads, Merging, SameCircuit
  <2>3. QED
    BY <2>1, <2>2 DEF Heads, SameCircuit
<1>14. Links'
  BY <1>1, <1>3, <1>5, <1>7, <1>8 DEF MergeIInv, Links, Merging
<1>15. Members'
  <2>1. g \in Chain(g, mg_next)
    BY <1>4, ChainSelf DEF MergeTypeOK, PointerMap
  <2>2. QED
    BY <1>2, <1>5, <1>7, <1>8, <2>1 DEF MergeIInv, Members, Merging
<1>16. Lists'
  <2>1. \A x \in Merging' : mg_list'[x] # NoGate =>
          /\ mg_list'[x] \in Merging'
          /\ aigMiterNode'[mg_list'[x]] = aigMiterNode'[x]
          /\ ~SameCircuit(mg_list'[x], x)
          /\ mg_head'[mg_list'[x]] = mg_list'[x]
    <3>1. SUFFICES ASSUME NEW x \in Merging', mg_list'[x] # NoGate
                   PROVE  /\ mg_list'[x] \in Merging'
                          /\ aigMiterNode'[mg_list'[x]] = aigMiterNode'[x]
                          /\ ~SameCircuit(mg_list'[x], x)
                          /\ mg_head'[mg_list'[x]] = mg_list'[x]
      OBVIOUS
    <3>2. CASE x = g
      BY <1>1, <1>2, <1>5, <1>7, <3>2 DEF Merging, SameCircuit
    <3>3. CASE x # g /\ mg_head[x] = h
      BY <1>1, <1>2, <1>5, <1>7, <3>1, <3>3 DEF MergeIInv, Heads, Merging, SameCircuit
    <3>4. CASE x # g /\ mg_head[x] # h
      BY <1>1, <1>2, <1>3, <1>5, <1>7, <3>1, <3>4 DEF MergeIInv, Lists, Merging, SameCircuit
    <3>5. QED
      BY <3>2, <3>3, <3>4
  <2>2. \A a, b \in Merging' :
          aigMiterNode'[a] = aigMiterNode'[b] /\ ~SameCircuit(a, b)
            => mg_list'[a] = mg_head'[b]
    <3>1. SUFFICES ASSUME NEW a \in Merging', NEW b \in Merging',
                          aigMiterNode'[a] = aigMiterNode'[b], ~SameCircuit(a, b)
                   PROVE  mg_list'[a] = mg_head'[b]
      OBVIOUS
    <3>2. CASE a = g
      BY <1>1, <1>2, <1>5, <1>7, <1>9, <3>1, <3>2 DEF Merging, SameCircuit
    <3>3. CASE b = g
      BY <1>1, <1>2, <1>5, <1>7, <1>9, <3>1, <3>3 DEF Merging, SameCircuit
    <3>4. CASE a # g /\ b # g
      BY <1>1, <1>2, <1>5, <1>7, <1>9, <3>1, <3>4 DEF MergeIInv, Heads, Lists, Merging, SameCircuit
    <3>5. QED
      BY <3>2, <3>3, <3>4
  <2>3. QED
    BY <2>1, <2>2 DEF Lists, SameCircuit
<1>17. ChainsAcyclic'
  BY <1>8 DEF MergeIInv, ChainsAcyclic
<1>18. QED
  BY <1>10, <1>11, <1>12, <1>13, <1>14, <1>15, <1>16, <1>17 DEF MergeIInv

(* The first gate mapped to a literal.                                     *)
LEMMA CreateStep ==
  ASSUME MergeIInv, NEW k \in Key, NEW g \in Gate, MapFirst(g, k)
  PROVE  MergeIInv'
<1>1. /\ g \notin PrePatch /\ aigMiterNode[g] = NoKey /\ mg_heads[k] = NoGate
      /\ g \notin Merging /\ g # NoGate
  BY MergeListAssumption DEF MapFirst, Merging
<1>2. /\ mg_head[g] = NoGate /\ mg_list[g] = NoGate /\ mg_next[g] = NoGate
      /\ \A x \in Gate : mg_next[x] # g /\ mg_list[x] # g /\ mg_head[x] # g
      /\ \A j \in Key : mg_heads[j] # g
  BY <1>1, FreshGate
<1>3. MergeTypeOK
  BY DEF MergeIInv
<1>4. Merging' = Merging \union {g}
  BY <1>1, <1>3, MergeListAssumption DEF Merging, MergeTypeOK, MapFirst
<1>5. /\ \A x \in Gate : mg_head'[x] = IF x = g THEN g ELSE mg_head[x]
      /\ \A x \in Gate : aigMiterNode'[x] = IF x = g THEN k ELSE aigMiterNode[x]
      /\ \A j \in Key : mg_heads'[j] = IF j = k THEN g ELSE mg_heads[j]
  BY <1>3 DEF MapFirst, mg_create, MergeTypeOK
<1>6. mg_next' = mg_next /\ mg_list' = mg_list
  BY <1>2, <1>3 DEF MapFirst, mg_create, MergeTypeOK
<1>7. \A x \in Merging : aigMiterNode[x] # k
  BY <1>1 DEF MergeIInv, Groups
<1>8. MergeTypeOK'
  BY <1>3 DEF MergeTypeOK, MapFirst, mg_create
<1>9. Unmapped'
  BY <1>4, <1>5, <1>6 DEF MergeIInv, Unmapped
<1>10. Groups'
  BY <1>1, <1>2, <1>4, <1>5 DEF MergeIInv, Groups, Merging
<1>11. Heads'
  BY <1>1, <1>4, <1>5, <1>7 DEF MergeIInv, Heads, Merging, SameCircuit
<1>12. Links'
  BY <1>1, <1>2, <1>4, <1>5, <1>6 DEF MergeIInv, Links, Merging
<1>13. Members'
  <2>1. g \in Chain(g, mg_next)
    BY <1>3, ChainSelf DEF MergeTypeOK, PointerMap
  <2>2. QED
    BY <1>4, <1>5, <1>6, <2>1 DEF MergeIInv, Members, Merging
<1>14. Lists'
  BY <1>1, <1>2, <1>4, <1>5, <1>6, <1>7 DEF MergeIInv, Lists, Merging, SameCircuit
<1>15. ChainsAcyclic'
  BY <1>6 DEF MergeIInv, ChainsAcyclic
<1>16. QED
  BY <1>8, <1>9, <1>10, <1>11, <1>12, <1>13, <1>14, <1>15 DEF MergeIInv

(* A gate written by a prepatch joins no list.                             *)
LEMMA PrePatchStep ==
  ASSUME MergeIInv, NEW k \in Key, NEW g \in Gate, MapPrePatch(g, k)
  PROVE  MergeIInv'
<1>1. /\ mg_heads' = mg_heads /\ mg_head' = mg_head /\ mg_list' = mg_list
      /\ mg_next' = mg_next
  BY DEF MapPrePatch
<1>2. MergeTypeOK' /\ Merging' = Merging
  BY DEF MergeIInv, MergeTypeOK, MapPrePatch, Merging
<1>3. \A x \in Merging : aigMiterNode'[x] = aigMiterNode[x]
  BY DEF MergeIInv, MergeTypeOK, MapPrePatch, Merging
<1>4. /\ Unmapped' /\ Links' /\ Members' /\ ChainsAcyclic'
  BY <1>1, <1>2 DEF MergeIInv, Unmapped, Links, Members, ChainsAcyclic
<1>5. Groups' /\ Heads' /\ Lists'
  BY <1>1, <1>2, <1>3 DEF MergeIInv, Groups, Heads, Lists, SameCircuit
<1>6. QED
  BY <1>2, <1>4, <1>5 DEF MergeIInv

(* With no gate mapped there is no list.                                   *)
LEMMA Empty ==
  ASSUME MergeInit
  PROVE  MergeIInv
<1>1. Merging = {} /\ MergeTypeOK
  BY MergeListAssumption DEF MergeInit, Merging, MergeTypeOK
<1>2. QED
  BY <1>1 DEF MergeInit, MergeIInv, Unmapped, Groups, Heads, Links, Members, Lists, ChainsAcyclic

(* Every step of the spec keeps the invariant.                             *)
LEMMA StepKeepsMerge ==
  ASSUME MergeIInv, [MergeNext]_mergeVars
  PROVE  MergeIInv'
<1>1. CASE ResetLists
  <2>1. Merging' = {} /\ MergeTypeOK'
    BY <1>1, MergeListAssumption DEF ResetLists, Merging, MergeTypeOK
  <2>2. QED
    BY <1>1, <2>1 DEF ResetLists, MergeIInv, Unmapped, Groups, Heads, Links, Members, Lists,
                      ChainsAcyclic
<1>2. ASSUME NEW g \in Gate, NEW k \in Key, MapPrePatch(g, k) PROVE MergeIInv'
  BY <1>2, PrePatchStep
<1>3. ASSUME NEW g \in Gate, NEW k \in Key, MapFirst(g, k) PROVE MergeIInv'
  BY <1>3, CreateStep
<1>4. ASSUME NEW g \in Gate, NEW k \in Key, MapMerge(g, k) PROVE MergeIInv'
  <2> DEFINE h == mg_heads[k]
  <2>1. /\ g \notin PrePatch /\ aigMiterNode[g] = NoKey /\ h # NoGate
        /\ aigMiterNode' = [aigMiterNode EXCEPT ![g] = k] /\ UNCHANGED mg_heads
        /\ merge(h, g)
    BY <1>4 DEF MapMerge
  <2>2. h \in Merging /\ mg_head[h] = h /\ aigMiterNode[h] = k
    BY <2>1 DEF MergeIInv, Groups
  <2>3. CASE SameCircuit(h, g) /\ mg_append(h, g)
    BY <2>1, <2>2, <2>3, AppendStep
  <2>4. CASE ~SameCircuit(h, g) /\ mg_appendFirst(h, g)
    BY <2>1, <2>4, FirstStep
  <2>5. CASE ~SameCircuit(h, g) /\ mg_list[h] # NoGate /\ mg_append(mg_list[h], g)
    <3> DEFINE l == mg_list[h]
    <3>1. l \in Merging /\ mg_head[l] = l /\ aigMiterNode[l] = k /\ SameCircuit(l, g)
      BY <2>2, <2>5 DEF MergeIInv, Lists, SameCircuit
    <3>2. QED
      BY <2>1, <2>5, <3>1, AppendStep
  <2>6. QED
    BY <2>1, <2>3, <2>4, <2>5 DEF merge, mg_appendMerged
<1>5. CASE UNCHANGED mergeVars
  BY <1>5 DEF mergeVars, MergeIInv, MergeTypeOK, Unmapped, Groups, Heads, Links, Members, Lists,
              ChainsAcyclic, Merging, SameCircuit
<1>6. QED
  BY <1>1, <1>2, <1>3, <1>4, <1>5 DEF MergeNext

(* What the rest of the program asks isMergedWith: the invariant gives     *)
(* the answer the abstract relation promises.                              *)
LEMMA IInvMerged ==
  ASSUME MergeIInv
  PROVE  MergedIffSameNode
<1>1. SUFFICES ASSUME NEW a \in Gate, NEW b \in Gate
               PROVE  isMergedWith(a, b) <=> /\ a \in Merging /\ b \in Merging
                                             /\ aigMiterNode[a] = aigMiterNode[b]
                                             /\ ~SameCircuit(a, b)
  BY DEF MergedIffSameNode
<1>2. CASE mg_list[a] = NoGate
  <2>1. \A x \in Merging : mg_head[x] # NoGate
    BY MergeListAssumption DEF MergeIInv, Heads, Merging
  <2>2. QED
    BY <1>2, <2>1 DEF isMergedWith, MergeIInv, Lists
<1>3. CASE mg_list[a] # NoGate
  <2>1. a \in Merging
    BY <1>3 DEF MergeIInv, Unmapped
  <2>2. /\ mg_list[a] \in Merging /\ aigMiterNode[mg_list[a]] = aigMiterNode[a]
        /\ ~SameCircuit(mg_list[a], a) /\ mg_head[mg_list[a]] = mg_list[a]
    BY <1>3, <2>1 DEF MergeIInv, Lists
  <2>3. b \in Chain(mg_list[a], mg_next) <=> b \in Merging /\ mg_head[b] = mg_list[a]
    BY <2>2, ChainIsClass
  <2>4. b \in Merging /\ mg_head[b] = mg_list[a]
          => aigMiterNode[a] = aigMiterNode[b] /\ ~SameCircuit(a, b)
    BY <2>2 DEF MergeIInv, Heads, SameCircuit
  <2>5. b \in Merging /\ aigMiterNode[a] = aigMiterNode[b] /\ ~SameCircuit(a, b)
          => mg_head[b] = mg_list[a]
    BY <2>1 DEF MergeIInv, Lists
  <2>6. QED
    BY <1>3, <2>1, <2>3, <2>4, <2>5 DEF isMergedWith
<1>4. QED
  BY <1>2, <1>3

-----------------------------------------------------------------------------
(***************************************************************************)
(* The theorems.                                                           *)
(***************************************************************************)

(* The invariant holds in every reachable state, for any netlists.         *)
THEOREM MergeInvariance == MergeSpec => []MergeIInv
<1>1. MergeInit => MergeIInv
  BY Empty
<1>2. MergeIInv /\ [MergeNext]_mergeVars => MergeIInv'
  BY StepKeepsMerge
<1>3. QED
  BY <1>1, <1>2, PTL DEF MergeSpec

(* The pointers stay gates or null, whatever order gates are mapped in.    *)
THEOREM MergeTypeCorrect == MergeSpec => []MergeTypeOK
<1>1. MergeIInv => MergeTypeOK
  BY DEF MergeIInv
<1>2. QED
  BY <1>1, MergeInvariance, PTL

(* isMergedWith agrees with the literals of the miter.                     *)
THEOREM MergedCorrect == MergeSpec => []MergedIffSameNode
<1>1. MergeIInv => MergedIffSameNode
  BY IInvMerged
<1>2. QED
  BY <1>1, MergeInvariance, PTL

(* The loops over _mg_next terminate.                                      *)
THEOREM WalksTerminate == MergeSpec => []ChainsAcyclic
<1>1. MergeIInv => ChainsAcyclic
  BY DEF MergeIInv
<1>2. QED
  BY <1>1, MergeInvariance, PTL

(* The pointer structure implements the relation of MergeClasses.          *)
THEOREM MergeRefinement == MergeSpec => ImplementsClasses
<1> DEFINE M == {p \in Gate \X Gate : isMergedWith(p[1], p[2])}
<1>1. MergeInit => Classes!Init
  <2>1. MergeInit => M = {}
    BY DEF MergeInit, isMergedWith
  <2>2. QED
    BY <2>1 DEF MergeInit, Classes!Init
<1>2. MergeIInv /\ MergeIInv' /\ [MergeNext]_mergeVars => [Classes!Next]_(Classes!vars)
  <2>1. SUFFICES ASSUME MergeIInv, MergeIInv', [MergeNext]_mergeVars
                 PROVE  [Classes!Next]_(Classes!vars)
    OBVIOUS
  <2>2. \A a, b \in Gate : isMergedWith(a, b) <=>
          /\ a \in Merging /\ b \in Merging
          /\ aigMiterNode[a] = aigMiterNode[b] /\ ~SameCircuit(a, b)
    BY <2>1, IInvMerged DEF MergedIffSameNode
  <2>3. (\A a, b \in Gate : isMergedWith(a, b) <=>
          /\ a \in Merging /\ b \in Merging
          /\ aigMiterNode[a] = aigMiterNode[b] /\ ~SameCircuit(a, b))'
    <3>1. MergedIffSameNode'
      BY <2>1, IInvMerged, PTL
    <3>2. QED
      BY <3>1 DEF MergedIffSameNode
  <2>4. MergeTypeOK
    BY <2>1 DEF MergeIInv
  <2>5. CASE ResetLists
    <3>1. \A a, b \in Gate : ~isMergedWith(a, b)'
      BY <2>5 DEF ResetLists, isMergedWith
    <3>2. M' = {}
      BY <3>1
    <3>3. QED
      BY <2>5, <3>2 DEF Classes!Next, Classes!Reset, ResetLists
  <2>6. ASSUME NEW g \in Gate, NEW k \in Key,
               MapPrePatch(g, k) \/ MapFirst(g, k) \/ MapMerge(g, k)
        PROVE  Classes!Next
    <3>1. aigMiterNode[g] = NoKey /\ aigMiterNode' = [aigMiterNode EXCEPT ![g] = k]
      BY <2>6 DEF MapPrePatch, MapFirst, MapMerge
    <3>2. \A x \in Gate : aigMiterNode'[x] = IF x = g THEN k ELSE aigMiterNode[x]
      BY <2>4, <3>1 DEF MergeTypeOK
    <3>3. Merging' = IF g \in PrePatch THEN Merging ELSE Merging \union {g}
      BY <3>2, MergeListAssumption DEF Merging
    <3>4. Classes!Counterparts(g, k) =
            {x \in Merging : aigMiterNode[x] = k /\ ~SameCircuit(x, g)}
      BY MergeListAssumption DEF Classes!Counterparts, Merging, SameCircuit
    <3> DEFINE C == Classes!Counterparts(g, k)
               After == IF g \in PrePatch THEN M
                        ELSE M \union ({g} \X C) \union (C \X {g})
    <3>5. g \notin Merging
      BY <3>1 DEF Merging
    <3>6. \A a, b \in Gate : isMergedWith(a, b)' <=> <<a, b>> \in After
      <4>1. SUFFICES ASSUME NEW a \in Gate, NEW b \in Gate
                     PROVE  isMergedWith(a, b)' <=> <<a, b>> \in After
        OBVIOUS
      <4>2. isMergedWith(a, b)' <=>
              /\ a \in Merging' /\ b \in Merging'
              /\ aigMiterNode'[a] = aigMiterNode'[b] /\ ~SameCircuit(a, b)
        BY <2>3 DEF SameCircuit
      <4>3. <<a, b>> \in M <=> isMergedWith(a, b)
        OBVIOUS
      <4>4. CASE g \in PrePatch
        BY <2>2, <3>2, <3>3, <3>5, <4>2, <4>3, <4>4
      <4>5. CASE g \notin PrePatch
        <5>1. <<a, b>> \in After <=> \/ isMergedWith(a, b)
                                     \/ a = g /\ b \in C
                                     \/ b = g /\ a \in C
          BY <4>3, <4>5
        <5>2. CASE a = g /\ b = g
          BY <2>2, <3>4, <3>5, <4>2, <5>1, <5>2 DEF SameCircuit
        <5>3. CASE a = g /\ b # g
          BY <2>2, <3>2, <3>3, <3>4, <3>5, <4>2, <4>5, <5>1, <5>3 DEF SameCircuit
        <5>4. CASE a # g /\ b = g
          BY <2>2, <3>2, <3>3, <3>4, <3>5, <4>2, <4>5, <5>1, <5>4 DEF SameCircuit
        <5>5. CASE a # g /\ b # g
          BY <2>2, <3>2, <3>3, <3>5, <4>2, <4>5, <5>1, <5>5
        <5>6. QED
          BY <5>2, <5>3, <5>4, <5>5
      <4>6. QED
        BY <4>4, <4>5
    <3>7. After \subseteq Gate \X Gate
      BY DEF Classes!Counterparts
    <3>8. M' = After
      <4> HIDE DEF After, C
      <4>1. \A p \in Gate \X Gate : p[1] \in Gate /\ p[2] \in Gate /\ p = <<p[1], p[2]>>
        OBVIOUS
      <4>2. \A p \in Gate \X Gate : isMergedWith(p[1], p[2])' <=> p \in After
        BY <3>6, <4>1
      <4>3. M' = {p \in Gate \X Gate : isMergedWith(p[1], p[2])'}
        OBVIOUS
      <4>4. QED
        BY <3>7, <4>2, <4>3
    <3>9. QED
      BY <3>1, <3>8 DEF Classes!Next, Classes!Map
  <2>7. CASE UNCHANGED mergeVars
    BY <2>7 DEF mergeVars, Classes!vars, isMergedWith
  <2>8. QED
    BY <2>1, <2>5, <2>6, <2>7 DEF MergeNext, Classes!Next
<1>3. QED
  BY <1>1, <1>2, MergeInvariance, PTL DEF MergeSpec, ImplementsClasses, Classes!Spec

-----------------------------------------------------------------------------
(* The selection of candidates.                                            *)

(* The solver's literals decide the candidates before i as res does, the   *)
(* candidates from i on are still on, and the removal has lost nothing.    *)
Asserted ==
  units = {<<MiterVar, TRUE>>} \union {<<m, res[m]>> : m \in 1 .. i - 1}

SelectIInv ==
  /\ SelectTypeOK
  /\ inCone = Mux
  /\ step = "encode" => i = 1 /\ res = AllOn
  /\ step = "preproof" => i = 1 /\ res = AllOn /\ Asserted
  /\ step \in {"remove", "done"} => Asserted
  /\ \A m \in i .. N : res[m] = TRUE
  /\ ValidStaysValid
  /\ KeptIffNeeded

-----------------------------------------------------------------------------

(* Assuming a value for every candidate that is not decided leaves one     *)
(* assignment: the solver answers whether it is a bad one.                 *)
LEMMA SatIsBad ==
  ASSUME SelectTypeOK, inCone = Mux, Asserted, NEW x \in Assignment,
         \A m \in 1 .. i - 1 : x[m] = res[m]
  PROVE  Sat({<<Var(j), x[j]>> : j \in i .. N}) <=> x \in bad
<1> DEFINE L == {<<Var(j), x[j]>> : j \in i .. N}
<1>1. N \in Nat /\ i \in 1 .. N + 1 /\ Mux = 1 .. N
  BY SelectPatchAssumption DEF SelectTypeOK, Mux
<1>2. \A j \in i .. N : Var(j) = j /\ j \in Mux
  BY <1>1 DEF Var
<1>3. \A m \in Mux : m # MiterVar
  BY <1>1 DEF MiterVar
<1>4. ASSUME NEW a \in bad, \A l \in units \union L : Value(a, l[1]) = l[2]
      PROVE  a = x
  <2>1. \A m \in 1 .. i - 1 : a[m] = x[m]
    <3>1. SUFFICES ASSUME NEW m \in 1 .. i - 1 PROVE a[m] = x[m]
      OBVIOUS
    <3>2. <<m, res[m]>> \in units
      BY <3>1 DEF Asserted
    <3>3. Value(a, m) = res[m]
      BY <1>4, <3>2
    <3>4. m # MiterVar
      BY <1>1, <1>3, <3>1
    <3>5. QED
      BY <3>3, <3>4 DEF Value
  <2>2. \A j \in i .. N : a[j] = x[j]
    <3>1. SUFFICES ASSUME NEW j \in i .. N PROVE a[j] = x[j]
      OBVIOUS
    <3>2. <<j, x[j]>> \in L
      BY <1>2
    <3>3. Value(a, <<j, x[j]>>[1]) = <<j, x[j]>>[2]
      BY <1>4, <3>2
    <3>4. Value(a, j) = x[j]
      BY <3>3
    <3>5. QED
      BY <1>2, <1>3, <3>4 DEF Value
  <2>3. \A m \in Mux : a[m] = x[m]
    BY <1>1, <2>1, <2>2
  <2>4. a \in Assignment
    BY <1>4 DEF SelectTypeOK
  <2>5. QED
    BY <2>3, <2>4 DEF Assignment
<1>5. ASSUME x \in bad PROVE \A l \in units \union L : Value(x, l[1]) = l[2]
  <2>1. Value(x, MiterVar) = TRUE
    BY DEF Value
  <2>2. \A m \in 1 .. i - 1 : Value(x, m) = res[m]
    <3>1. \A m \in 1 .. i - 1 : m # MiterVar
      BY <1>1 DEF MiterVar
    <3>2. QED
      BY <3>1 DEF Value
  <2>3. \A j \in i .. N : Value(x, Var(j)) = x[j]
    BY <1>2, <1>3 DEF Value
  <2>4. ASSUME NEW l \in units \union L PROVE Value(x, l[1]) = l[2]
    <3>1. CASE l = <<MiterVar, TRUE>>
      BY <2>1, <3>1
    <3>2. CASE \E m \in 1 .. i - 1 : l = <<m, res[m]>>
      BY <2>2, <3>2
    <3>3. CASE \E j \in i .. N : l = <<Var(j), x[j]>>
      BY <2>3, <3>3
    <3>4. QED
      BY <2>4, <3>1, <3>2, <3>3 DEF Asserted
  <2>5. QED
    BY <2>4
<1>6. QED
  BY <1>4, <1>5 DEF Sat

LEMMA InitSelectIInv ==
  ASSUME FraigedAway = {}, SelectInit
  PROVE  SelectIInv
<1>1. inCone = Mux
  BY DEF SelectInit
<1>2. i = 1 /\ i \in 1 .. N + 1 /\ AllOn \in Assignment
  BY SelectPatchAssumption DEF SelectInit, AllOn, Assignment
<1>3. bad \in SUBSET Assignment /\ inCone \in SUBSET Mux
  BY <1>1 DEF SelectInit
<1>4. SelectTypeOK
  BY <1>2, <1>3 DEF SelectInit, SelectTypeOK
<1>5. \A m \in i .. N : res[m] = TRUE
  BY <1>2 DEF SelectInit, AllOn, Mux
<1>6. ValidStaysValid
  BY DEF SelectInit, ValidStaysValid
<1>7. KeptIffNeeded
  <2>1. 1 .. i - 1 = {}
    BY <1>2
  <2>2. QED
    BY <2>1 DEF KeptIffNeeded
<1>8. QED
  BY <1>1, <1>2, <1>4, <1>5, <1>6, <1>7 DEF SelectInit, SelectIInv

(* One iteration of the loop.                                              *)
LEMMA RemoveStep ==
  ASSUME SelectIInv, TryRemove
  PROVE  SelectIInv'
<1> DEFINE sat == Sat({<<Var(j), Tried[j]>> : j \in i .. N})
<1>1. /\ N \in Nat /\ i \in 1 .. N /\ i \in Mux /\ step = "remove"
      /\ res \in Assignment /\ SelectTypeOK /\ inCone = Mux /\ Asserted
  BY SelectPatchAssumption DEF SelectIInv, SelectTypeOK, TryRemove, Mux
<1>2. /\ i' = i + 1 /\ bad' = bad /\ inCone' = inCone /\ legal' = legal /\ step' = step
      /\ res' = [res EXCEPT ![i] = sat] /\ units' = units \union {<<Var(i), sat>>}
  BY DEF TryRemove, Remove
<1>3. sat \in BOOLEAN
  BY DEF Sat
<1>3a. \A m \in 1 .. i - 1 : m \in Mux /\ m # i
  BY <1>1 DEF Mux
<1>4. Tried \in Assignment /\ \A m \in 1 .. i - 1 : Tried[m] = res[m]
  BY <1>1, <1>3a DEF Tried, Assignment
<1>5. sat <=> Tried \in bad
  BY <1>1, <1>4, SatIsBad
<1>6. \A m \in Mux : res'[m] = IF m = i THEN sat ELSE res[m]
  BY <1>1, <1>2 DEF Assignment
<1>7. SelectTypeOK'
  <2>1. res' \in Assignment
    BY <1>1, <1>2, <1>3 DEF Assignment
  <2>2. units' \subseteq (0 .. N) \X BOOLEAN
    BY <1>1, <1>2, <1>3 DEF SelectTypeOK, Var
  <2>3. i' \in 1 .. N + 1
    BY <1>1, <1>2
  <2>4. QED
    BY <1>1, <1>2, <2>1, <2>2, <2>3 DEF SelectTypeOK, Assignment, Mux
<1>8. Asserted'
  <2>1. 1 .. i' - 1 = (1 .. i - 1) \union {i}
    BY <1>1, <1>2
  <2>2. \A m \in 1 .. i - 1 : res'[m] = res[m]
    BY <1>6, <1>3a
  <2>3. res'[i] = sat /\ Var(i) = i
    BY <1>1, <1>6 DEF Var
  <2>4. QED
    BY <1>1, <1>2, <2>1, <2>2, <2>3 DEF Asserted
<1>9. \A m \in i' .. N : res'[m] = TRUE
  BY <1>1, <1>2, <1>6 DEF SelectIInv, Mux
<1>10. ValidStaysValid'
  <2>1. CASE sat
    <3>1. res[i] = TRUE
      BY <1>1 DEF SelectIInv
    <3>2. res' = res
      BY <1>1, <1>2, <1>3, <2>1, <3>1 DEF Assignment
    <3>3. QED
      BY <1>1, <1>2, <3>2 DEF SelectIInv, ValidStaysValid
  <2>2. CASE ~sat
    <3>1. res' = Tried
      BY <1>2, <1>3, <2>2 DEF Tried
    <3>2. res' \notin bad'
      BY <1>2, <1>5, <2>2, <3>1
    <3>3. QED
      BY <3>2 DEF ValidStaysValid
  <2>3. QED
    BY <2>1, <2>2
<1>11. KeptIffNeeded'
  <2>0. i' - 1 = i /\ bad' = bad
    BY <1>1, <1>2
  <2>1. SUFFICES ASSUME NEW m \in 1 .. i PROVE res'[m] <=> Without(m)' \in bad
    BY <2>0 DEF KeptIffNeeded
  <2>2. m \in Mux
    BY <1>1, <2>1 DEF Mux
  <2>3. Without(m)' = Without(m)
    <3>1. Without(m)' = [k \in Mux |-> IF k < m THEN res'[k] ELSE k # m]
      BY DEF Without
    <3>2. \A k \in Mux : (IF k < m THEN res'[k] ELSE k # m) = (IF k < m THEN res[k] ELSE k # m)
      <4>1. \A k \in Mux : k < m => k # i
        BY <1>1, <2>1 DEF Mux
      <4>2. QED
        BY <1>6, <4>1
    <3>3. QED
      BY <3>1, <3>2 DEF Without
  <2>4. CASE m # i
    <3>1. m \in 1 .. i - 1 /\ res'[m] = res[m]
      <4>1. m \in 1 .. i - 1
        BY <1>1, <2>1, <2>4
      <4>2. QED
        BY <1>6, <2>2, <2>4, <4>1
    <3>2. QED
      BY <2>3, <3>1 DEF SelectIInv, KeptIffNeeded
  <2>5. CASE m = i
    <3>1. \A k \in Mux : Tried[k] = IF k < i THEN res[k] ELSE k # i
      <4>1. \A k \in Mux : k < i \/ k = i \/ k \in i .. N
        BY <1>1 DEF Mux
      <4>2. ~(i < i) /\ \A k \in Mux : k < i => k # i
        BY <1>1 DEF Mux
      <4>3. \A k \in Mux : Tried[k] = IF k = i THEN FALSE ELSE res[k]
        BY <1>1 DEF Tried, Assignment
      <4>4. \A k \in i .. N : res[k] = TRUE
        BY DEF SelectIInv
      <4>5. QED
        BY <4>1, <4>2, <4>3, <4>4
    <3>2. Tried = Without(i)
      BY <1>4, <3>1 DEF Without, Assignment
    <3>3. QED
      BY <1>1, <1>5, <1>6, <2>3, <2>5, <3>2
  <2>6. QED
    BY <2>4, <2>5
<1>12. QED
  BY <1>1, <1>2, <1>7, <1>8, <1>9, <1>10, <1>11 DEF SelectIInv, Mux

(* Every step of the spec keeps the invariant.                             *)
LEMMA StepKeepsSelect ==
  ASSUME SelectIInv, [SelectNext]_selectVars
  PROVE  SelectIInv'
<1>1. CASE Encode
  <2>1. i = 1 /\ res = AllOn /\ 1 .. i - 1 = {}
    BY <1>1, SelectPatchAssumption DEF SelectIInv, Encode
  <2>2. Asserted'
    BY <1>1, <2>1 DEF Encode, Asserted
  <2>3. QED
    <3>1. <<MiterVar, TRUE>> \in (0 .. N) \X BOOLEAN
      <4>1. MiterVar \in 0 .. N
        BY SelectPatchAssumption DEF MiterVar
      <4>2. QED
        BY <4>1
    <3>2. SelectTypeOK'
      BY <1>1, <3>1 DEF Encode, SelectIInv, SelectTypeOK
    <3>3. ValidStaysValid' /\ KeptIffNeeded'
      BY <1>1, <2>1 DEF Encode, ValidStaysValid, KeptIffNeeded
    <3>4. QED
      BY <1>1, <2>1, <2>2, <3>2, <3>3 DEF Encode, SelectIInv
<1>2. CASE PreProof
  <2>1. i = 1 /\ res = AllOn /\ Asserted /\ SelectTypeOK /\ inCone = Mux
    BY <1>2 DEF SelectIInv, PreProof
  <2>2. AllOn \in Assignment /\ \A m \in 1 .. i - 1 : AllOn[m] = res[m]
    BY <2>1 DEF AllOn, Assignment
  <2>3. {<<Var(m), TRUE>> : m \in Mux} = {<<Var(j), AllOn[j]>> : j \in i .. N}
    BY <2>1 DEF AllOn, Mux
  <2>4. legal' <=> res \notin bad
    BY <1>2, <2>1, <2>2, <2>3, SatIsBad DEF PreProof
  <2>5. legal' \in BOOLEAN
    BY <1>2 DEF PreProof
  <2>6. QED
    <3>1. SelectTypeOK'
      BY <1>2, <2>1, <2>5 DEF PreProof, SelectTypeOK
    <3>2. ValidStaysValid'
      BY <1>2, <2>4 DEF PreProof, ValidStaysValid
    <3>3. KeptIffNeeded' /\ Asserted'
      BY <1>2, <2>1 DEF PreProof, KeptIffNeeded, Asserted
    <3>4. QED
      BY <1>2, <2>1, <3>1, <3>2, <3>3 DEF PreProof, SelectIInv
<1>3. CASE TryRemove
  BY <1>3, RemoveStep
<1>4. CASE Finish
  BY <1>4 DEF Finish, SelectIInv, SelectTypeOK, Asserted, ValidStaysValid, KeptIffNeeded, Without
<1>5. CASE UNCHANGED selectVars
  BY <1>5 DEF selectVars, SelectIInv, SelectTypeOK, Asserted, ValidStaysValid, KeptIffNeeded, Without
<1>6. QED
  BY <1>1, <1>2, <1>3, <1>4, <1>5 DEF SelectNext

-----------------------------------------------------------------------------

(* With every select input in the cone the invariant holds in every        *)
(* reachable state.                                                        *)
LEMMA SelectInvariance ==
  ASSUME FraigedAway = {}
  PROVE  SelectSpec => []SelectIInv
<1>1. SelectInit => SelectIInv
  BY InitSelectIInv
<1>2. SelectIInv /\ [SelectNext]_selectVars => SelectIInv'
  BY StepKeepsSelect
<1>3. QED
  BY <1>1, <1>2, PTL DEF SelectSpec

(* A valid set of candidates stays valid while candidates are removed.     *)
THEOREM SelectionValid ==
  ASSUME FraigedAway = {}
  PROVE  SelectSpec => []ValidStaysValid
<1>1. SelectIInv => ValidStaysValid
  BY DEF SelectIInv
<1>2. QED
  BY <1>1, SelectInvariance, PTL

(* A candidate is kept exactly when it was needed at its turn.             *)
THEOREM SelectionNeeded ==
  ASSUME FraigedAway = {}
  PROVE  SelectSpec => []KeptIffNeeded
<1>1. SelectIInv => KeptIffNeeded
  BY DEF SelectIInv
<1>2. QED
  BY <1>1, SelectInvariance, PTL

(* Type correctness needs no assumption on the cone.                       *)
THEOREM SelectTypeCorrect == SelectSpec => []SelectTypeOK
<1>1. SelectInit => SelectTypeOK
  <2>1. AllOn \in Assignment /\ 1 \in 1 .. N + 1
    BY SelectPatchAssumption DEF AllOn, Assignment
  <2>2. SelectInit => bad \in SUBSET Assignment /\ inCone \in SUBSET Mux
    BY DEF SelectInit
  <2>3. QED
    BY <2>1, <2>2 DEF SelectInit, SelectTypeOK
<1>2. SelectTypeOK /\ [SelectNext]_selectVars => SelectTypeOK'
  <2>1. SUFFICES ASSUME SelectTypeOK, [SelectNext]_selectVars PROVE SelectTypeOK'
    OBVIOUS
  <2>2. CASE Encode
    <3>1. <<MiterVar, TRUE>> \in (0 .. N) \X BOOLEAN
      <4>1. MiterVar \in 0 .. N
        BY SelectPatchAssumption DEF MiterVar
      <4>2. QED
        BY <4>1
    <3>2. QED
      BY <2>1, <2>2, <3>1 DEF Encode, SelectTypeOK
  <2>3. CASE PreProof
    BY <2>1, <2>3 DEF PreProof, SelectTypeOK
  <2>4. CASE TryRemove
    <3> DEFINE sat == Sat({<<Var(j), Tried[j]>> : j \in i .. N})
    <3>1. i \in 1 .. N /\ N \in Nat /\ sat \in BOOLEAN
      BY <2>1, <2>4, SelectPatchAssumption DEF SelectTypeOK, TryRemove, Sat
    <3>2. Var(i) \in 0 .. N /\ <<Var(i), sat>> \in (0 .. N) \X BOOLEAN
      <4>1. Var(i) \in 0 .. N
        BY <3>1 DEF Var, MiterVar
      <4>2. QED
        BY <3>1, <4>1
    <3>3. res' = [res EXCEPT ![i] = sat] /\ units' = units \union {<<Var(i), sat>>}
      BY <2>4 DEF TryRemove, Remove
    <3>4. res' \in Assignment /\ units' \subseteq (0 .. N) \X BOOLEAN /\ i' \in 1 .. N + 1
      <4> HIDE DEF sat
      <4>1. res' \in Assignment
        BY <2>1, <3>1, <3>3 DEF SelectTypeOK, Assignment
      <4>2. units' \subseteq (0 .. N) \X BOOLEAN
        BY <2>1, <3>2, <3>3 DEF SelectTypeOK
      <4>3. i' \in 1 .. N + 1
        BY <2>4, <3>1 DEF TryRemove
      <4>4. QED
        BY <4>1, <4>2, <4>3
    <3>5. QED
      BY <2>1, <2>4, <3>4 DEF SelectTypeOK, TryRemove
  <2>5. CASE Finish
    BY <2>1, <2>5 DEF Finish, SelectTypeOK
  <2>6. CASE UNCHANGED selectVars
    BY <2>1, <2>6 DEF selectVars, SelectTypeOK
  <2>7. QED
    BY <2>1, <2>2, <2>3, <2>4, <2>5, <2>6 DEF SelectNext
<1>3. QED
  BY <1>1, <1>2, PTL DEF SelectSpec

-----------------------------------------------------------------------------
(* The driver.                                                             *)

InSearch == {"prepatch", "pairs", "selector", "select", "record", "output", "check", "rm", "cp", "assign"}

(* Where a search can be.                                                  *)
Where ==
  /\ mode = "first" =>
       pc \in {"start", "miter", "aigs", "sim", "prepatch", "pairs", "selector",
              "select", "return", "pair", "done", "aborted"}
  /\ mode = "similar" =>
       pc \in {"start", "miter", "aigs", "sim", "pair", "done", "aborted"}
  /\ pc = "prepatch" => mode = "first"
  /\ pc = "pair" => mode \in {"similar", "first", "second"}

(* The manager holds no netlist or the one of the search that runs; in the *)
(* second prepatch search, the prepatched file and the record are the      *)
(* pair's.                                                                 *)
RightNetlist ==
  /\ netlist # NoNetlist =>
       netlist = IF mode = "second" THEN PedNetlist(pair) ELSE OldNetlist
  /\ pc \in InSearch => netlist # NoNetlist
  /\ pc \in {"miter", "aigs", "pair"} => netlist = NoNetlist
  /\ pc = "sim" => netlist # NoNetlist

RightRecord ==
  /\ mode = "second" /\ pc \notin {"pair", "done"} => ped = pair /\ record = pair
  /\ mode = "first" /\ pc \in {"pairs", "selector", "select"} => ped = pair
  /\ mode = "first" /\ pc = "return" /\ ret = TRUE => ped = pair /\ record = pair

Rounds ==
  /\ rounds = simCount
  /\ pc \in {"prepatch", "pairs"} => SimNum <= rounds

NoPairs == pc \in {"start", "miter", "aigs", "sim", "pair"} => ~recPairs

Flags ==
  /\ FlagsFit
  /\ "parse" \in flags => pc \in {"aigs", "aborted"}

(* The replacement: a cheaper patch is checked, then removed, copied and   *)
(* reported.                                                               *)
Replacement ==
  /\ bestCost <= IntMax
  /\ pc \in {"check", "rm", "cp", "assign"} =>
       tmp.cost = cost /\ cost \in Cost /\ cost < bestCost
  /\ pc \in {"rm", "cp", "assign"} => tmp.eq
  /\ NeverUnverified

OnDisk ==
  ~shellFails =>
    /\ PatchMatchesBest
    /\ pc = "cp" => patch = NoFile
    /\ pc = "assign" => patch = tmp

IInv ==
  /\ TypeOK
  /\ Where
  /\ RightNetlist
  /\ RightRecord
  /\ Rounds
  /\ NoPairs
  /\ Flags
  /\ Replacement
  /\ OnDisk

-----------------------------------------------------------------------------
Tries == (1 .. Len(SimArr)) \X Nat \X Nat
Netlists == {"none", "old", "ped"} \X Nat

(* The loops start inside the arrays.                                      *)
LEMMA FirstTyped == First \in Tries
  BY EcoDriverAssumption DEF First, Tries

(* They stay inside them while the outer index is within its bound.        *)
LEMMA NextTyped ==
  ASSUME try \in Tries, NEW dims \in [1 .. 3 -> Nat \ {0}], NEW timeout,
         dims[1] <= Len(SimArr), NextTry(dims, timeout)[1] <= dims[1]
  PROVE  NextTry(dims, timeout) \in Tries
<1> DEFINE a == try[1]
           b == try[2]
           c == try[3]
<1>1. a \in 1 .. Len(SimArr) /\ b \in Nat /\ c \in Nat
    BY DEF Tries
<1>2. Len(SimArr) \in Nat /\ dims[1] \in Nat
    BY EcoDriverAssumption
<1> HIDE DEF a, b, c
<1>3. CASE ~timeout /\ c < dims[3]
    BY <1>1, <1>3 DEF NextTry, Tries, a, b, c
<1>4. CASE ~(~timeout /\ c < dims[3]) /\ b < dims[2]
    BY <1>1, <1>4 DEF NextTry, Tries, a, b, c
<1>5. CASE ~(~timeout /\ c < dims[3]) /\ ~(b < dims[2])
  <2>1. NextTry(dims, timeout) = <<a + 1, 1, 1>>
      BY <1>5 DEF NextTry, a, b, c
  <2>2. a + 1 <= dims[1]
      BY <2>1
  <2>3. a + 1 \in 1 .. Len(SimArr)
      BY <1>1, <1>2, <2>2
  <2> QED
      BY <2>1, <2>3 DEF Tries
<1> QED
    BY <1>3, <1>4, <1>5

LEMMA NetlistsTyped ==
  /\ NoNetlist \in Netlists
  /\ OldNetlist \in Netlists
  /\ \A l \in Nat : PedNetlist(l) \in Netlists
  BY DEF Netlists, NoNetlist, OldNetlist, PedNetlist

LEMMA SimNumTyped == TypeOK => SimNum \in Nat
<1> SUFFICES ASSUME TypeOK PROVE SimNum \in Nat
    OBVIOUS
<1>1. try[1] \in 1 .. Len(SimArr)
    BY DEF TypeOK
<1>2. SimArr \in Seq(Nat) /\ PoSim \in Nat
    BY EcoDriverAssumption
<1>3. SimArr[try[1]] \in Nat
    BY <1>1, <1>2
<1> QED
    BY <1>2, <1>3 DEF SimNum

Tmps == [cost : Cost \union {IntMax}, eq : BOOLEAN]
Files == {NoFile, Leftover} \union Patch
FlagSets == SUBSET {"parse", "strash", "fraig"}
Points ==
  {"start", "miter", "aigs", "sim", "prepatch", "pairs", "selector", "select", "record",
   "output", "check", "rm", "cp", "assign", "return", "pair", "done", "aborted"}

(* The type invariant in three parts, with the product types named.        *)
ControlTyped ==
  /\ pc \in Points
  /\ mode \in {"po", "eco", "similar", "first", "second"}
  /\ tryAll \in BOOLEAN /\ shellFails \in BOOLEAN
  /\ try \in Tries
  /\ pair \in Nat
  /\ numPairs \in 0 .. MaxPairs
  /\ ret \in BOOLEAN

ManagerTyped ==
  /\ netlist \in Netlists
  /\ recPairs \in BOOLEAN
  /\ simCount \in Nat
  /\ rounds \in Nat
  /\ cost \in Nat

FilesTyped ==
  /\ flags \in FlagSets
  /\ ped \in Nat
  /\ record \in Nat
  /\ tmp \in Tmps
  /\ patch \in Files
  /\ bestCost \in Cost \union {IntMax}

Typed == ControlTyped /\ ManagerTyped /\ FilesTyped

LEMMA TypedIsTypeOK == (TypeOK <=> Typed) /\ (TypeOK' <=> Typed')
  BY DEF TypeOK, Typed, ControlTyped, ManagerTyped, FilesTyped, Tries, Netlists,
         Tmps, Files, FlagSets, Points

LEMMA PointsTyped ==
  /\ {"start", "miter", "aigs", "sim", "prepatch", "pairs", "selector", "select"} \subseteq Points
  /\ {"record", "output", "check", "rm", "cp", "assign", "return", "pair", "done", "aborted"} \subseteq Points
  BY DEF Points

LEMMA FlagSetsTyped ==
  {} \in FlagSets /\ {"parse", "strash"} \in FlagSets /\ {"strash", "fraig"} \in FlagSets
  BY DEF FlagSets

(* What the handlers and the resets write has its type.                    *)
LEMMA ResetTyped == Typed /\ (Reset \/ ResetRecPair) => ManagerTyped'
<1>1. ASSUME Typed, Reset PROVE ManagerTyped'
    BY <1>1, NetlistsTyped DEF ManagerTyped, Reset
<1>2. Typed /\ ResetRecPair => ManagerTyped'
    BY DEF Typed, ManagerTyped, ResetRecPair
<1> QED
    BY <1>1, <1>2

LEMMA ThrowTyped ==
  Typed /\ (ThrowResetRec \/ ThrowResetMgr) =>
    /\ ManagerTyped'
    /\ ControlTyped'
    /\ UNCHANGED result
<1> SUFFICES ASSUME Typed, ThrowResetRec \/ ThrowResetMgr
             PROVE  ManagerTyped' /\ ControlTyped' /\ UNCHANGED result
    OBVIOUS
<1>1. ManagerTyped'
    BY ResetTyped DEF ThrowResetRec, ThrowResetMgr
<1>2. pc' \in Points /\ ret' \in BOOLEAN
    BY PointsTyped DEF ThrowResetRec, ThrowResetMgr
<1>3. UNCHANGED <<control, result>>
    BY DEF ThrowResetRec, ThrowResetMgr
<1> QED
    BY <1>1, <1>2, <1>3 DEF Typed, ControlTyped, control

LEMMA AbortTyped == Typed /\ Abort => Typed'
  BY PointsTyped DEF Abort, Typed, ControlTyped, ManagerTyped, FilesTyped, control, manager, prepatch, result

LEMMA TypeStep == IInv /\ [Next]_vars => TypeOK'
<1> SUFFICES ASSUME IInv, [Next]_vars PROVE Typed'
    BY TypedIsTypeOK
<1>a. Typed
    BY TypedIsTypeOK DEF IInv
<1>b. Cost \subseteq Nat /\ IntMax \in Nat
    BY EcoDriverAssumption
<1> USE PointsTyped, FlagSetsTyped DEF Typed, ControlTyped, ManagerTyped, FilesTyped, control, manager, prepatch, result
<1>1. CASE Start
    BY <1>a, <1>1 DEF Start
<1>2. CASE Miter
    BY <1>a, <1>2 DEF Miter
<1>3. CASE ReadAigs
  <2>1. CASE Abort
      BY <1>a, <2>1, AbortTyped
  <2>2. CASE ~Abort
    <3>1. netlist' \in Netlists
        BY <1>a, <1>3, <2>2, NetlistsTyped DEF ReadAigs
    <3> QED
        BY <1>a, <1>3, <2>2, <3>1 DEF ReadAigs
  <2> QED
      BY <2>1, <2>2
<1>4. CASE Sim
  <2>1. SimNum \in Nat
      BY SimNumTyped DEF IInv
  <2> QED
      BY <1>a, <1>4, <2>1 DEF Sim
<1>5. CASE PairPOs
    BY <1>a, <1>5 DEF PairPOs
<1>6. CASE IdentifyRecPairs
    BY <1>a, <1>6 DEF IdentifyRecPairs
<1>7. CASE PrepatchPair
  <2>1. flags' \in FlagSets /\ record' \in Nat /\ ped' \in {ped, pair}
      BY <1>7 DEF PrepatchPair
  <2>2. CASE ThrowResetRec \/ ThrowResetMgr
      BY <1>a, <2>1, <2>2, ThrowTyped
  <2>3. CASE ~ThrowResetRec /\ ~ThrowResetMgr
      BY <1>a, <1>b, <1>7, <2>1, <2>3 DEF PrepatchPair
  <2> QED
      BY <2>2, <2>3
<1>8. CASE BuildAndLoadSelector
  <2>1. CASE ThrowResetRec
      BY <1>a, <1>8, <2>1, ThrowTyped DEF BuildAndLoadSelector, ThrowResetRec
  <2>2. CASE ~ThrowResetRec
      BY <1>a, <1>8, <2>2 DEF BuildAndLoadSelector
  <2> QED
      BY <2>1, <2>2
<1>9. CASE SelectPatch
  <2>1. pc' \in Points /\ record' \in Nat /\ recPairs' \in BOOLEAN
      BY <1>a, <1>9 DEF SelectPatch
  <2> QED
      BY <1>a, <1>9, <2>1 DEF SelectPatch
<1>10. CASE AddRecord
  <2>1. CASE ThrowResetMgr
      BY <1>a, <1>10, <2>1, ThrowTyped DEF AddRecord, ThrowResetMgr
  <2>2. CASE ~ThrowResetMgr
      BY <1>a, <1>10, <2>2 DEF AddRecord
  <2> QED
      BY <2>1, <2>2
<1>11. CASE OutputPatchFile
  <2>1. CASE \E c \in Cost, eq \in BOOLEAN :
               /\ cost' = c
               /\ tmp' = [cost |-> c, eq |-> eq]
               /\ pc' = IF c < bestCost THEN "check" ELSE "return"
               /\ UNCHANGED <<control, ret, manager, flags, prepatch, patch, bestCost>>
    <3>1. tmp' \in Tmps /\ cost' \in Nat /\ pc' \in Points
        BY <1>b, <2>1 DEF Tmps
    <3>2. UNCHANGED <<control, ret, manager, flags, prepatch, patch, bestCost>>
        BY <2>1
    <3> QED
        BY <1>a, <3>1, <3>2
  <2>2. CASE ThrowResetRec /\ UNCHANGED <<flags, prepatch>>
      BY <1>a, <2>2, ThrowTyped
  <2>3. CASE Abort
      BY <1>a, <2>3, AbortTyped
  <2> QED
      BY <1>11, <2>1, <2>2, <2>3 DEF OutputPatchFile
<1>12. CASE CheckPatched
    BY <1>a, <1>12 DEF CheckPatched
<1>13. CASE RemovePatch
  <2>1. NoFile \in Files
      BY DEF Files
  <2> QED
      BY <1>a, <1>13, <2>1 DEF RemovePatch, ShellFailed
<1>14. CASE CopyPatch
  <2>1. tmp \in Files
    <3>1. tmp.cost \in Cost
        BY <1>14 DEF IInv, Replacement, CopyPatch
    <3> QED
        BY <1>a, <3>1 DEF Files, Tmps, Patch
  <2> QED
      BY <1>a, <1>14, <2>1 DEF CopyPatch, ShellFailed
<1>15. CASE AssignBestCost
  <2>1. cost \in Cost
      BY <1>15 DEF IInv, Replacement, AssignBestCost
  <2> QED
      BY <1>a, <1>15, <2>1 DEF AssignBestCost
<1>16. CASE AfterPo
    BY <1>a, <1>16, ResetTyped, FirstTyped DEF AfterPo
<1>17. CASE AfterSingleEco
    BY <1>a, <1>17 DEF AfterSingleEco
<1>18. CASE AfterEco
  <2>1. EcoDims \in [1 .. 3 -> Nat \ {0}] /\ EcoDims[1] <= Len(SimArr) /\ EcoDims[1] \in Nat
      BY EcoDriverAssumption
  <2>2. NextTry(EcoDims, ret)[1] <= EcoDims[1] => NextTry(EcoDims, ret) \in Tries
      BY <1>a, <2>1, NextTyped
  <2>3. NextTry(EcoDims, ret)[1] \in Int
      BY <1>a DEF NextTry, Tries
  <2>4. try' \in Tries
      BY <1>a, <1>18, <2>1, <2>2, <2>3, FirstTyped DEF AfterEco
  <2>5. ManagerTyped'
      BY <1>a, <1>18, ResetTyped DEF AfterEco
  <2>6. pc' \in Points /\ mode' \in {"similar", mode} /\ pair' \in Nat
      BY <1>a, <1>18 DEF AfterEco
  <2> QED
      BY <1>a, <1>18, <2>4, <2>5, <2>6 DEF AfterEco
<1>19. CASE FindSimilarPairs
  <2>1. CASE Abort
      BY <1>a, <2>1, AbortTyped
  <2>2. CASE ~Abort
    <3>1. ManagerTyped'
        BY <1>a, <1>19, <2>2, ResetTyped DEF FindSimilarPairs
    <3>2. flags' \in FlagSets
        BY <1>a, <1>19, <2>2 DEF FindSimilarPairs
    <3> QED
        BY <1>a, <1>19, <2>2, <3>1, <3>2 DEF FindSimilarPairs
  <2> QED
      BY <2>1, <2>2
<1>20. CASE NextPair
  <2>1. pc' \in Points /\ mode' \in {"first", mode}
      BY <1>20 DEF NextPair
  <2> QED
      BY <1>a, <1>20, <2>1 DEF NextPair
<1>21. CASE AfterFirst
  <2>1. ManagerTyped'
      BY <1>a, <1>21, ResetTyped DEF AfterFirst
  <2>2. pc' \in Points /\ mode' \in {"second", mode} /\ try' \in Tries /\ pair' \in Nat
      BY <1>a, <1>21, FirstTyped DEF AfterFirst
  <2> QED
      BY <1>a, <1>21, <2>1, <2>2 DEF AfterFirst
<1>22. CASE AfterSecond
  <2>1. PreDims \in [1 .. 3 -> Nat \ {0}] /\ PreDims[1] <= Len(SimArr) /\ PreDims[1] \in Nat
      BY EcoDriverAssumption
  <2>2. NextTry(PreDims, ret)[1] <= PreDims[1] => NextTry(PreDims, ret) \in Tries
      BY <1>a, <2>1, NextTyped
  <2>3. NextTry(PreDims, ret)[1] \in Int
      BY <1>a DEF NextTry, Tries
  <2>4. try' \in Tries
      BY <1>a, <1>22, <2>1, <2>2, <2>3, FirstTyped DEF AfterSecond
  <2>5. ManagerTyped'
      BY <1>a, <1>22, ResetTyped DEF AfterSecond
  <2>6. pc' \in Points /\ mode' \in {"similar", mode} /\ pair' \in Nat
      BY <1>a, <1>22 DEF AfterSecond
  <2> QED
      BY <1>a, <1>22, <2>4, <2>5, <2>6 DEF AfterSecond
<1>23. CASE UNCHANGED vars
    BY <1>a, <1>23 DEF vars
<1> QED
    BY <1>1, <1>2, <1>3, <1>4, <1>5, <1>6, <1>7, <1>8, <1>9, <1>10, <1>11, <1>12, <1>13, <1>14, <1>15, <1>16, <1>17, <1>18, <1>19, <1>20, <1>21, <1>22, <1>23 DEF Next, Search, Loops, Terminating

LEMMA WhereStep == IInv /\ [Next]_vars => Where'
<1> SUFFICES ASSUME IInv, [Next]_vars PROVE Where'
    OBVIOUS
<1> USE DEF Where, IInv, vars, control, manager, prepatch, result, Abort, Reset, ResetRecPair, ThrowResetRec, ThrowResetMgr, ShellFailed
<1>1. CASE Start
    BY <1>1 DEF Start
<1>2. CASE Miter
    BY <1>2 DEF Miter
<1>3. CASE ReadAigs
    BY <1>3 DEF ReadAigs
<1>4. CASE Sim
    BY <1>4 DEF Sim
<1>5. CASE PairPOs
    BY <1>5 DEF PairPOs
<1>6. CASE IdentifyRecPairs
    BY <1>6 DEF IdentifyRecPairs
<1>7. CASE PrepatchPair
    BY <1>7 DEF PrepatchPair
<1>8. CASE BuildAndLoadSelector
    BY <1>8 DEF BuildAndLoadSelector
<1>9. CASE SelectPatch
    BY <1>9 DEF SelectPatch
<1>10. CASE AddRecord
    BY <1>10 DEF AddRecord
<1>11. CASE OutputPatchFile
    BY <1>11 DEF OutputPatchFile
<1>12. CASE CheckPatched
    BY <1>12 DEF CheckPatched
<1>13. CASE RemovePatch
    BY <1>13 DEF RemovePatch
<1>14. CASE CopyPatch
    BY <1>14 DEF CopyPatch
<1>15. CASE AssignBestCost
    BY <1>15 DEF AssignBestCost
<1>16. CASE AfterPo
    BY <1>16 DEF AfterPo
<1>17. CASE AfterSingleEco
    BY <1>17 DEF AfterSingleEco
<1>18. CASE AfterEco
    BY <1>18 DEF AfterEco
<1>19. CASE FindSimilarPairs
    BY <1>19 DEF FindSimilarPairs
<1>20. CASE NextPair
    BY <1>20 DEF NextPair
<1>21. CASE AfterFirst
    BY <1>21 DEF AfterFirst
<1>22. CASE AfterSecond
    BY <1>22 DEF AfterSecond
<1>23. CASE UNCHANGED vars
    BY <1>23
<1> QED
    BY <1>1, <1>2, <1>3, <1>4, <1>5, <1>6, <1>7, <1>8, <1>9, <1>10, <1>11, <1>12, <1>13, <1>14, <1>15, <1>16, <1>17, <1>18, <1>19, <1>20, <1>21, <1>22, <1>23 DEF Next, Search, Loops, Terminating

LEMMA NetlistStep == IInv /\ [Next]_vars => RightNetlist'
<1> SUFFICES ASSUME IInv, [Next]_vars PROVE RightNetlist'
    OBVIOUS
<1>a. NoNetlist # OldNetlist /\ \A l : NoNetlist # PedNetlist(l)
    BY DEF NoNetlist, OldNetlist, PedNetlist
<1> USE <1>a DEF RightNetlist, RightRecord, Where, InSearch, IInv, vars, control, manager, prepatch, result, Abort, Reset, ResetRecPair, ThrowResetRec, ThrowResetMgr, ShellFailed
<1>1. CASE Start
    BY <1>1 DEF Start
<1>2. CASE Miter
    BY <1>2 DEF Miter
<1>3. CASE ReadAigs
    BY <1>3 DEF ReadAigs
<1>4. CASE Sim
    BY <1>4 DEF Sim
<1>5. CASE PairPOs
    BY <1>5 DEF PairPOs
<1>6. CASE IdentifyRecPairs
    BY <1>6 DEF IdentifyRecPairs
<1>7. CASE PrepatchPair
    BY <1>7 DEF PrepatchPair
<1>8. CASE BuildAndLoadSelector
    BY <1>8 DEF BuildAndLoadSelector
<1>9. CASE SelectPatch
    BY <1>9 DEF SelectPatch
<1>10. CASE AddRecord
    BY <1>10 DEF AddRecord
<1>11. CASE OutputPatchFile
    BY <1>11 DEF OutputPatchFile
<1>12. CASE CheckPatched
    BY <1>12 DEF CheckPatched
<1>13. CASE RemovePatch
    BY <1>13 DEF RemovePatch
<1>14. CASE CopyPatch
    BY <1>14 DEF CopyPatch
<1>15. CASE AssignBestCost
    BY <1>15 DEF AssignBestCost
<1>16. CASE AfterPo
    BY <1>16 DEF AfterPo
<1>17. CASE AfterSingleEco
    BY <1>17 DEF AfterSingleEco
<1>18. CASE AfterEco
    BY <1>18 DEF AfterEco
<1>19. CASE FindSimilarPairs
    BY <1>19 DEF FindSimilarPairs
<1>20. CASE NextPair
  <2>1. netlist = NoNetlist /\ netlist' = netlist
      BY <1>20 DEF NextPair
  <2>2. pc' \in {"start", "done"}
      BY <1>20 DEF NextPair
  <2> QED
      BY <2>1, <2>2
<1>21. CASE AfterFirst
    BY <1>21 DEF AfterFirst
<1>22. CASE AfterSecond
    BY <1>22 DEF AfterSecond
<1>23. CASE UNCHANGED vars
    BY <1>23
<1> QED
    BY <1>1, <1>2, <1>3, <1>4, <1>5, <1>6, <1>7, <1>8, <1>9, <1>10, <1>11, <1>12, <1>13, <1>14, <1>15, <1>16, <1>17, <1>18, <1>19, <1>20, <1>21, <1>22, <1>23 DEF Next, Search, Loops, Terminating

LEMMA RecordStep == IInv /\ [Next]_vars => RightRecord'
<1> SUFFICES ASSUME IInv, [Next]_vars PROVE RightRecord'
    OBVIOUS
<1> USE DEF RightRecord, Where, IInv, vars, control, manager, prepatch, result, Abort, Reset, ResetRecPair, ThrowResetRec, ThrowResetMgr, ShellFailed
<1>1. CASE Start
    BY <1>1 DEF Start
<1>2. CASE Miter
    BY <1>2 DEF Miter
<1>3. CASE ReadAigs
    BY <1>3 DEF ReadAigs
<1>4. CASE Sim
    BY <1>4 DEF Sim
<1>5. CASE PairPOs
    BY <1>5 DEF PairPOs
<1>6. CASE IdentifyRecPairs
    BY <1>6 DEF IdentifyRecPairs
<1>7. CASE PrepatchPair
    BY <1>7 DEF PrepatchPair
<1>8. CASE BuildAndLoadSelector
    BY <1>8 DEF BuildAndLoadSelector
<1>9. CASE SelectPatch
    BY <1>9 DEF SelectPatch
<1>10. CASE AddRecord
    BY <1>10 DEF AddRecord
<1>11. CASE OutputPatchFile
    BY <1>11 DEF OutputPatchFile
<1>12. CASE CheckPatched
    BY <1>12 DEF CheckPatched
<1>13. CASE RemovePatch
    BY <1>13 DEF RemovePatch
<1>14. CASE CopyPatch
    BY <1>14 DEF CopyPatch
<1>15. CASE AssignBestCost
    BY <1>15 DEF AssignBestCost
<1>16. CASE AfterPo
    BY <1>16 DEF AfterPo
<1>17. CASE AfterSingleEco
    BY <1>17 DEF AfterSingleEco
<1>18. CASE AfterEco
    BY <1>18 DEF AfterEco
<1>19. CASE FindSimilarPairs
    BY <1>19 DEF FindSimilarPairs
<1>20. CASE NextPair
    BY <1>20 DEF NextPair
<1>21. CASE AfterFirst
    BY <1>21 DEF AfterFirst
<1>22. CASE AfterSecond
    BY <1>22 DEF AfterSecond
<1>23. CASE UNCHANGED vars
    BY <1>23
<1> QED
    BY <1>1, <1>2, <1>3, <1>4, <1>5, <1>6, <1>7, <1>8, <1>9, <1>10, <1>11, <1>12, <1>13, <1>14, <1>15, <1>16, <1>17, <1>18, <1>19, <1>20, <1>21, <1>22, <1>23 DEF Next, Search, Loops, Terminating

LEMMA RoundsStep == IInv /\ [Next]_vars => Rounds'
<1> SUFFICES ASSUME IInv, [Next]_vars PROVE Rounds'
    OBVIOUS
<1>a. SimNum \in Nat
    BY SimNumTyped DEF IInv
<1>b. UNCHANGED control => SimNum' = SimNum
    BY DEF SimNum, control
<1> USE <1>a, <1>b DEF Rounds, Where, TypeOK, IInv, vars, control, manager, prepatch, result, Abort, Reset, ResetRecPair, ThrowResetRec, ThrowResetMgr, ShellFailed
<1>1. CASE Start
    BY <1>1 DEF Start
<1>2. CASE Miter
    BY <1>2 DEF Miter
<1>3. CASE ReadAigs
    BY <1>3 DEF ReadAigs
<1>4. CASE Sim
    BY <1>4 DEF Sim
<1>5. CASE PairPOs
    BY <1>5 DEF PairPOs
<1>6. CASE IdentifyRecPairs
    BY <1>6 DEF IdentifyRecPairs
<1>7. CASE PrepatchPair
    BY <1>7 DEF PrepatchPair
<1>8. CASE BuildAndLoadSelector
    BY <1>8 DEF BuildAndLoadSelector
<1>9. CASE SelectPatch
    BY <1>9 DEF SelectPatch
<1>10. CASE AddRecord
    BY <1>10 DEF AddRecord
<1>11. CASE OutputPatchFile
    BY <1>11 DEF OutputPatchFile
<1>12. CASE CheckPatched
    BY <1>12 DEF CheckPatched
<1>13. CASE RemovePatch
    BY <1>13 DEF RemovePatch
<1>14. CASE CopyPatch
    BY <1>14 DEF CopyPatch
<1>15. CASE AssignBestCost
    BY <1>15 DEF AssignBestCost
<1>16. CASE AfterPo
    BY <1>16 DEF AfterPo
<1>17. CASE AfterSingleEco
    BY <1>17 DEF AfterSingleEco
<1>18. CASE AfterEco
    BY <1>18 DEF AfterEco
<1>19. CASE FindSimilarPairs
    BY <1>19 DEF FindSimilarPairs
<1>20. CASE NextPair
    BY <1>20 DEF NextPair
<1>21. CASE AfterFirst
    BY <1>21 DEF AfterFirst
<1>22. CASE AfterSecond
    BY <1>22 DEF AfterSecond
<1>23. CASE UNCHANGED vars
    BY <1>23
<1> QED
    BY <1>1, <1>2, <1>3, <1>4, <1>5, <1>6, <1>7, <1>8, <1>9, <1>10, <1>11, <1>12, <1>13, <1>14, <1>15, <1>16, <1>17, <1>18, <1>19, <1>20, <1>21, <1>22, <1>23 DEF Next, Search, Loops, Terminating

LEMMA NoPairsStep == IInv /\ [Next]_vars => NoPairs'
<1> SUFFICES ASSUME IInv, [Next]_vars PROVE NoPairs'
    OBVIOUS
<1> USE DEF NoPairs, Where, InSearch, IInv, vars, control, manager, prepatch, result, Abort, Reset, ResetRecPair, ThrowResetRec, ThrowResetMgr, ShellFailed
<1>1. CASE Start
    BY <1>1 DEF Start
<1>2. CASE Miter
    BY <1>2 DEF Miter
<1>3. CASE ReadAigs
    BY <1>3 DEF ReadAigs
<1>4. CASE Sim
    BY <1>4 DEF Sim
<1>5. CASE PairPOs
    BY <1>5 DEF PairPOs
<1>6. CASE IdentifyRecPairs
    BY <1>6 DEF IdentifyRecPairs
<1>7. CASE PrepatchPair
    BY <1>7 DEF PrepatchPair
<1>8. CASE BuildAndLoadSelector
    BY <1>8 DEF BuildAndLoadSelector
<1>9. CASE SelectPatch
    BY <1>9 DEF SelectPatch
<1>10. CASE AddRecord
    BY <1>10 DEF AddRecord
<1>11. CASE OutputPatchFile
    BY <1>11 DEF OutputPatchFile
<1>12. CASE CheckPatched
    BY <1>12 DEF CheckPatched
<1>13. CASE RemovePatch
    BY <1>13 DEF RemovePatch
<1>14. CASE CopyPatch
    BY <1>14 DEF CopyPatch
<1>15. CASE AssignBestCost
    BY <1>15 DEF AssignBestCost
<1>16. CASE AfterPo
    BY <1>16 DEF AfterPo
<1>17. CASE AfterSingleEco
    BY <1>17 DEF AfterSingleEco
<1>18. CASE AfterEco
    BY <1>18 DEF AfterEco
<1>19. CASE FindSimilarPairs
    BY <1>19 DEF FindSimilarPairs
<1>20. CASE NextPair
    BY <1>20 DEF NextPair
<1>21. CASE AfterFirst
    BY <1>21 DEF AfterFirst
<1>22. CASE AfterSecond
    BY <1>22 DEF AfterSecond
<1>23. CASE UNCHANGED vars
    BY <1>23
<1> QED
    BY <1>1, <1>2, <1>3, <1>4, <1>5, <1>6, <1>7, <1>8, <1>9, <1>10, <1>11, <1>12, <1>13, <1>14, <1>15, <1>16, <1>17, <1>18, <1>19, <1>20, <1>21, <1>22, <1>23 DEF Next, Search, Loops, Terminating

LEMMA FlagsStep == IInv /\ [Next]_vars => Flags'
<1> SUFFICES ASSUME IInv, [Next]_vars PROVE Flags'
    OBVIOUS
<1> USE DEF Flags, FlagsFit, IInv, vars, control, manager, prepatch, result, Abort, Reset, ResetRecPair, ThrowResetRec, ThrowResetMgr, ShellFailed
<1>1. CASE Start
    BY <1>1 DEF Start
<1>2. CASE Miter
    BY <1>2 DEF Miter
<1>3. CASE ReadAigs
    BY <1>3 DEF ReadAigs
<1>4. CASE Sim
    BY <1>4 DEF Sim
<1>5. CASE PairPOs
    BY <1>5 DEF PairPOs
<1>6. CASE IdentifyRecPairs
    BY <1>6 DEF IdentifyRecPairs
<1>7. CASE PrepatchPair
    BY <1>7 DEF PrepatchPair
<1>8. CASE BuildAndLoadSelector
    BY <1>8 DEF BuildAndLoadSelector
<1>9. CASE SelectPatch
    BY <1>9 DEF SelectPatch
<1>10. CASE AddRecord
    BY <1>10 DEF AddRecord
<1>11. CASE OutputPatchFile
    BY <1>11 DEF OutputPatchFile
<1>12. CASE CheckPatched
    BY <1>12 DEF CheckPatched
<1>13. CASE RemovePatch
    BY <1>13 DEF RemovePatch
<1>14. CASE CopyPatch
    BY <1>14 DEF CopyPatch
<1>15. CASE AssignBestCost
    BY <1>15 DEF AssignBestCost
<1>16. CASE AfterPo
    BY <1>16 DEF AfterPo
<1>17. CASE AfterSingleEco
    BY <1>17 DEF AfterSingleEco
<1>18. CASE AfterEco
    BY <1>18 DEF AfterEco
<1>19. CASE FindSimilarPairs
    BY <1>19 DEF FindSimilarPairs
<1>20. CASE NextPair
    BY <1>20 DEF NextPair
<1>21. CASE AfterFirst
    BY <1>21 DEF AfterFirst
<1>22. CASE AfterSecond
    BY <1>22 DEF AfterSecond
<1>23. CASE UNCHANGED vars
    BY <1>23
<1> QED
    BY <1>1, <1>2, <1>3, <1>4, <1>5, <1>6, <1>7, <1>8, <1>9, <1>10, <1>11, <1>12, <1>13, <1>14, <1>15, <1>16, <1>17, <1>18, <1>19, <1>20, <1>21, <1>22, <1>23 DEF Next, Search, Loops, Terminating

LEMMA ReplacementStep == IInv /\ [Next]_vars => Replacement'
<1> SUFFICES ASSUME IInv, [Next]_vars PROVE Replacement'
    OBVIOUS
<1> USE EcoDriverAssumption DEF Replacement, NeverUnverified, TypeOK, Patch, IInv, vars, control, manager, prepatch, result, Abort, Reset, ResetRecPair, ThrowResetRec, ThrowResetMgr, ShellFailed
<1>1. CASE Start
    BY <1>1 DEF Start
<1>2. CASE Miter
    BY <1>2 DEF Miter
<1>3. CASE ReadAigs
    BY <1>3 DEF ReadAigs
<1>4. CASE Sim
    BY <1>4 DEF Sim
<1>5. CASE PairPOs
    BY <1>5 DEF PairPOs
<1>6. CASE IdentifyRecPairs
    BY <1>6 DEF IdentifyRecPairs
<1>7. CASE PrepatchPair
    BY <1>7 DEF PrepatchPair
<1>8. CASE BuildAndLoadSelector
    BY <1>8 DEF BuildAndLoadSelector
<1>9. CASE SelectPatch
    BY <1>9 DEF SelectPatch
<1>10. CASE AddRecord
    BY <1>10 DEF AddRecord
<1>11. CASE OutputPatchFile
  <2>1. CASE \E c \in Cost, eq \in BOOLEAN :
               /\ cost' = c
               /\ tmp' = [cost |-> c, eq |-> eq]
               /\ pc' = IF c < bestCost THEN "check" ELSE "return"
               /\ UNCHANGED <<control, ret, manager, flags, prepatch, patch, bestCost>>
    <3>1. cost' \in Cost /\ tmp'.cost = cost'
        BY <2>1
    <3>2. pc' = "check" => cost' < bestCost
        BY <2>1
    <3>3. pc' \in {"check", "return"} /\ UNCHANGED <<patch, bestCost>>
        BY <2>1
    <3> QED
        BY <3>1, <3>2, <3>3
  <2>2. CASE ThrowResetRec /\ UNCHANGED <<flags, prepatch>>
      BY <2>2
  <2>3. CASE Abort
      BY <2>3
  <2> QED
      BY <1>11, <2>1, <2>2, <2>3 DEF OutputPatchFile
<1>12. CASE CheckPatched
    BY <1>12 DEF CheckPatched
<1>13. CASE RemovePatch
    BY <1>13 DEF RemovePatch
<1>14. CASE CopyPatch
    BY <1>14 DEF CopyPatch
<1>15. CASE AssignBestCost
    BY <1>15 DEF AssignBestCost
<1>16. CASE AfterPo
    BY <1>16 DEF AfterPo
<1>17. CASE AfterSingleEco
    BY <1>17 DEF AfterSingleEco
<1>18. CASE AfterEco
    BY <1>18 DEF AfterEco
<1>19. CASE FindSimilarPairs
    BY <1>19 DEF FindSimilarPairs
<1>20. CASE NextPair
    BY <1>20 DEF NextPair
<1>21. CASE AfterFirst
    BY <1>21 DEF AfterFirst
<1>22. CASE AfterSecond
    BY <1>22 DEF AfterSecond
<1>23. CASE UNCHANGED vars
    BY <1>23
<1> QED
    BY <1>1, <1>2, <1>3, <1>4, <1>5, <1>6, <1>7, <1>8, <1>9, <1>10, <1>11, <1>12, <1>13, <1>14, <1>15, <1>16, <1>17, <1>18, <1>19, <1>20, <1>21, <1>22, <1>23 DEF Next, Search, Loops, Terminating

LEMMA OnDiskStep == IInv /\ [Next]_vars => OnDisk'
<1> SUFFICES ASSUME IInv, [Next]_vars PROVE OnDisk'
    OBVIOUS
<1> USE EcoDriverAssumption DEF OnDisk, PatchMatchesBest, Replacement, TypeOK, Patch, IInv, vars, control, manager, prepatch, result, Abort, Reset, ResetRecPair, ThrowResetRec, ThrowResetMgr, ShellFailed
<1>1. CASE Start
    BY <1>1 DEF Start
<1>2. CASE Miter
    BY <1>2 DEF Miter
<1>3. CASE ReadAigs
    BY <1>3 DEF ReadAigs
<1>4. CASE Sim
    BY <1>4 DEF Sim
<1>5. CASE PairPOs
    BY <1>5 DEF PairPOs
<1>6. CASE IdentifyRecPairs
    BY <1>6 DEF IdentifyRecPairs
<1>7. CASE PrepatchPair
    BY <1>7 DEF PrepatchPair
<1>8. CASE BuildAndLoadSelector
    BY <1>8 DEF BuildAndLoadSelector
<1>9. CASE SelectPatch
    BY <1>9 DEF SelectPatch
<1>10. CASE AddRecord
    BY <1>10 DEF AddRecord
<1>11. CASE OutputPatchFile
    BY <1>11 DEF OutputPatchFile
<1>12. CASE CheckPatched
    BY <1>12 DEF CheckPatched
<1>13. CASE RemovePatch
    BY <1>13 DEF RemovePatch
<1>14. CASE CopyPatch
    BY <1>14 DEF CopyPatch
<1>15. CASE AssignBestCost
    BY <1>15 DEF AssignBestCost
<1>16. CASE AfterPo
    BY <1>16 DEF AfterPo
<1>17. CASE AfterSingleEco
    BY <1>17 DEF AfterSingleEco
<1>18. CASE AfterEco
    BY <1>18 DEF AfterEco
<1>19. CASE FindSimilarPairs
    BY <1>19 DEF FindSimilarPairs
<1>20. CASE NextPair
    BY <1>20 DEF NextPair
<1>21. CASE AfterFirst
    BY <1>21 DEF AfterFirst
<1>22. CASE AfterSecond
    BY <1>22 DEF AfterSecond
<1>23. CASE UNCHANGED vars
    BY <1>23
<1> QED
    BY <1>1, <1>2, <1>3, <1>4, <1>5, <1>6, <1>7, <1>8, <1>9, <1>10, <1>11, <1>12, <1>13, <1>14, <1>15, <1>16, <1>17, <1>18, <1>19, <1>20, <1>21, <1>22, <1>23 DEF Next, Search, Loops, Terminating

-----------------------------------------------------------------------------

(* The file is neither missing nor left over once a patch was copied.      *)
LEMMA InitIInv == Init => IInv
<1> SUFFICES ASSUME Init PROVE IInv
    OBVIOUS
<1>1. TypeOK
  <2>1. try \in Tries /\ netlist \in Netlists
      BY FirstTyped, NetlistsTyped DEF Init
  <2>2. tmp \in [cost : Cost \union {IntMax}, eq : BOOLEAN]
      BY DEF Init
  <2>3. numPairs \in 0 .. MaxPairs
      BY EcoDriverAssumption DEF Init
  <2> QED
      BY <2>1, <2>2, <2>3 DEF Init, TypeOK, Tries, Netlists
<1>2. NeverUnverified /\ bestCost <= IntMax
    BY EcoDriverAssumption DEF Init, NeverUnverified, Patch
<1> QED
    BY <1>1, <1>2 DEF Init, IInv, Where, RightNetlist, RightRecord, Rounds, NoPairs,
       Flags, FlagsFit, Replacement, OnDisk, PatchMatchesBest, InSearch

THEOREM Invariance == Spec => []IInv
<1>1. IInv /\ [Next]_vars => IInv'
    BY TypeStep, WhereStep, NetlistStep, RecordStep, RoundsStep, NoPairsStep,
       FlagsStep, ReplacementStep, OnDiskStep DEF IInv
<1> QED
    BY InitIInv, <1>1, PTL DEF Spec

(* Every variable keeps its type; in particular the loops never index the  *)
(* parameter array out of its bounds.                                      *)
THEOREM TypeCorrect == Spec => []TypeOK
<1>1. IInv => TypeOK
    BY DEF IInv
<1> QED
    BY Invariance, <1>1, PTL

(* For any costs, loops and pairs, with shell commands that succeed: the   *)
(* patch file is the best patch and was proved equivalent, however the     *)
(* searches ended (ntkMgr.cpp 1391-1409).                                  *)
THEOREM PatchOnDisk == Spec => []PatchMatchesBest
<1>1. IInv => PatchMatchesBest
    BY DEF IInv, OnDisk, PatchMatchesBest
<1> QED
    BY Invariance, <1>1, PTL

(* Even with shell commands that fail, no patch is left on disk that abc   *)
(* did not prove equivalent (checkPatched).                                *)
THEOREM VerifiedOnDisk == Spec => []NeverUnverified
<1>1. IInv => NeverUnverified
    BY DEF IInv, Replacement
<1> QED
    BY Invariance, <1>1, PTL

(* Each search works on its own netlist, the second prepatch search with   *)
(* the prepatched file and the record of its pair.                         *)
THEOREM NetlistCorrect == Spec => []NetlistMatches
<1>1. IInv => NetlistMatches
    BY DEF IInv, NetlistMatches, Where, RightNetlist, RightRecord, InSearch
<1> QED
    BY Invariance, <1>1, PTL

(* A search starts without the pairs of an earlier one, whichever way that *)
(* one ended (resetRecPair, reset).                                        *)
THEOREM StartClean == Spec => []CleanStart
<1>1. IInv => CleanStart
    BY DEF IInv, CleanStart, NoPairs
<1> QED
    BY Invariance, <1>1, PTL

(* The callbacks of abc are set for each step, also after a search that    *)
(* ended with an exception (eco_setFlag, the globals of newCmd.c).         *)
THEOREM FlagsCorrect == Spec => []FlagsFit
<1>1. IInv => FlagsFit
    BY DEF IInv, Flags
<1> QED
    BY Invariance, <1>1, PTL

(* Pairs are looked for on a miter with at least the rounds of simulation  *)
(* that were asked for (_sim_count, CirMgr::_numSim).                      *)
THEOREM SimsCorrect == Spec => []SimsCounted
<1>1. IInv => SimsCounted
    BY DEF IInv, SimsCounted, Rounds
<1> QED
    BY Invariance, <1>1, PTL

-----------------------------------------------------------------------------

FileOf == IF shellFails \/ patch \in {NoFile, Leftover} THEN NoFile ELSE patch.cost
BestOf == IF shellFails THEN IntMax ELSE IF pc = "assign" THEN cost ELSE bestCost

(* Whether shell commands can fail does not change.                        *)
LEMMA ShellStays ==
  ASSUME [Next]_vars
  PROVE  shellFails' = shellFails
BY DEF Next, Search, Loops, Terminating, Start, Miter, ReadAigs, Sim, PairPOs, IdentifyRecPairs,
   PrepatchPair, BuildAndLoadSelector, SelectPatch, AddRecord, OutputPatchFile, CheckPatched,
   RemovePatch, CopyPatch, AssignBestCost, ShellFailed, AfterPo, AfterSingleEco, AfterEco,
   FindSimilarPairs, NextPair, AfterFirst, AfterSecond, Abort, ThrowResetRec, ThrowResetMgr,
   control, vars

(* With shell commands that succeed, a step of the driver removes the      *)
(* patch file, puts a cheaper patch in place, or changes neither.          *)
LEMMA StepRefines ==
  ASSUME ~shellFails, ~shellFails', IInv, [Next]_vars
  PROVE  [Best!Next]_<<FileOf, BestOf>>
<1> USE DEF FileOf, BestOf
<1>1. CASE RemovePatch
    BY <1>1 DEF RemovePatch, ShellFailed, Best!Next, Best!Remove
<1>2. CASE CopyPatch
  <2>1. /\ patch = NoFile /\ patch' = tmp /\ pc' = "assign" /\ pc = "cp"
        /\ UNCHANGED <<cost, bestCost>>
      BY <1>2 DEF CopyPatch, ShellFailed, IInv, OnDisk
  <2>2. tmp \in Patch /\ tmp.cost = cost /\ cost \in Cost /\ cost < bestCost
      BY <2>1 DEF IInv, Replacement, TypeOK, Patch
  <2>3. tmp \notin {NoFile, Leftover}
      BY <2>2, EcoDriverAssumption DEF Patch
  <2>4. FileOf = NoFile /\ FileOf' = cost /\ BestOf' = cost /\ BestOf = bestCost
      BY <2>1, <2>2, <2>3
  <2> QED
      BY <2>2, <2>4 DEF Best!Next, Best!Install
<1>3. CASE AssignBestCost
    BY <1>3 DEF AssignBestCost
<1>4. ASSUME UNCHANGED <<patch, bestCost>>, pc # "assign", pc' # "assign"
      PROVE  UNCHANGED <<FileOf, BestOf>>
    BY <1>4
<1>5. CASE Start \/ Miter \/ ReadAigs \/ Sim \/ PairPOs \/ IdentifyRecPairs \/ PrepatchPair
    BY <1>4, <1>5 DEF Start, Miter, ReadAigs, Sim, PairPOs, IdentifyRecPairs, PrepatchPair,
       Abort, ThrowResetRec, ThrowResetMgr, result
<1>6. CASE BuildAndLoadSelector \/ SelectPatch \/ AddRecord \/ OutputPatchFile \/ CheckPatched
    BY <1>4, <1>6 DEF BuildAndLoadSelector, SelectPatch, AddRecord, OutputPatchFile, CheckPatched,
       Abort, ThrowResetRec, ThrowResetMgr, result
<1>7. CASE Loops
    BY <1>4, <1>7 DEF Loops, AfterPo, AfterSingleEco, AfterEco, FindSimilarPairs, NextPair,
       AfterFirst, AfterSecond, Abort, result
<1>8. CASE UNCHANGED vars
    BY <1>8 DEF vars, result
<1> QED
    BY <1>1, <1>2, <1>3, <1>5, <1>6, <1>7, <1>8 DEF Next, Search, Terminating

(* The driver implements BestPatch: with shell commands that succeed the   *)
(* file on disk is only ever replaced by a cheaper patch.                  *)
THEOREM Refinement == Spec => ImplementsBestPatch
<1>1. Init => Best!Init
    BY DEF Init, Best!Init
<1>2. IInv /\ [Next]_vars => [Best!Next]_<<FileOf, BestOf>>
  <2> SUFFICES ASSUME IInv, [Next]_vars PROVE [Best!Next]_<<FileOf, BestOf>>
      OBVIOUS
  <2>1. CASE shellFails
      BY <2>1, ShellStays DEF FileOf, BestOf
  <2>2. CASE ~shellFails
      BY <2>2, ShellStays, StepRefines
  <2> QED
      BY <2>1, <2>2
<1>3. IInv /\ [Next]_vars =>
        [Best!Next]_<<IF shellFails \/ patch \in {NoFile, Leftover} THEN NoFile ELSE patch.cost,
                      IF shellFails THEN IntMax ELSE IF pc = "assign" THEN cost ELSE bestCost>>
    BY <1>2 DEF FileOf, BestOf
<1> QED
    BY Invariance, <1>1, <1>3, PTL DEF Spec, ImplementsBestPatch, Best!Spec
===============================================================================
