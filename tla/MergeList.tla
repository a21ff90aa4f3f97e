----------------------------- MODULE MergeList ------------------------------
(***************************************************************************)
(* The global merge lists of NtkGate (_mg_head, _mg_list, _mg_next) and    *)
(* NtkMgr::mapGate2Aig, which fills them while CirMgr reads the fraiged    *)
(* miter.  Gates of one circuit mapped to the same literal form a singly   *)
(* linked chain, entered at its head; _mg_list of every member points to   *)
(* the head of the chain of the other circuit.                             *)
(*                                                                         *)
(* A literal (node pointer with its complement bit) is an element of Key.  *)
(* Each gate is named once in the miter, so a mapped gate is not mapped    *)
(* again before a reset.                                                   *)
(***************************************************************************)

CONSTANTS
  Gate,      \* the gates of the two netlists
  OldGate,   \* the gates with _old set
  PrePatch,  \* the gates whose name begins with eco_w
  Key,       \* the literals of the miter
  NoGate,    \* the null gate pointer
  NoKey      \* the value of _aigMiterNode before the gate is mapped

ASSUME MergeListAssumption ==
  /\ OldGate \subseteq Gate
  /\ PrePatch \subseteq Gate
  /\ NoGate \notin Gate
  /\ NoKey \notin Key

VARIABLES
  mg_heads,      \* NtkMgr::_mg_heads: the first gate mapped to each literal
  mg_head,       \* NtkGate::_mg_head: the head of the gate's own chain
  mg_list,       \* NtkGate::_mg_list: the head of the other circuit's chain
  mg_next,       \* NtkGate::_mg_next: the next gate of the gate's own chain
  aigMiterNode   \* NtkGate::_aigMiterNode: the literal the gate is mapped to

mergeVars == <<mg_heads, mg_head, mg_list, mg_next, aigMiterNode>>

-----------------------------------------------------------------------------

(* The gates a walk along _mg_next visits when it starts at g: the         *)
(* smallest set that holds g and is closed under next.                     *)
Closed(S, next) == \A y \in S : next[y] # NoGate => next[y] \in S

Chain(g, next) ==
  {x \in Gate : \A S \in SUBSET Gate : (g \in S /\ Closed(S, next)) => x \in S}

(* NtkGate::isMergedWith: g is on the chain _mg_list leads to.             *)
isMergedWith(a, g) ==
  mg_list[a] # NoGate /\ g \in Chain(mg_list[a], mg_next)

(* The gates that take part in merging.                                    *)
Merging == {g \in Gate \ PrePatch : aigMiterNode[g] # NoKey}

SameCircuit(a, b) == a \in OldGate <=> b \in OldGate

-----------------------------------------------------------------------------

MergeInit ==
  /\ mg_heads = [k \in Key |-> NoGate]
  /\ mg_head = [g \in Gate |-> NoGate]
  /\ mg_list = [g \in Gate |-> NoGate]
  /\ mg_next = [g \in Gate |-> NoGate]
  /\ aigMiterNode = [g \in Gate |-> NoKey]

(* NtkGate::mg_create on a gate that nothing is merged with.               *)
mg_create(g) ==
  /\ mg_head' = [mg_head EXCEPT ![g] = g]
  /\ mg_list' = [mg_list EXCEPT ![g] = NoGate]
  /\ mg_next' = [mg_next EXCEPT ![g] = NoGate]

(* Slips the runs must notice: the new member does not take over _mg_list, *)
(* or the head is relinked before its old successor is read.               *)
mg_append_NoList(h, g) ==
  /\ mg_head' = [mg_head EXCEPT ![g] = h]
  /\ mg_next' = [mg_next EXCEPT ![g] = mg_next[h], ![h] = g]
  /\ UNCHANGED mg_list

mg_append_Swapped(h, g) ==
  /\ mg_head' = [mg_head EXCEPT ![g] = h]
  /\ mg_list' = [mg_list EXCEPT ![g] = mg_list[h]]
  /\ mg_next' = [mg_next EXCEPT ![g] = g, ![h] = g]

(* NtkGate::mg_append: g enters the chain of h right behind its head.      *)
mg_append(h, g) ==
  /\ mg_head' = [mg_head EXCEPT ![g] = h]
  /\ mg_list' = [mg_list EXCEPT ![g] = mg_list[h]]
  /\ mg_next' = [mg_next EXCEPT ![g] = mg_next[h], ![h] = g]

(* A slip the runs must notice: mg_update stops at the head of the chain.  *)
mg_appendFirst_HeadOnly(h, g) ==
  /\ mg_list[h] = NoGate
  /\ mg_head' = [mg_head EXCEPT ![g] = g]
  /\ mg_next' = [mg_next EXCEPT ![g] = NoGate]
  /\ mg_list' = [mg_list EXCEPT ![g] = h, ![h] = g]

(* NtkGate::mg_appendMerged when the other circuit has no gate yet: g      *)
(* heads a chain, and mg_update points the whole chain of h to it.         *)
mg_appendFirst(h, g) ==
  /\ mg_list[h] = NoGate
  /\ mg_head' = [mg_head EXCEPT ![g] = g]
  /\ mg_next' = [mg_next EXCEPT ![g] = NoGate]
  /\ mg_list' = [x \in Gate |-> IF x = g THEN h
                                ELSE IF x \in Chain(h, mg_next) THEN g
                                ELSE mg_list[x]]

(* NtkGate::mg_appendMerged: g is of the circuit h is not of.              *)
mg_appendMerged(h, g) ==
  \/ mg_appendFirst(h, g)
  \/ mg_list[h] # NoGate /\ mg_append(mg_list[h], g)

(* NtkGate::merge.  Every gate of _mg_heads has its own head set, so the   *)
(* mg_create at the top of merge never runs.                               *)
merge(h, g) ==
  \/ SameCircuit(h, g) /\ mg_append(h, g)
  \/ ~SameCircuit(h, g) /\ mg_appendMerged(h, g)

(* NtkMgr::mapGate2Aig for a miter: the literal is recorded, and unless g  *)
(* was written by a prepatch it opens a group or joins the existing one.   *)
MapPrePatch(g, k) ==
  /\ g \in PrePatch
  /\ aigMiterNode[g] = NoKey
  /\ aigMiterNode' = [aigMiterNode EXCEPT ![g] = k]
  /\ UNCHANGED <<mg_heads, mg_head, mg_list, mg_next>>

(* A slip the runs must notice: the literal is stored in place of the gate.*)
MapFirst_StoresKey(g, k) ==
  /\ g \notin PrePatch
  /\ aigMiterNode[g] = NoKey
  /\ mg_heads[k] = NoGate
  /\ aigMiterNode' = [aigMiterNode EXCEPT ![g] = k]
  /\ mg_heads' = [mg_heads EXCEPT ![k] = k]
  /\ mg_create(g)

MapFirst(g, k) ==
  /\ g \notin PrePatch
  /\ aigMiterNode[g] = NoKey
  /\ mg_heads[k] = NoGate
  /\ aigMiterNode' = [aigMiterNode EXCEPT ![g] = k]
  /\ mg_heads' = [mg_heads EXCEPT ![k] = g]
  /\ mg_create(g)

MapMerge(g, k) ==
  /\ g \notin PrePatch
  /\ aigMiterNode[g] = NoKey
  /\ mg_heads[k] # NoGate
  /\ aigMiterNode' = [aigMiterNode EXCEPT ![g] = k]
  /\ merge(mg_heads[k], g)
  /\ UNCHANGED mg_heads

(* NtkMgr::reset deletes every gate and forgets the groups; the gates that *)
(* the next setup creates start with null pointers.                        *)
ResetLists ==
  /\ mg_heads' = [k \in Key |-> NoGate]
  /\ mg_head' = [g \in Gate |-> NoGate]
  /\ mg_list' = [g \in Gate |-> NoGate]
  /\ mg_next' = [g \in Gate |-> NoGate]
  /\ aigMiterNode' = [g \in Gate |-> NoKey]

MergeNext ==
  \/ ResetLists
  \/ \E g \in Gate, k \in Key :
       MapPrePatch(g, k) \/ MapFirst(g, k) \/ MapMerge(g, k)

MergeSpec == MergeInit /\ [][MergeNext]_mergeVars

-----------------------------------------------------------------------------

(* Every pointer is a gate or null, every literal a key or unset.          *)
MergeTypeOK ==
  /\ mg_heads \in [Key -> Gate \union {NoGate}]
  /\ mg_head \in [Gate -> Gate \union {NoGate}]
  /\ mg_list \in [Gate -> Gate \union {NoGate}]
  /\ mg_next \in [Gate -> Gate \union {NoGate}]
  /\ aigMiterNode \in [Gate -> Key \union {NoKey}]

(* isMergedWith answers yes exactly for a gate of the other circuit mapped *)
(* to the same literal, whatever the order in which the miter names them.  *)
MergedIffSameNode ==
  \A a, b \in Gate :
    isMergedWith(a, b) <=> /\ {a, b} \subseteq Merging
                           /\ aigMiterNode[a] = aigMiterNode[b]
                           /\ ~SameCircuit(a, b)

(* No walk along _mg_next comes back to where it started: mg_len,          *)
(* isMergedWith and the recursive mg_update terminate.                     *)
ChainsAcyclic ==
  \A g \in Gate : mg_next[g] # NoGate => g \notin Chain(mg_next[g], mg_next)

-----------------------------------------------------------------------------

(* The lists implement the abstract relation: a gate that arrives becomes  *)
(* merged with exactly its counterparts and no other pair changes.         *)
Classes == INSTANCE MergeClasses WITH
  node <- aigMiterNode,
  merged <- {p \in Gate \X Gate : isMergedWith(p[1], p[2])}

ImplementsClasses == Classes!Spec

=============================================================================
