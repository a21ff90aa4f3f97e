------------------------------ MODULE EcoDriver -------------------------------
(***************************************************************************)
(* The driver: main, tryDifferentParas and the five searches it runs one   *)
(* after the other on the same manager object.                             *)
(*                                                                         *)
(*   po      ecoPo: rewire the outputs directly                            *)
(*   eco     eco: rectification pairs found by cut matching                *)
(*   similar findSimilarPairs: candidate pairs to patch in advance         *)
(*   first   firstPrepatchEco: patch one pair, write the prepatched file   *)
(*   second  SecondPrepatcheco: eco on the prepatched netlist              *)
(*                                                                         *)
(* A search sets the manager up if reset() was called since, simulates,    *)
(* finds pairs, builds a selector, selects, writes a patch and, when it is *)
(* cheaper than the best one, has abc check it and replaces the patch      *)
(* file.  It can leave at several points by an exception.  How pairs are   *)
(* found, selected and written is left to the other modules: here each     *)
(* step has any of its outcomes.                                           *)
(***************************************************************************)
EXTENDS Integers, Sequences

CONSTANTS
  Cost,           \* the costs a patch can have
  IntMax,         \* INT_MAX, the cost when there is no patch
  SimArr,         \* _sim_num_arr
  PoSim,          \* the sim_num of ecoPo
  EcoDims,        \* the sizes of the three parameter arrays of eco
  PreDims,        \* the sizes of the three _pre_ arrays
  MaxPairs,       \* how many similar pairs are tried in advance
  NoFile,         \* the patch file does not exist
  Leftover        \* a patch file left by an earlier run of the program

ASSUME EcoDriverAssumption ==
  /\ Cost \subseteq Nat
  /\ IntMax \in Nat
  /\ SimArr \in Seq(Nat)
  /\ PoSim \in Nat
  /\ EcoDims \in [1 .. 3 -> Nat \ {0}] /\ EcoDims[1] <= Len(SimArr)
  /\ PreDims \in [1 .. 3 -> Nat \ {0}] /\ PreDims[1] <= Len(SimArr)
  /\ MaxPairs \in Nat
  /\ {NoFile, Leftover} \intersect [cost : Cost, eq : BOOLEAN] = {}

VARIABLES
  pc,         \* the next step
  mode,       \* the search that runs
  tryAll,     \* debug_t: run tryDifferentParas rather than one eco
  shellFails, \* rm and cp can fail in this execution
  try,        \* the three parameter indices of the loops around the search
  pair,       \* l, the similar pair being patched in advance
  numPairs,   \* _patchPairStrVec.size()
  ret,        \* what the search returns
  netlist,    \* the file the manager was set up with; NoNetlist when !_read
  recPairs,   \* some gate of the manager has rectification pairs
  simCount,   \* _sim_count
  rounds,     \* CirMgr::_numSim of aigMiter: the rounds really simulated
  flags,      \* the eco flags of abc: parse, strash, fraig
  ped,        \* the pair whose prepatch the file _fname_ped holds
  record,     \* the pair the patchRecord was made for
  cost,       \* _cost
  tmp,        \* the file _fname_patch_tmp: its cost and whether cec proves it
  patch,      \* the file _fname_patch
  bestCost

control == <<mode, tryAll, shellFails, try, pair, numPairs>>
manager == <<netlist, recPairs, simCount, rounds>>
prepatch == <<ped, record>>
result == <<tmp, patch, bestCost>>
vars == <<pc, control, ret, manager, flags, prepatch, cost, result>>

Patch == [cost : Cost, eq : BOOLEAN]

NoNetlist == <<"none", 0>>
OldNetlist == <<"old", 0>>
PedNetlist(l) == <<"ped", l>>

SimNum == IF mode = "po" THEN PoSim ELSE IF mode = "first" THEN 1 ELSE SimArr[try[1]]

First == <<1, 1, 1>>

(* The indices after one round of the innermost loop; a timeout only       *)
(* breaks out of that loop.                                                *)
NextTry(dims, timeout) ==
  IF ~timeout /\ try[3] < dims[3] THEN <<try[1], try[2], try[3] + 1>>
  ELSE IF try[2] < dims[2] THEN <<try[1], try[2] + 1, 1>>
  ELSE <<try[1] + 1, 1, 1>>

-----------------------------------------------------------------------------

Init ==
  /\ pc = "start"
  /\ tryAll \in BOOLEAN /\ shellFails \in BOOLEAN
  /\ mode = IF tryAll THEN "po" ELSE "eco"
  /\ try = First
  /\ pair = 0
  /\ numPairs = 0
  /\ ret = FALSE
  /\ netlist = NoNetlist
  /\ recPairs = FALSE
  /\ simCount = 0
  /\ rounds = 0
  /\ flags = {}
  /\ ped = 0
  /\ record = 0
  /\ cost = 0
  /\ tmp = [cost |-> IntMax, eq |-> FALSE]
  /\ patch \in {NoFile, Leftover}
  /\ bestCost = IntMax

(* Mutant: the number of rounds survives the miter they were run on.       *)
Reset_KeepsSimCount ==
  /\ netlist' = NoNetlist
  /\ recPairs' = FALSE
  /\ simCount' = simCount
  /\ rounds' = 0
  /\ cost' = 0

(* NtkMgr::reset                                                           *)
Reset ==
  /\ netlist' = NoNetlist
  /\ recPairs' = FALSE
  /\ simCount' = 0
  /\ rounds' = 0
  /\ cost' = 0

(* NtkMgr::resetRecPair                                                    *)
ResetRecPair ==
  /\ recPairs' = FALSE
  /\ UNCHANGED <<netlist, simCount, rounds, cost>>

(* An assertion fails or an exception is not caught.                       *)
Abort ==
  /\ pc' = "aborted"
  /\ UNCHANGED <<control, ret, manager, flags, prepatch, cost, result>>

(* The handler of ERR_RESET_REC.  ecoPo resets everything; eco flows off   *)
(* its end without a value, which can yield any value or crash.            *)
ThrowResetRec ==
  /\ pc' \in IF mode = "eco" THEN {"return", "aborted"} ELSE {"return"}
  /\ ret' \in IF mode = "eco" THEN BOOLEAN ELSE {FALSE}
  /\ IF mode = "po" THEN Reset ELSE ResetRecPair
  /\ UNCHANGED <<control, result>>

(* The handler of ERR_RESET_MGR in the prepatch searches.                  *)
ThrowResetMgr ==
  /\ pc' = "return"
  /\ ret' = FALSE
  /\ Reset
  /\ UNCHANGED <<control, result>>

-----------------------------------------------------------------------------
(* setupRevAndGol and the simulation                                       *)

(* A search starts with "if ( !_read ) setupRevAndGol(...)".               *)
Start ==
  /\ pc = "start"
  /\ pc' = IF netlist = NoNetlist THEN "miter" ELSE "sim"
  /\ UNCHANGED <<control, ret, manager, flags, prepatch, cost, result>>

(* abc builds and sweeps the miter and hands the gates over.               *)
Miter ==
  /\ pc = "miter"
  /\ flags' = {"parse", "strash"}
  /\ pc' = "aigs"
  /\ UNCHANGED <<control, ret, manager, prepatch, cost, result>>

(* The three circuits are written by abc and read back; aigtoaig and, in   *)
(* the second prepatch search, the gate p_in are asserted.                 *)
ReadAigs ==
  /\ pc = "aigs"
  /\ \/ /\ flags' = {}
        /\ netlist' = IF mode = "second" THEN PedNetlist(ped) ELSE OldNetlist
        /\ pc' = "sim"
        /\ UNCHANGED <<control, ret, recPairs, simCount, rounds, prepatch, cost, result>>
     \/ Abort

(* randomSim adds rounds to the ones aigMiter has.                         *)
Sim ==
  /\ pc = "sim"
  /\ mode # "similar"
  /\ IF simCount < SimNum
     THEN /\ rounds' = rounds + (SimNum - simCount)
          /\ simCount' = SimNum
     ELSE UNCHANGED <<rounds, simCount>>
  /\ pc' = IF mode = "first" THEN "prepatch" ELSE "pairs"
  /\ UNCHANGED <<control, ret, netlist, recPairs, flags, prepatch, cost, result>>

-----------------------------------------------------------------------------
(* the searches                                                            *)

(* ecoPo pairs the outputs and leaves the flags alone.                     *)
PairPOs ==
  /\ pc = "pairs"
  /\ mode = "po"
  /\ recPairs' \in {recPairs, TRUE}
  /\ pc' = "selector"
  /\ UNCHANGED <<control, ret, netlist, simCount, rounds, flags, prepatch, cost, result>>

(* identifyRecPairs adds pairs until it is done or out of time.            *)
IdentifyRecPairs ==
  /\ pc = "pairs"
  /\ mode # "po"
  /\ flags' = {"strash", "fraig"}
  /\ recPairs' \in {recPairs, TRUE}
  /\ ret' \in IF mode = "first" THEN {TRUE} ELSE BOOLEAN
  /\ pc' = "selector"
  /\ UNCHANGED <<control, netlist, simCount, rounds, prepatch, cost, result>>

(* firstPrepatchEco patches the pair and has abc read the prepatched file. *)
PrepatchPair ==
  /\ pc = "prepatch"
  /\ flags' = {"strash", "fraig"}
  /\ record' = 0
  /\ \/ /\ recPairs' = TRUE
        /\ cost' \in Cost
        /\ ped' = pair
        /\ pc' = "pairs"
        /\ UNCHANGED <<control, ret, netlist, simCount, rounds, result>>
     \/ ThrowResetRec /\ UNCHANGED ped
     \/ ThrowResetMgr /\ ped' = pair

(* Mutant: the flags of the search stay on.                                *)
BuildAndLoadSelector_KeepsFlags ==
  /\ pc = "selector"
  /\ pc' = "select"
  /\ UNCHANGED <<control, ret, manager, flags, prepatch, cost, result>>

(* buildAndLoadSelector                                                    *)
BuildAndLoadSelector ==
  /\ pc = "selector"
  /\ flags' = {}
  /\ \/ /\ pc' = "select"
        /\ UNCHANGED <<control, ret, manager, prepatch, cost, result>>
     \/ ThrowResetRec /\ UNCHANGED prepatch

(* selectPatch keeps some of the pairs; firstPrepatchEco then records them *)
(* and returns, SecondPrepatcheco adds the recorded ones.                  *)
SelectPatch ==
  /\ pc = "select"
  /\ recPairs' \in {recPairs, FALSE}
  /\ IF mode = "first"
     THEN pc' = "return" /\ record' = pair
     ELSE pc' = (IF mode = "second" THEN "record" ELSE "output") /\ UNCHANGED record
  /\ UNCHANGED <<control, ret, netlist, simCount, rounds, flags, ped, cost, result>>

(* addPreRecPair and handlePrePatchPair                                    *)
AddRecord ==
  /\ pc = "record"
  /\ \/ /\ recPairs' = TRUE
        /\ pc' = "output"
        /\ UNCHANGED <<control, ret, netlist, simCount, rounds, flags, prepatch, cost, result>>
     \/ ThrowResetMgr /\ UNCHANGED <<flags, prepatch>>

(* Mutant: a patch of the same cost counts as cheaper.                     *)
OutputPatchFile_NotCheaper ==
  /\ pc = "output"
  /\ \E c \in Cost, eq \in BOOLEAN :
       /\ cost' = c
       /\ tmp' = [cost |-> c, eq |-> eq]
       /\ pc' = IF c <= bestCost THEN "check" ELSE "return"
       /\ UNCHANGED <<control, ret, manager, flags, prepatch, patch, bestCost>>

(* markFloatingGates and outputPatchFile: the patch, its cost, and whether *)
(* it will turn out equivalent.  "no p_in" is not an EcoError.             *)
OutputPatchFile ==
  /\ pc = "output"
  /\ \/ \E c \in Cost, eq \in BOOLEAN :
          /\ cost' = c
          /\ tmp' = [cost |-> c, eq |-> eq]
          /\ pc' = IF c < bestCost THEN "check" ELSE "return"
          /\ UNCHANGED <<control, ret, manager, flags, prepatch, patch, bestCost>>
     \/ ThrowResetRec /\ UNCHANGED <<flags, prepatch>>
     \/ mode = "second" /\ Abort

-----------------------------------------------------------------------------
(* the replacement of the patch file                                       *)

(* Mutant: the answer of cec is not looked at.                             *)
CheckPatched_Ignored ==
  /\ pc = "check"
  /\ pc' = "rm"
  /\ UNCHANGED <<control, ret, manager, flags, prepatch, cost, result>>

(* applyPatch and checkPatched                                             *)
CheckPatched ==
  /\ pc = "check"
  /\ pc' = IF tmp.eq THEN "rm" ELSE "return"
  /\ UNCHANGED <<control, ret, manager, flags, prepatch, cost, result>>

(* system(rm) and system(cp): only SecondPrepatcheco looks at the result.  *)
ShellFailed(next) ==
  /\ shellFails
  /\ pc' = IF mode = "second" THEN "aborted" ELSE next
  /\ UNCHANGED <<control, ret, manager, flags, prepatch, cost, result>>

RemovePatch ==
  /\ pc = "rm"
  /\ \/ /\ patch' = NoFile
        /\ pc' = "cp"
        /\ UNCHANGED <<control, ret, manager, flags, prepatch, cost, tmp, bestCost>>
     \/ ShellFailed("cp")

CopyPatch ==
  /\ pc = "cp"
  /\ \/ /\ patch' = tmp
        /\ pc' = "assign"
        /\ UNCHANGED <<control, ret, manager, flags, prepatch, cost, tmp, bestCost>>
     \/ ShellFailed("assign")

AssignBestCost ==
  /\ pc = "assign"
  /\ bestCost' = cost
  /\ pc' = "return"
  /\ UNCHANGED <<control, ret, manager, flags, prepatch, cost, tmp, patch>>

-----------------------------------------------------------------------------
(* tryDifferentParas and main                                              *)

(* ecoPo's result is not looked at.                                        *)
AfterPo ==
  /\ pc = "return"
  /\ mode = "po"
  /\ mode' = "eco"
  /\ try' = First
  /\ pc' = "start"
  /\ ResetRecPair
  /\ UNCHANGED <<tryAll, shellFails, pair, numPairs, ret, flags, prepatch, result>>

(* main runs a single eco without option t.                                *)
AfterSingleEco ==
  /\ pc = "return"
  /\ mode = "eco"
  /\ ~tryAll
  /\ pc' = "done"
  /\ UNCHANGED <<control, ret, manager, flags, prepatch, cost, result>>

(* Mutant: the pairs of a search survive it.                               *)
AfterEco_KeepsPairs ==
  /\ pc = "return"
  /\ mode = "eco"
  /\ tryAll
  /\ LET next == NextTry(EcoDims, ret)
     IN IF next[1] > EcoDims[1]
        THEN mode' = "similar" /\ try' = First
        ELSE mode' = mode /\ try' = next
  /\ pc' = "start"
  /\ UNCHANGED <<tryAll, shellFails, pair, numPairs, ret, manager, flags, prepatch, cost, result>>

(* Mutant: the outer loop runs once too often.                             *)
AfterEco_PastEnd ==
  /\ pc = "return"
  /\ mode = "eco"
  /\ tryAll
  /\ ResetRecPair
  /\ LET next == NextTry(EcoDims, ret)
     IN IF next[1] > EcoDims[1] + 1
        THEN mode' = "similar" /\ try' = First
        ELSE mode' = mode /\ try' = next
  /\ pc' = "start"
  /\ UNCHANGED <<tryAll, shellFails, pair, numPairs, ret, flags, prepatch, result>>

(* The total time is only looked at when this search did not run out of    *)
(* its own time.                                                           *)
AfterEco ==
  /\ pc = "return"
  /\ mode = "eco"
  /\ tryAll
  /\ ResetRecPair
  /\ \E total \in IF ret THEN {FALSE} ELSE BOOLEAN :
       LET next == NextTry(EcoDims, ret)
       IN IF total \/ next[1] > EcoDims[1]
          THEN mode' = "similar" /\ try' = First
          ELSE mode' = mode /\ try' = next
  /\ pc' = "start"
  /\ UNCHANGED <<tryAll, shellFails, pair, numPairs, ret, flags, prepatch, result>>

(* Ten more rounds, findSimilarPairs and reset().  A patch is written for  *)
(* each candidate, and its exceptions are not caught here.                 *)
FindSimilarPairs ==
  /\ pc = "sim"
  /\ mode = "similar"
  /\ \/ /\ numPairs' \in 0 .. MaxPairs
        /\ flags' \in {flags, {"strash", "fraig"}}
        /\ numPairs' > 0 => flags' = {"strash", "fraig"}
        /\ Reset
        /\ pair' = 1
        /\ pc' = "pair"
        /\ UNCHANGED <<mode, tryAll, shellFails, try, ret, prepatch, result>>
     \/ Abort

NextPair ==
  /\ pc = "pair"
  /\ IF pair <= numPairs THEN pc' = "start" /\ mode' = "first"
                         ELSE pc' = "done" /\ UNCHANGED mode
  /\ UNCHANGED <<tryAll, shellFails, try, pair, numPairs, ret, manager, flags, prepatch, cost, result>>

(* Mutant: the manager of the old netlist is kept for the second search.   *)
AfterFirst_KeepsManager ==
  /\ pc = "return"
  /\ mode = "first"
  /\ ResetRecPair
  /\ IF ret THEN pc' = "start" /\ mode' = "second" /\ try' = First /\ UNCHANGED pair
            ELSE pc' = "pair" /\ pair' = pair + 1 /\ UNCHANGED <<mode, try>>
  /\ UNCHANGED <<tryAll, shellFails, numPairs, ret, flags, prepatch, result>>

(* Mutant: a pair that could not be patched in advance is tried again.     *)
AfterFirst_SamePair ==
  /\ pc = "return"
  /\ mode = "first"
  /\ Reset
  /\ IF ret THEN pc' = "start" /\ mode' = "second" /\ try' = First /\ UNCHANGED pair
            ELSE pc' = "pair" /\ UNCHANGED <<mode, try, pair>>
  /\ UNCHANGED <<tryAll, shellFails, numPairs, ret, flags, prepatch, result>>

AfterFirst ==
  /\ pc = "return"
  /\ mode = "first"
  /\ Reset
  /\ IF ret THEN pc' = "start" /\ mode' = "second" /\ try' = First /\ UNCHANGED pair
            ELSE pc' = "pair" /\ pair' = pair + 1 /\ UNCHANGED <<mode, try>>
  /\ UNCHANGED <<tryAll, shellFails, numPairs, ret, flags, prepatch, result>>

AfterSecond ==
  /\ pc = "return"
  /\ mode = "second"
  /\ LET next == NextTry(PreDims, ret)
     IN IF next[1] <= PreDims[1]
        THEN pc' = "start" /\ try' = next /\ ResetRecPair /\ UNCHANGED pair
        ELSE pc' = "pair" /\ pair' = pair + 1 /\ Reset /\ UNCHANGED try
  /\ UNCHANGED <<mode, tryAll, shellFails, numPairs, ret, flags, prepatch, result>>

Terminating == pc \in {"done", "aborted"} /\ UNCHANGED vars

Search ==
  \/ Start \/ Miter \/ ReadAigs \/ Sim
  \/ PairPOs \/ IdentifyRecPairs \/ PrepatchPair \/ BuildAndLoadSelector
  \/ SelectPatch \/ AddRecord \/ OutputPatchFile
  \/ CheckPatched \/ RemovePatch \/ CopyPatch \/ AssignBestCost

Loops ==
  \/ AfterPo \/ AfterSingleEco \/ AfterEco \/ FindSimilarPairs
  \/ NextPair \/ AfterFirst \/ AfterSecond

Next == Search \/ Loops \/ Terminating

Spec == Init /\ [][Next]_vars
FairSpec == Spec /\ WF_vars(Next)

-----------------------------------------------------------------------------

TypeOK ==
  /\ pc \in {"start", "miter", "aigs", "sim", "prepatch", "pairs", "selector",
            "select", "record", "output", "check", "rm", "cp", "assign",
            "return", "pair", "done", "aborted"}
  /\ mode \in {"po", "eco", "similar", "first", "second"}
  /\ tryAll \in BOOLEAN /\ shellFails \in BOOLEAN
  /\ try \in (1 .. Len(SimArr)) \X Nat \X Nat
  /\ pair \in Nat /\ numPairs \in 0 .. MaxPairs
  /\ ret \in BOOLEAN
  /\ netlist \in {"none", "old", "ped"} \X Nat
  /\ recPairs \in BOOLEAN
  /\ simCount \in Nat /\ rounds \in Nat
  /\ flags \subseteq {"parse", "strash", "fraig"}
  /\ ped \in Nat /\ record \in Nat
  /\ cost \in Nat
  /\ tmp \in [cost : Cost \union {IntMax}, eq : BOOLEAN]
  /\ patch \in {NoFile, Leftover} \union Patch
  /\ bestCost \in Cost \union {IntMax}

(* Outside the replacement itself the patch file is the best patch: abc    *)
(* proved it equivalent and its cost is bestCost.  Only when no patch was  *)
(* found can the file be missing or left from an earlier run               *)
(* (ntkMgr.cpp 1391-1409).  With rm or cp failing the best patch can be    *)
(* lost: then nothing but NeverUnverified is promised.                     *)
PatchMatchesBest ==
  ~shellFails /\ pc \notin {"cp", "assign"} =>
    IF bestCost = IntMax THEN patch \in {NoFile, Leftover}
                         ELSE patch = [cost |-> bestCost, eq |-> TRUE]

(* Even when rm or cp fails, no search leaves a patch in place that abc    *)
(* did not prove equivalent (checkPatched).                                *)
NeverUnverified == patch \in Patch => patch.eq

(* A search works on the netlist it is meant for: the second prepatch      *)
(* search on the file with this pair patched, with the record made for     *)
(* this pair; the others on the original file.  The manager is only set up *)
(* again after reset(), wherever the search before it stopped.             *)
NetlistMatches ==
  pc \in {"prepatch", "pairs", "selector", "select", "record", "output", "check"} =>
    IF mode = "second" THEN netlist = PedNetlist(pair) /\ record = pair
                       ELSE netlist = OldNetlist

(* A search starts without the pairs of an earlier one, whichever way that *)
(* one ended (resetRecPair, reset).                                        *)
CleanStart == pc \in {"start", "sim"} => ~recPairs

(* abc reads, sweeps and checks the selector and the patch with its eco    *)
(* callbacks off, the prepatched file without creating gates, and the two  *)
(* circuits of the miter with the callbacks that create gates              *)
(* (eco_setFlag, the globals of newCmd.c).                                 *)
FlagsFit ==
  /\ pc \in {"select", "record", "output", "check"} => flags = {}
  /\ pc = "aigs" => "parse" \in flags
  /\ pc \in {"sim", "prepatch", "pairs"} => "parse" \notin flags

(* Pairs are looked for on a miter that was simulated at least _sim_num    *)
(* times, though _sim_count outlives the AIG it counts for.                *)
SimsCounted ==
  pc \in {"prepatch", "pairs"} => SimNum <= rounds /\ rounds = simCount

(* Whatever fails, the searches come to an end.                            *)
Terminates == <>(pc \in {"done", "aborted"})

(* The patch file is replaced by cheaper patches only (when rm and cp      *)
(* succeed; otherwise the file and its cost are not looked at).            *)
Best == INSTANCE BestPatch WITH
  file <- IF shellFails \/ patch \in {NoFile, Leftover} THEN NoFile ELSE patch.cost,
  best <- IF shellFails THEN IntMax ELSE IF pc = "assign" THEN cost ELSE bestCost

ImplementsBestPatch == Best!Spec
=============================================================================
