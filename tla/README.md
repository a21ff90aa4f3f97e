# A TLA+ model of the ECO patch generator

The repository holds `eco`, a sequential command-line program that solves the
engineering-change-order problem of the ICCAD 2021 contest (problem A).  It
reads an old netlist and a golden one, finds pairs of gates (*rectification
pairs*) where the old netlist can be rewired so that its outputs compute the
golden functions, and writes the cheapest patch it finds.  The program's own
code is in `src/src/src/{ntk,cir,sat,util,main}`; `abc/`, `aiger/`, the inputs
and the vendored libraries are not modelled.  Below, `ntk/x.cpp` stands for
`src/src/src/ntk/x.cpp`.

## 1. Inventory

| Component | Code | State it keeps | Operations | Interaction |
|---|---|---|---|---|
| Driver | `ntk/ntkMgr.cpp` 1346-1827, `main/main.cpp` | `_cost`, `_bestCost`, `_read`, the patch file, the `eco_*` flags of abc, the time | `ecoPo`, `eco`, `firstPrepatchEco`, `SecondPrepatcheco`, `tryDifferentParas`, `checkPatched`, `setupRevAndGol`, `reset`, `resetRecPair` | calls every other component, abc through commands, the file system through `system` |
| Merge lists | `ntk/ntkGate.cpp` 220-336, `ntk/ntkMgr.cpp` 532-579 | `_mg_heads`, and per gate `_mg_head`, `_mg_list`, `_mg_next`, `_aigMiterNode` | `merge`, `mg_create`, `mg_append`, `mg_appendMerged`, `mg_update`, `isMergedWith`, `mapGate2Aig` | filled by the AIG reader, read by everything that asks which gates are equivalent |
| Rectification pairs | `ntk/ntkMatch.cpp` 62-342, 2402-2475, 2749-2770, `ntk/ntkMgr.cpp` 1716-1727 | `_recPairList`, `_recPair_fanin`, `_recPair_fanout`, `_recCnt`, `_bwdPatchList`, `_bwdPatchMap` | `identifyRecPairs`, `addRecPair`, `checkRecPair`, `checkLoopIfPatched`, `checkBwdPatches`, `resetRecPair` | reads merge lists; read by the selector and the patch writer |
| Selector | `ntk/ntkReplace.cpp` 33-402 | mux numbers `_muxId`, the selector circuit | `buildSelector`, `selAddGate`, `selGetNet`, `getBwdPatchMux` | numbers the candidates; read back through abc into `_aigSel` |
| Patch selection | `ntk/ntkReplace.cpp` 404-608 | the solver's clauses and assumptions, `res` | `CirMgr::selectPatch`, `NtkMgr::selectPatch`, `NtkGate::selectRecPair` | shrinks the rectification pairs to a needed set |
| Cut matching | `ntk/ntkMatch.cpp` 353-1996 | the cut, its candidates, the decision stack; the lists of cuts, `_mapping`, `_cuts`, `numGateLeft` | `cutMatching`, `getGuildedCutCands2`, `enumerateCuts`, `makeDecisionOnCut`, `recoverCut`, `legalizeCut`, `checkCutFunc2`, `addPairToFormCut` | finds more pairs behind unmatched gates; asks the solver |
| SAT encoding | `ntk/ntkSat.cpp`, `ntk/ntkGate.h` 283-392 | `_satVar`, `_satPhase`, `_satFlag` | `addClauseRec`, `addClause` of each type, `satAddMiterNtk` | gives the cones of a cut to the solver |
| Patch output | `ntk/ntkReplace.cpp` 610-2391 | `_patchType`, phases, cost, the patch file | `estimatePatchCost`, `outputPatchFile`, `applyPatch`, `decidePatchType`, `markFloatingGates` | writes the patch, its cost, and the patched netlist |
| Netlist | `ntk/ntkMgr.cpp` 90-460, 718-892, `ntk/ntkGate.cpp` 24-61 | gates, fanins, fanouts, ids, levels, merge cone | `createGate`, `findOrCreateIdByName`, `constructCircuit`, `genNetlist`, `getMergeFrontier` | filled by abc's Verilog reader through callbacks |
| AIG manager | `cir/` | AIG gates, symbols, simulation words, SAT literals | `readCircuit`, `connect`, `genNetlist`, `randomSim`, `addClauseRec` | reads the miter and the selector abc wrote |
| SAT solver | `sat/` | clauses, trail, watches, proof log | MiniSat 1.14 with proof logging | vendored; used through `sat.h` |
| Utilities | `util/` | time and memory usage, hash tables | - | - |

The program has one thread.  What makes it hard is the length of the legal call
sequences: the driver repeats the search with many parameters on the same gate
objects, resets some of the state and not the rest, leaves by exceptions, and
keeps the best patch on disk with shell commands whose results it ignores.

What must be right in each component:

- **Merge lists**: two gates are reported merged exactly when the miter drives
  both from one literal, in whatever order the miter names them; no chain of
  pointers is cyclic.
- **Cut matching**: each cut is found once, is a cut, and contains a gate that
  is new at its level; a recursive call leaves the shared cut as it found it, as
  the assertions of `makeDecisionOnCut` and `recoverCut` demand.  A match gives
  the old gate the golden function for all inputs, although the solver sees only
  the gates of some levels; and no match that the similar pairs allow is passed
  over because a counter shared by the recursive calls is stale.
- **SAT encoding**: the literal a gate's fanouts get stands for the gate, whatever
  phase its variable has; each gate a query names has a variable.
- **Rectification pairs and selector**: a pair is stored on pins, on gates and
  as a count, and numbered twice (nets when the selector is written, verdicts
  when the selection is read back); all of this has to name the same pair.  With
  option r pairs lead both ways between the netlists and must not close a loop.
- **Patch selection**: a valid set of candidates stays valid while candidates
  are removed, and only needed ones are kept.
- **Patch output**: a patch replaces nets, the selection is about pins; after
  the patch each pin has to read what was selected for it, each gate has to
  compute the same after the constants it reads are taken out, and the cost by
  which patches are compared has to be that of the file.
- **Driver**: whatever step fails, the patch on disk is the cheapest one that
  was proved, and each search starts from the state it was written for.

The places where each of these can go wrong are listed as hazards, at their
lines, in `PROJECT.json`.

## 2. Modules

| Module | Models | Composition |
|---|---|---|
| `MergeClasses` | abstract: the relation "merged" as a set of pairs | - |
| `MergeList` | the merge lists of `NtkGate` and `mapGate2Aig` | `Classes == INSTANCE MergeClasses`, shown to implement it |
| `SelectPatch` | `CirMgr::selectPatch` on an incremental solver | the solver is an oracle over all assignments |
| `BestPatch` | abstract: the patch file is replaced by cheaper patches only | - |
| `EcoDriver` | `main`, `tryDifferentParas` and the five searches | `Best == INSTANCE BestPatch`, shown to implement it; the steps of a search have every outcome the other modules allow |
| `RecPairs` | rectification pairs from `addRecPair` to `selectRecPair`, and the selector's numbering | cuts (`CutEnum`) and verdicts (`SelectPatch`) are inputs |
| `PatchMarks` | from the selection to the lists of the patch file | every selection `RecPairs` can leave is an initial state |
| `NetCuts` | levels, the cuts of a gate, and the lowest cut of a level with its merged gates | operators, used by the next three |
| `CutEnum` | the enumeration of the cuts of one gate, gate by gate | every netlist, set of merged gates and level is an initial state |
| `GateFunction` | what each gate type computes | the reference of the next three |
| `CutFunc` | the clauses of the cone of a gate over a cut, and what the solver answers | used by `CutMatch` |
| `CutMatch` | `cutMatching`: the matching of old cuts with golden cuts | takes the cuts `CutEnum` shows the enumeration to find |
| `PatchGate` | how the gates of the patch file are written, and its cost | takes the names of the pins that `PatchMarks` decides |
| `FoldLemmas` | induction over finite sets, and what a fold computes: the loops of the code over lists are folds | instantiated by the next ones for each loop body |
| `DriverProofs` | the theorems of `MergeList`, `SelectPatch` and `EcoDriver` | extends the three; the first two have a prefix on names like `MergeInit`, `SelectSpec` |
| `NetCutsProofs` | the theorems of `NetCuts` | extended by the next two |
| `CutEnumProofs`, `CutMatchProofs` | the theorems of `CutEnum` and of `CutMatch` | extend the module they are about |
| `RecPairsProofs`, `PatchMarksProofs`, `PatchGateProofs` | the theorems of these modules | extend the module they are about |
| `MC*` | the instances TLC checks | extend the module they instantiate |

Definitions whose comment says *mutant*, or *slip*, are the wrong versions of
the definition that follows; they show that the properties can fail.

### Correspondence to the code

**MergeList.** Each variable is the field or map of the same name.  A literal
(node pointer and complement bit) is an element of `Key`.  `MapFirst`,
`MapMerge` and `MapPrePatch` are the three ways through `mapGate2Aig`;
`mg_create`, `mg_append`, `mg_appendMerged` and `merge` are the functions of
`NtkGate`; `ResetLists` is `NtkMgr::reset`, which deletes the gates.  The walk along
`_mg_next` is `Chain`, the smallest set closed under the pointer, so that a
cyclic chain would be a legal value of the model and `ChainsAcyclic` means
something.

**SelectPatch.** `bad` is the selector: the select assignments under which the
miter output can be 1.  `units` are the solver's unit clauses, `res` and `i` the
variables of the loop, `step` the part of the function that comes next.  `solver->reset()` restarts the numbering of variables
and a select input outside the miter's cone keeps variable 0 from its
construction, which is the miter's variable: this is `Var`.  `Independent` says
that such a select input does not influence the miter.

**EcoDriver.** `pc` is the next call inside a search, `mode` which of the five
searches runs, `try` the three loop indices, `netlist`, `recPairs`, `simCount`
and `rounds` the state of the manager that `reset` and `resetRecPair` clear or
keep, `flags` the abc globals, `tmp` and `patch` the two files.  Each action is
one call with everything it changes; exceptions (`ThrowResetRec`,
`ThrowResetMgr`), failed assertions (`Abort`) and timeouts are disjuncts of the
call that meets them.  `eco`'s handler ends without a return statement: `ret` is
then any value.  `shellFails` never changes; when it is true, each `rm` and `cp`
may do nothing.

**RecPairs.** A pin is `<<gate, position>>`.  `rp` holds `_recPair_fanin`,
`_recPair_fanout`, `_recCnt`, `_recPairList` and `_bwdPatchList`.  `PairOutputs`
is the pairing of the outputs, `MatchCut` and `MatchCutWithFraig` one found cut
(checked by `checkRecPair` and, with option r, `checkLoopIfPatched`, and added by
`addRecPair`), `EndIdentify` the sort and `checkBwdPatches`, `BuildSelector` the
numbering of muxes, `SelectPatch` the walk of `NtkMgr::selectPatch` with any
verdicts (`DropBwd` and `DropFwd` are the two loops of `selectRecPair`), `ResetRecPair`
the start of the next search on the same gates.  `optionR` is `debug_r`, chosen at
the start.  `resetRecPair` keeps `_bwdPatchList` with that option too, so that in a
later search a golden gate can be in the list twice.

**PatchMarks.** `mark` is `_flag` relative to `_globalFlag`, `stamp` is `_flagB`.
`MarkFloatingGates` is `markFloatingGates`, `MarkOutputs` and `InduceAll` the
first loops of `outputPatchFile`, `DecidePatchType` one call of
`decidePatchType` with a disjunct for each early return, `WriteInputs` and
`WriteGates` the lists and the names that can fail.  The order of gates of one
level is any order, as `std::sort` leaves it.  `used` are the gates of `_in2Aig` that
`getMappedFanin` was called for, by `markFloatingGates` or by `checkPatchFanin`
(`MappedFanins`).  A name is `<<g, "net">>` or, with the suffix `_in`, `<<g, "in">>`:
`KeptName`, `InputName` and `MappedName` are the functions that make names, whatever
the gate is, and `DeclaredNames` is what the patch declares.

**PatchGate.** The rest of `outputPatchFile`: `DeclareNets` are the four lists of
nets, `WriteAll` and `WriteInverter` the two loops that write buffers and
inverters, and `WriteWhole`, `WriteConst` and `WriteRest` the three ways through
`outputGateInPatch`: no constant is read, the constants decide the gate, or the
gate of the other pins is written with the type that is left.  Each changes
`_cost` where the code does; the constant's net is counted at the end (`Finish`).

**CutEnum.** `cut` is what the calls of `makeDecisionOnCut` share: `_ce_flag`,
`_ce_covered`, `activeGates` and `numNew`; `stack` are the calls, with what each
removed and the cut that it found (`before`, which the code has as a number of gates
only), `lowest` the cut the enumeration starts from.  `Take`, `Pop` and `Recover` are
the three parts of a call, `TooLong` its early return, `EnumerateCuts` the beginning.

The functions of `NtkGate` walk the netlist by recursion and by queues; here each
takes one step for each gate it comes to.  `queue` is the queue of the gates to check,
`waiting` the gates whose recursive call is still to come, the fanins of a gate before
the others, and `spread` the inner queue `q`.  `LegalizeCut`, `CheckNext`, `IsBelow`,
`MoveBelow`, `RemoveFromCut` and `CannotRemove` are `legalizeCut` with
`legalize_checkFanin`, `PopUp` and `CoverFanout` are `legalize_popUp`, `PopDown` and
`PutBack` are `legalize_popDown`, `CheckNextFanouts`, `CheckFanout` and `CoverFanin`
are `recoverCut` with `legalize_checkFanout`, and `Recovered` is the end of a call.
A walk that returns false stops where it is, with whatever it changed until then
(`Fail`).  `pc` is `abort` after an assertion that fails.

**CutMatch.** `NextLevel` is one round of the loop over levels: the lowest cuts of
both sides, the cuts found (`revCutList`, `golCutList`) and the gates on them
(`known`).  `NextCut` starts an old cut.  `addPairToFormCut` is recursive: `at` is
the call, `stack` its callers, and `SelectPair`, `SkipPair`, `Unselect`,
`NoPairLeft` and `TryLastGate` are its parts; `mapping`, `left` and `cuts` are the
shared `_mapping`, `numGateLeft` and `_cuts`.  The cuts of a level are `CutsAt`, a
set in the order of the decisions; that `makeDecisionOnCut` finds this set is what
`CutEnum` checks and `CutEnumProofs` proves (`FoundAreCuts`, `AllFound`).  The solver is a definition
(`Unsat` in `CutFunc`): the clauses fix each encoded gate, and no values of the
gates without clauses tell the roots apart.  `phase` is `_satPhase` of the golden
constants, which `addClauseRec( int )` can change.  The gates are numbered so that a
gate comes after the ones it reads (`IsNetlist`); a netlist without loops has such a
numbering, and nothing else depends on it but the order in which cuts are listed.
`CandPairList` is the loop that fills `candPairList`, as a recursive function over
the similar pairs.

**NetCuts.** `markDupMerge` and `markGolBottomCut` are one walk, `MarkBottomCut`: a
recursive function over visits, with the gates whose call is still to come in
`waiting`, the fanins of a gate before the others, which is the order of the
recursive calls.  As many visits as there are fanins, and one for the root, empty it.

## 3. Runs

All runs use the `Spec` of their module (`FairSpec` in `driver`) and check deadlock,
except where the program or the searched part of it ends (`CHECK_DEADLOCK FALSE`).

| Run | Instance | What it shows |
|---|---|---|
| `merge_list` | three old gates, two golden ones, one prepatch gate, two literals | chains of every shape in every order; the lists implement `MergeClasses` |
| `select_patch` | three candidates, each of the 256 selectors, monotone or not | validity and minimality of the selection when every select input is in the cone |
| `select_patch_cone` | the same, two select inputs may be outside the cone | **violation**: a needed candidate is dropped |
| `driver` | three costs, two similar pairs, two values in each loop, with shell commands that succeed or may fail | the patch file, the state each search starts in, termination, and `BestPatch` |
| `rec_pairs` | five old gates, one that reads a net by two pins, two outputs, three cuts and three backward cuts, of one and of two patches; two cuts in one or two searches, with and without option r | numbering and verdicts agree; each mux is read; a selection leaves what its verdicts say; only two patches of one backward cut close a loop |
| `rec_pairs_shared` | one search of the same | **violation**: a backward patch is dropped from another one's pin |
| `patch_marks` | five old gates with a constant, a merged gate and a gate that reads one net by two pins, two dummy outputs, three golden gates, each selection and set of stale stamps (2304 initial states) | every live pin that the code asks about reads what was selected; which names are declared; when a target can be missing |
| `patch_marks_pins` | the same | **violation**: the second pin on a net is not asked about |
| `cut_enum` | every netlist of five gates with at most two fanins, every set of merged gates, every level | the search finds exactly the new cuts and restores its state |
| `cut_match` | two circuits of ten gates, twelve pairs of shapes, twenty of types, merged inner gates or none, three orders of similarity, two levels | a match is right, none is passed over, the shared counters fit |
| `cut_match_one` | the same with the golden constant one below the golden gate | **violation**: a wrong match is proved |
| `patch_gates` | every gate with up to three pins on two constants and three nets, alone and before four others | the gate written is the gate wanted; the cost is the file's |

The bounds are chosen for the cases they contain.  Three gates of one circuit
are the smallest chain with a gate behind the one inserted last.  Three
candidates have a decided, a tried and an untried one at the same time.  Three
costs give a cheaper, an equal and a dearer patch; two values for each index let
each loop wrap round; two similar pairs let a stale prepatch file or record show.
Two cuts between two resets (`MaxCuts`) can claim one pin, share a cone, give a gate
its second pair or close a loop when they are found in one search; in two searches
(`MaxRounds`) the second meets what the first left behind, and lists a golden gate again.
Five gates with a root contain reconvergence, a merged gate below
another cut gate, and cuts shorter and longer than `minCheckSize`, which is 2 or
3 here and at most 4 in the code; the counter of new gates is the code's 1000
where the merged gates changed.

Ten gates a side in `cut_match` are the two constants, three inputs, three gates of
inputs, one above two of them and the root: cuts of one, two and three gates, a
shared gate, an input beside a gate of level two, and a match found at either
level.  `MinCheckSize` is 3 (`cutMatching` starts with 4) so that a cut of three
gates is the largest that is tried without raising it.  In the three orders of
`SimOrders` the right pair comes first, comes last, or does not come: the last gate
is then the only one matched.  Three pins in `patch_gates` leave none, one and two
pins beside the constants, with even and odd numbers of ones.

In `RecPairs` and `PatchMarks` no instance leaves a case out for a property's sake.
Where the code goes wrong the property says on what it is right, or what exactly goes
wrong.  Seven configurations beside the runs let TLC show the rest, each with one
property that does not hold (`tlc -config MCRecPairsTwice.cfg MCRecPairs.tla`, for
instance):

| Property | What it says where the code goes wrong | Counterexample |
|---|---|---|
| `EveryMuxRead` | only a golden gate that is listed twice has its mux built twice | `MCRecPairsTwice.cfg`: `OneMuxPerPatch` |
| `SelectionApplied`, `ListsAgree` | of golden pins, those with no other patch of their gate to the same old gate (`Alone`) | run `rec_pairs_shared` |
| `OutputsReadMuxes` | the outputs without a backward patch | `MCRecPairsOutputs.cfg`: `OutputsOnTheirMuxes` |
| `LoopsClosedTogether` | only two patches of one backward cut close a loop | `MCRecPairsLoop.cfg`: `NoLoop` |
| `NetsRight` | the pins whose pair is the one `getRecPairFanin` finds | run `patch_marks_pins` |
| `NetsRight` | the outputs that are not to be rebuilt | `MCPatchMarksOutputs.cfg`: `OutputsNotRebuilt` |
| `CrashWhenClash` | a target is null only where two ALLs disagree (`clash`) or a gate reads a net by pins with different pairs (`Split`) | `MCPatchMarksCrash.cfg`: `CrashOnlyWhenClash` |
| `Declared` | exactly the names of constants marked ALL are not declared | `MCPatchMarksConst.cfg`: `ConstantsSimplified` |

`MCPatchMarksMapped.cfg` is one more, about names that are declared and wrong
(`MappedReadsRight`).

One limit is left: in `MCRecPairs` no gate has `_mergeFlag` (`MergeFlag = {}`), which
only takes pins away.

**Fairness.** Only `driver` needs it: `FairSpec` is `Spec /\ WF_vars(Next)`.  The
program is sequential, its next step is always taken, and which step that is never
depends on a scheduler.  `Terminates` holds for every resolution of what a step
returns, timeouts included.  That a single call of abc or the solver returns is
assumed; abc runs under no time limit.

## 4. Findings

- `select_patch_cone`: `abc`'s fraig can remove a select input from the miter's
  cone.  It then has no variable of its own but number 0, the miter's, and
  switching the candidate off contradicts the asserted miter: from then on each
  query is unsatisfiable and every later candidate is dropped, needed or not.
- `rec_pairs_shared`: `selectRecPair` clears the pin of a backward patch by what it
  is on and not by what it reads (`ntk/ntkReplace.cpp` 486): of two patches of one
  golden gate to one old gate it can clear the other.
- `patch_marks_pins`: `getRecPairFanin` answers for the first pin of a gate on a net,
  and the first pin is the one that `addRecPair` gives the pair to; a second one is
  patched with it.
- `cut_match_one`: `addClauseRec( int )` computes a gate's phase from its type and
  clears that of the constant one, whose phase is all that tells it from zero.  A
  golden gate that reads `1'b1` is then matched as if it read `1'b0`.

Shown by a configuration that is not one of the runs (section 3):

- `OneMuxPerPatch`: `resetRecPair` clears the pairs of all gates and keeps
  `_bwdPatchList`, which only `reset` clears (`ntk/ntkMgr.cpp` 293).  A golden gate
  that gets a backward patch in two searches is listed twice, and `checkBwdPatches`
  makes two muxes for its patch; no pin reads the second.
- `OutputsOnTheirMuxes`: the net of an output's pair is found by adding positions to
  a number that counts two nets per mux (`ntk/ntkReplace.cpp` 210); with a backward
  patch of the output's gate it is not the net of the pair's mux.
- `NoLoop`: `fraigCutFunc` checks the backward patches of a cut for loops one by one,
  before any of them is added (`ntk/ntkMatch.cpp` 1980, "TODO: check loop").
- `CrashOnlyWhenClash`: an ALL gate writes the target of its fanins pin by pin, also
  when the second pin on a net has no pair (`ntk/ntkReplace.cpp` 885); the target is
  then a null pointer.
- `ConstantsSimplified`: a constant that is marked ALL gets the name `1'b0_in`
  (`ntk/ntkReplace.cpp` 1402); it is not found as a constant and not declared.
- `OutputsNotRebuilt`: the fanouts of a replaced net are set to be rebuilt without
  looking what they are (`ntk/ntkReplace.cpp` 2233); a dummy output is no gate of the
  netlist.
- `MappedReadsRight`: a golden gate reads a merged old gate with the suffix `_in`
  even if the patch rebuilds this gate (`ntk/ntkReplace.cpp` 2381), and can then
  depend on itself.

Seen while reading:

- `rm` and `cp` in `eco` are not checked, so that a failed `cp` loses the best
  patch and reports it (`driver` shows what still holds).
- `ecoPo` simulates ten rounds on the shared AIG first, so that a smaller `sim_num`
  of `eco` has no effect.
- `revCutIndex` in `cutMatching` is sorted and then not used, though the loop over
  the cuts ends at the first that is too large; after a match `minCheckSize` is the
  size of the matched cut, and a longer cut kept from an earlier level ends the loop
  before the new ones are tried.

## 5. Proofs

`tlapm` checks all theorems from the modules as they are; each constant has the
assumptions named in its module and no others.

**DriverProofs** has three parts.  **MergeList**, for any sets of gates and literals:
`MergeIInv` says that unmapped
gates have null pointers (`Unmapped`); a literal has a first gate exactly when
gates are mapped to it, and this gate is a head (`Groups`); gates with the same
literal and circuit share a head of this literal and circuit (`Heads`); `_mg_next`
stays inside a group (`Links`) and does not return (`ChainsAcyclic`); each member
is on its head's chain (`Members`); and `_mg_list` leads to the head of the other
circuit's group (`Lists`).
`MergedIffSameNode` alone is not inductive: an insertion changes a pointer of the
head only, and that every member is still on the chain, once, takes the lemmas
`ChainInsert` and `ChainFromInserted` on chains.  From `MergeIInv`: `MergeTypeCorrect`,
`MergedCorrect`, `WalksTerminate`, and `MergeRefinement` to `MergeClasses`.

**SelectPatch**, for any number of candidates and any selector: `SelectIInv` adds
to the properties that the solver's unit clauses are the miter and exactly the
decisions made (`Asserted`) and that the candidates from `i` on are still on; the
assumptions then leave one assignment and the answer is whether it is in `bad`
(`SatIsBad`).  `SelectionValid` and `SelectionNeeded` assume `FraigedAway = {}`,
the case `select_patch_cone` shows is needed; `SelectTypeCorrect` does not.

**EcoDriver**, for any costs, parameter arrays and number of pairs: the
parts of `IInv` are: where a mode can be (`Where`), which file and record a search
works on (`RightNetlist`, `RightRecord`), that the rounds simulated are the rounds
counted (`Rounds`), where pairs can exist (`NoPairs`), the abc flags (`Flags`),
that only a proved and cheaper patch reaches the replacement (`Replacement`), and
the patch file (`OnDisk`, if shell commands succeed).  `PatchOnDisk` and
`Refinement` are about commands that succeed (`~shellFails`); `VerifiedOnDisk` holds
with failing commands too, and `TypeCorrect`, `NetlistCorrect`, `StartClean`,
`FlagsCorrect` and `SimsCorrect` are not about the file.

**FoldLemmas** has no state.  The code's loops over lists are folds in the model,
and the theorems below are about lists of any length.  The library's induction
theorems take an operator, which the prover's backends cannot instantiate; here
induction is over the subsets of a finite set, in the form that a nonempty
collection of them has a minimal one (`MinimalSubset`), and the recursive function
in the definition of a fold is built with it (`UnfoldsExists`).  `FoldLeftTrace`
then says that a fold has a sequence of intermediate values, each the loop body
`Op` applied to the one before.  `RecursionExists` does the same for a recursive
function whose values depend on those of lower rank.  A module that proves something about a loop
instantiates this one with its body for `Op`.

**RecPairsProofs**, for any two netlists, outputs, cuts, backward cuts and verdicts,
any number of searches, with and without option r.  The seven theorems have no
hypothesis but `RecPairsAssumption`: how a netlist is built, and that each pair of a
cut is about a gate that something reads.  `IInv` follows `pc`:

- while pairs are found (`Identified`) they lead from one netlist to the other, the
  count is that of the pins with a pair, each gate's list names the pairs of its
  pins once, the lists of gates have each gate with a pair (`_recPairList` once), and
  an output's pair is the first of its gate;
- when the search is over (`Made`), `_bwdPatchMap` names for each old gate the golden
  gates patched with it (`BwdMapOK`), each once unless `_bwdPatchList` has it twice;
- when the muxes are numbered (`Selectable`), there are positions `at` such that the
  muxes of the i-th gate of the list come after `at[i - 1]` others, in the numbering
  and in the walk of the verdicts: this ties two nets per mux to one verdict per mux;
- after the selection (`Left`), the count.  Nothing more is needed, since the reset
  clears the rest, `_bwdPatchList` excepted.

A patch that is in the walk twice is met first where its net points (`Pos`); `Keeps`
and `Drops` speak of any of its places, because one verdict to drop it is enough.  In
`selectPatch` itself the invariant of the loop (`SelectedTo`) says what the pins, the
lists and the count are after m muxes.  It says of each old pin what the verdicts have
made of it, and of a golden pin if it is `Alone`: the pin that `selectRecPair` clears
for a patch (`BwdPins`) is then one that reads the golden gate (`BwdPinsAlone`).

`Loops` needs the pairs to be added one at a time: a pair that passed
`checkLoopIfPatched` against the pairs there are closes no loop (`AddedAcyclic`), and
pairs that are taken away close none (`FewerAcyclic`).  `BwdAdded` is about the patches
of a backward cut, checked before the first is added: as long as only one of them is
new the check was about the pairs there are, so a loop takes two (`TwoPatches`).

**PatchMarksProofs**, for any netlists and any selection, gates that read a net by
several pins included.  The pairs never change
(`PairsOK`), `markFloatingGates` stamps exactly what is read after the patch
(`LiveOK`, by the same argument on closed sets as the cones of `RecPairs`), the list
of nets shrinks in the order of levels (`ListOK`), so that when a net is decided its
fanouts are not, and what is settled for a net stays (`DoneOK`).  From `IInv`:
`TypeCorrect`, `ResetOnlyWhenFloating`, `DecidedMarksFinal` (an action property),
`LiveNetsRight` and `PatchDeclares`.  `LiveNetsRight` says what a live gate reads on each pin
whose pair is that of the gate's first pin on the net.  `PatchDeclares` goes through the
names: an `_in` name is an input's when the patch replaces or rebuilds that net, and
not declared when the net is a constant, which is no input (`InputProvided`), a golden gate's name is a wire or the name of a gate in `used`
(`NamedProvided`), and what a rebuilt gate keeps is an input, an output or a constant
(`RebuiltProvided`).  `TargetUnlessClash` has an invariant of its own, `TargetOK`, on
nets that are ALL or queued to be: the last pin of a gate on the net writes the target,
so that a null one overwrote another target or follows a pin with a pair.

**PatchGateProofs**, for gates with any number of pins and constants and any number
of gates.  A gate that reads constants is written from the pins that are left; that
it computes what was wanted is a statement about the parity or the presence of ones
among the pins, which goes through the sequence of the pins kept (`Rest`).  From
`IInv`: `WrittenGatesRight`, `PatchCost` (the sum over the gates written is the cost
of the file) and `CostNeverWraps`.

**NetCutsProofs** is about operators.  `ReachLeast`: as many rounds as there
are gates compute the least set that is closed under reading, so that what is above
or below a cut can be reasoned about without the rounds.  `MarkWalk`: as many visits
as there are pins compute the marks of the lowest cut, and `MarksRight`: what the walk
marks is reached from the root through gates that do not stop it.  `LevelType`: each
gate has one level, above those of the gates it reads.

**CutEnumProofs**, for any netlist, lowest cut, set of merged gates and bound on the
sizes.  A cut is legal (`IsLegal`) when no gate above it reads one below it and all
that is read by a gate on the cut or below it is below.  The calls share the cut, and
nothing says where a call is but what the walks have left to do, so that the invariant
compares the flags with those that the last call found (`Base`):

- while a cut is legalized (`Legalizing`), gates have moved up only (`Moved`); what
  reads a gate that left the cut is on the cut, was passed, or waits in `spread`; and
  what a checked gate reads is below the cut, or waits.  `Supporting` says why each gate
  that was above the cut and is no more has left it: it reads a gate that the call
  removed, or another such gate.  When all that waits is done, the cut is legal again;
- when a call has popped its gate, whether the legalization succeeded or failed half
  way, `Popped` is left of this: exactly what a recovery needs;
- a recovery first puts back what was removed (`PuttingBack`) and then moves above the
  cut what reads it (`Recovering`).  The support leads from each gate that is not yet
  back to one that is still to be looked at, and when none is left the flags are those
  the call found (`CallLeaves`).  `CheckFanout` never meets a taken or a merged gate,
  since it only goes to gates that were above the cut.

`IInv` has these by `pc`, with the types, the counts (`numNew` is what `Count` gives
for the flags), the taken gates (those of the calls that have not popped theirs,
`TakenBy`) and, for each call, that the cut it found was legal (`StackRight`).  That
`Init` satisfies it takes the walk to the lowest cut to its end: every gate of the cone
was reached from above (`MarksComplete`).  From `IInv`: `TypeCorrect`,
`AssertionsHold`, `CallsRestore` (an action property).

`FoundSoundly` needs no more than that a legal cut separates the root (`LegalIsCut`)
and that a count above zero means a new gate.  `FoundCompletely` is about what the
search has not done.  A cut to find gives flags of its own (`FlagsOf`); it comes
(`Comes`) as long as the search is below it (`UpTo`: `Ahead`), or below it in a call
that has yet to pop its gate, which the cut has below it (`Later`).  Each early return
has to be justified: the last new gate is not popped, and neither is one with a taken
or merged gate above it, because the cut would have it on or above (`CountsTwo`,
`CannotRemoveComes`); and when `minCheckSize` gates are taken, no other cut of at most
that many gates has them (`NotTooLong`).  When the search is done nothing is left to come.

**CutMatchProofs**, for any netlists, any order of the similar pairs and any bound
on levels and sizes.  `ValuesDefined`: the recursive functions over the gates
have a value (`RecursionExists` in `FoldLemmas`, induction along a rank), which the
definitions alone do not say.  Then `SolverSound`: let the clauses, with the old
gates of the cut and the merged ones set to their partners, tell the roots apart for
no values of the golden gates without clauses.  Then for all inputs the old gate has
the golden function: the real values of the free gates are among those the solver
tried, `Encoded` is `Function` for every type that has clauses, and the values of
the gates above the cut depend on nothing below it (`SameValues`).

The parts of `IInv` are:

- `ListsRight`: each listed old cut separates the old root together with the merged
  gates (`CutRight`), and each golden gate in `gol`, `known` or `dupOf` was reached
  by a walk of this level or a higher one.  A lower level goes further
  (`GolWalkGrows`), so that the lists kept from earlier levels stay right.
- `StackRight`: each call on the stack selected two gates that no call before it had
  and knows how many gates of the old cut those had left.  `LeftCounts` is not
  inductive without it: unselecting restores the counts only because a gate is
  selected once.
- `LevelRight`, `BetweenCuts`, `Searching`, `LeftInCut`: `_cuts` are the cuts of at
  most `checkSize` gates, the counts leave out the gates of all calls, and these are
  the ones with a partner.
- `PhaseRight` and `MatchRight`: the golden constants have their phase, and a match
  is right, from the answer that proved it until it is the result.

From `IInv`: `CountsRight`, `EncodesAll` and `MatchesSound`.  The last two parts and
`MatchesSound` are about netlists in which no golden gate reads the constant one
(`ReadsNoOne`).  `cut_match_one` shows that this is needed, and the netlists of
`cut_match` satisfy it, those with a golden constant zero included.

`AllPairsTried` is about what the search has not done, and has an invariant of its
own, `TInv`.  It follows each right pairing of the cut that is being matched as a way
(`Way`): the last gate, whose candidates come from the counts and not from the similar
pairs, and where the list of pairs has those of the other gates.  Until the cut is given
up each way is still `Ahead` of the call, which chose pairs of it only and passed
over none, or `Later`: what some call comes to after it has unselected its pair
(`WaysAhead`).  `addPairToFormCut` skips a pair by the counts only, which have to be
those of the gates chosen (`CallsRight`); `SkipsNone` says that it skips no pair of a
way.  When the first call returns nothing is later, and the next old cut is taken
(`CutsTried`); no cut is left out for its size, since without a match all have at most
`minCheckSize` gates (`SmallCuts`).  At the last gate a way ends in a miter that is unsatisfiable
(`LastGateFinds`), by `SolverComplete`: what the clauses of some levels can do, the
gates can do, as long as no golden gate reads the constant one.

Only model-checked:

- `Terminates`, since liveness is out of the prover's reach;
- the properties of the violation runs and of the configurations in section 3, which do
  not hold.  `MatchSound` is one of
  them where a golden gate reads the constant one, and a theorem elsewhere.

## 6. Not modelled

- `cutMatchingWithFraig`, `fraigCutFunc` and `addPairToFormCutAndFraig`: the search
  of `cutMatching` again, with abc's fraig in the place of the solver and the
  `_cmg_*` lists it fills.  `RecPairs` takes what they return as an input.
- `addPreRecPair`, which puts a record of pairs on a netlist that was written and
  read again; `EcoDriver` tells which record a search has.
- `identifyRecPairsOf2Gates` and `addRecPairNRecord`, which no search calls.
- The construction of the netlist from abc's callbacks (`createGate`,
  `findOrCreateIdByName`, `constructCircuit`, `genNetlist`, `getMergeFrontier`) and
  the AIG reader: what they build is an input.
- The marking for a prepatch with a given pair, pins of golden gates with a pair,
  the inverters for merged gates of opposite phase, and the text of the patched
  netlist (`applyPatch`).
- Similarity scores: `CutMatch` takes the order they give as an input.
- abc, aiger and the SAT solver: third-party code.  abc has almost all of the
  repository's lines; its flags and the outcomes of its commands are in `EcoDriver`.

## 7. Plan

1. (done) `MergeList`, `SelectPatch`, `EcoDriver`, `RecPairs`, `PatchMarks`,
   `PatchGate`, `CutEnum` and `CutMatch` with runs and proofs: every invariant and
   action property of a passing run is a theorem.
2. What a search of `CutEnum` promises is used by `CutMatch` as a set (`CutsAt`); the
   order of the list, by the decisions, is checked in neither.
3. `addPreRecPair` in `RecPairs`: the record names gates and counts fanout
   positions, and both have to be the same after the netlist was read again.
4. `cutMatchingWithFraig`, composed with `RecPairs` in the place of its inputs.
5. Netlist construction with ids, levels and the merge cone, composed with
   `MergeList`.
