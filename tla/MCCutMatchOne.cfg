SPECIFICATION Spec
CONSTANTS
  OldGates <- MCOld
  GolGates <- MCGol
  Netlists <- MCOne
  SimOrders <- MCOrders
  LvThre = 2
  MinCheckSize = 3
INVARIANTS MatchSound
CHECK_DEADLOCK FALSE
