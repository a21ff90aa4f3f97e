SPECIFICATION Spec
CONSTANTS
  OldGates <- MCOld
  GolGates <- MCGol
  Netlists <- MCAll
  SimOrders <- MCOrders
  LvThre = 2
  MinCheckSize = 3
INVARIANTS MatchSound AllEncoded LeftCounts AllTried
CHECK_DEADLOCK FALSE
