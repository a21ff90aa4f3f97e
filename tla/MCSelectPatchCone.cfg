SPECIFICATION SelectSpec
CONSTANTS
  N = 3
  FraigedAway = {1, 2}
INVARIANTS NeededIsKept
CHECK_DEADLOCK FALSE
