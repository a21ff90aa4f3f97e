SPECIFICATION SelectSpec
CONSTANTS
  N = 3
  FraigedAway = {}
INVARIANTS SelectTypeOK ValidStaysValid KeptIffNeeded
CHECK_DEADLOCK FALSE
