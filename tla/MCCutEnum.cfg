SPECIFICATION Spec
CONSTANTS
  N = 5
  Fanins <- MCFanins
  MinCheckSizes = {2, 3}
  Unlimited = 1000
INVARIANTS TypeOK NeverAborts FoundAreCuts AllFound
PROPERTIES Restored
CHECK_DEADLOCK FALSE
