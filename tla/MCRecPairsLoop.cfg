SPECIFICATION Spec
CONSTANTS
  a = a
  b = b
  y = y
  w = w
  z = z
  dy = dy
  dz = dz
  c = c
  f = f
  d = d
  e = e
  h = h
  None = None
  Old <- MCOld
  Gol <- MCGol
  Fanin <- MCFanin
  Level <- MCLevel
  POs <- MCPOs
  Cuts <- MCCuts
  Merged <- MCMerged
  MergeFlag = {}
  OptionsR = {TRUE, FALSE}
  BwdCuts <- MCBwdCuts
  MaxCuts = 2
  MaxRounds = 1
INVARIANT NoLoop
CHECK_DEADLOCK FALSE
