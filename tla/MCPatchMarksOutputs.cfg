SPECIFICATION Spec
CONSTANTS
  a = a
  k = k
  m = m
  y = y
  z = z
  dy = dy
  dz = dz
  x = x
  c = c
  d = d
  None = None
  Old <- MCOld
  Gol <- MCGol
  Fanin <- MCFanin
  Level <- MCLevel
  POs <- MCPOs
  Const = {k}
  Stale = {m, z}
  Mapped <- MCMapped
  RecsOf <- MCRecsOf
  MaxCost = 2000
INVARIANT OutputsNotRebuilt
CHECK_DEADLOCK FALSE
