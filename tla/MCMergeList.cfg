SPECIFICATION MergeSpec
CONSTANTS
  o1 = o1
  o2 = o2
  o3 = o3
  g1 = g1
  g2 = g2
  p1 = p1
  Gate <- MCGate
  OldGate <- MCOldGate
  PrePatch <- MCPrePatch
  Key = {k1, k2}
  NoGate = NoGate
  NoKey = NoKey
INVARIANTS MergeTypeOK MergedIffSameNode ChainsAcyclic
PROPERTIES ImplementsClasses
