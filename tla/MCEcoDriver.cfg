SPECIFICATION FairSpec
CONSTANTS
  Cost <- MCCost
  SimArr <- MCSimArr
  EcoDims <- MCEcoDims
  PreDims <- MCPreDims
  IntMax = 9
  PoSim = 2
  MaxPairs = 2
  NoFile = NoFile
  Leftover = Leftover
INVARIANTS TypeOK PatchMatchesBest NetlistMatches CleanStart FlagsFit SimsCounted NeverUnverified
PROPERTIES ImplementsBestPatch Terminates
