CONSTANTS
  BlockBits = 7
  SafetyFactor = 2
  Rate = 1
  Fips = 1
  RctMemCutoff = 2
  RctMemPermanent = 3
  RecoveryLoops = 2
  WindowMax = 65535
  RctCutoff = 3
  StuckPrime = 2
SPECIFICATION RdFairSpec
INVARIANTS
  RecoveryContained
PROPERTIES
  BlockCovered
  RandomDataReturns
