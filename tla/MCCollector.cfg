SPECIFICATION FairSpec
CONSTANTS
  MinOsr = 1
  MaxOsr = 3
  MaxMem = 1
  MaxBlocks = 2
  MaxCalls = 2
INVARIANTS
  NoCollectorLost
  CountingThreadRuns
PROPERTIES
  InstanceKept
  VerdictsKept
  CallReturns
  ImplementsService
