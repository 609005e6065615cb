\* The system may stop: panic() under fips_enabled.
SPECIFICATION FairSpec
CHECK_DEADLOCK FALSE
CONSTANTS
  Reader = {r1}
  MaxChunks = 2
  MaxSamples = 3
  Batch = 2
  LoopCount = {0, 1}
  f = f
  o = o
  Opener <- Openers
  File = f
  Privileged <- Capable
  max_instances = 1
  INT_MAX = 2147483647
  None = None
INVARIANTS
  NoUseAfterFree
  ReadReportsDelivered
  SlotsExact
  RecordingHomogeneous
PROPERTIES
  FailureKept
  CallsReturn
