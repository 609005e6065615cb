CONSTANTS
  Word = 4
  MaxCount = 9
  Advance = 3
  CountingThread = {t1, t2}
  FixedBits = 2
  SetMax = 8
  Cpu = {1, 9}
  Host <- MCHost
  Unreadable = Unreadable
  NoCtx = NoCtx
  NoHost = NoHost
SPECIFICATION FairSpec
INVARIANTS
  OneCountsForReader
  PlacedOnItsCpu
PROPERTIES
  ReadsTheCounter
  StopReturns
