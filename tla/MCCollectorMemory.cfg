SPECIFICATION MemorySpec
CONSTANTS
  Thread = {t1, t2}
  Machine <- MCMachine
  Core <- MCCore
  SizeWidth = 8
  MaxCpus = 3
  MaxIndex = 4
  Absent = Absent
  Malformed = Malformed
  Arm64Min = 2
  ArmCores <- MCArmCores
  MemsizeOffset = 2
  DefaultBits = 3
  MaxField = 4
  MaxAuto = 3
  Ask <- MCAsk
  Page = 8
  StateLen = 5
  ExtrasLimit = 1
  BlockSize = 4
  MemLoops = 23
  LoopInit = 3
  LoopCount = {0, 5}
  MaxWalks = 2
SYMMETRY Symmetry
INVARIANTS
  RegionExceedsCaches
  MemoryAccounted
  HitEvenly
