CONSTANTS
  ClearCache = 1
  TestLoops = 3
  MaxBackwards = 1
  Word = 9
  GcdLimit = 3
  Rates = {1, 3}
  TimerGcd = {1, 2}
SPECIFICATION StartupSpec
INVARIANTS
  DivisorIsGreatest
  PassedClockWorks
CHECK_DEADLOCK FALSE
