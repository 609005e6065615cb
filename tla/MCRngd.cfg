CONSTANTS
  Retries = 2
  ReseedWakeups <- MCReseedWakeups
  MaxEntropy = 2
  Content <- MCContent
  NoNumber = NoNumber
SPECIFICATION FairSpec
INVARIANTS
  ReadyAndExitHonest
PROPERTIES
  ReseedsGoOn
  DaemonAnswers
CHECK_DEADLOCK FALSE
