CONSTANTS
  MinOsr = 1
  MaxOsr = 2
  Word = 3
  StuckPrime = 2
  Delta <- MCDelta
  RctIntermittent = 3
  RctPermanent = 7
  RctSafety = 2
  AptWindow = 4
  AptCutoff <- MCAptCutoff
  AptCutoffPermanent <- MCAptCutoffPermanent
  LagHistorySize = 4
  LagWindow = 8
  LagLocal <- MCLagLocal
  LagLocalPermanent <- MCLagLocalPermanent
  LagGlobal <- MCLagGlobal
  LagGlobalPermanent <- MCLagGlobalPermanent
SPECIFICATION HealthSpec
CHECK_DEADLOCK FALSE
INVARIANTS
  RctVerdict
  AptVerdict
  LagVerdict
PROPERTIES
  StuckAgainstOwnSource
  EachTestOnItsOwn
