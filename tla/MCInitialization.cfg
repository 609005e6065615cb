CONSTANTS
  Thread = {t1, t2}
  Divisor = {1, 2}
SPECIFICATION Spec
INVARIANTS
  CollectorOnMeasuredClock
  NoSpuriousRefusal
PROPERTIES
  ForcedOnRequest
