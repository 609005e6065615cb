\* The bound on the calls ends a behaviour.
SPECIFICATION Spec
CHECK_DEADLOCK FALSE
CONSTANTS
  LaneBits = 16
  Rounds = 2
  Rate = 8
  SizeState = 4
  SizeDigest = 2
  Piece = {3, 8, 12}
  Request = {0, 1, 4}
  MaxCalls = 4
PROPERTIES
  ImplementsXdrbg
