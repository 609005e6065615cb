CONSTANTS
  Instance = {p1, p2, p3}
  Inode = {n1, n2, n3}
  None = None
SPECIFICATION PidSpec
INVARIANT OnlyOneRuns
