SPECIFICATION Spec
CONSTANTS
  None = None
  c1 = c1
  c2 = c2
  c3 = c3
  Conns = {c1, c2, c3}
  MaxAps = 2
  MaxFound = 3
INVARIANTS
  MemoryKept
  ListIsExact
PROPERTIES
  ScanEnds
CHECK_DEADLOCK FALSE
