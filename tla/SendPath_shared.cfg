\* Everything at once: pushed data, a second request, no memory, a socket that refuses twice.
SPECIFICATION Spec
CONSTANTS
  MaxSendBuff = 24
  MaxBacklog = 24
  Lens = {1, 8}
  Spare = 7
  MaxPieces = 4
  Features <- Everything
INVARIANTS
  WellFramed
  BacklogBounded
CHECK_DEADLOCK FALSE
