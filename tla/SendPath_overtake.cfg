\* Data is pushed while the backlog is not empty.
SPECIFICATION Spec
CONSTANTS
  MaxSendBuff = 24
  MaxBacklog = 48
  Lens = {1, 8}
  Spare = 7
  MaxPieces = 5
  Features = {"async"}
INVARIANTS
  InOrder
CHECK_DEADLOCK FALSE
