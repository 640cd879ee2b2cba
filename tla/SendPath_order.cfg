\* One response, one callback at a time: the socket may refuse a packet once.
SPECIFICATION FairSpec
CONSTANTS
  MaxSendBuff = 24
  MaxBacklog = 24
  Lens = {1, 8}
  Spare = 7
  MaxPieces = 5
  Features <- OneAtATime
INVARIANTS
  EndsWhole
PROPERTIES
  StreamSpec
  AllIsSent
CHECK_DEADLOCK FALSE
