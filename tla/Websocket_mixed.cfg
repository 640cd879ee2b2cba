\* Three websockets, two of them addressed by the broadcasts; frames cut anywhere.
SPECIFICATION Spec
CONSTANTS
  c1 = c1
  c2 = c2
  c3 = c3
  Null = Null
  Conns = {c1, c2, c3}
  Resource = {c1, c2}
  Talkers = {c1}
  Frames <- Mixed
  MaxFrames = 2
  MaxWalks = 1
  MaxControl = 3
INVARIANTS
  ListIsExact
  ParserInStep
  PongIsComplete
  BroadcastReachesAll
CHECK_DEADLOCK FALSE
