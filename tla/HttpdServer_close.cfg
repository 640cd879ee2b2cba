\* One slot of the server task, two clients that want it: requests with and
\* without a body, a send backlog.
SPECIFICATION FairSpec
CONSTANTS
  MaxConn = 1
  Addrs = {a1, a2}
  NoAddr = NoAddr
  Null = Null
  MaxSegs = 2
  MaxBacklog = 2
  Replies <- TalkingReply
  Features = {"post"}
INVARIANTS
  PoolsAgree
PROPERTIES
  GoneIsReleased
  DoneIsClosed
  ResponseCompletes
