\* More clients than entries in the tables, any CGI, websockets, and malloc() may fail.
SPECIFICATION Spec
CONSTANTS
  MaxConn = 2
  Addrs = {a1, a2, a3}
  NoAddr = NoAddr
  Null = Null
  MaxSegs = 1
  MaxBacklog = 0
  Replies <- AnyReply
  Features = {"malloc", "websocket", "noaccept"}
SYMMETRY ClientSymmetry
INVARIANTS
  TypeOK
  FindsOwnConnection
  CgiStateOwned
  LockReleased
  AcceptHasRoom
