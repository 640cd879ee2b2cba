\* serveStaticFile on a file whose length is a multiple of its chunk.
SPECIFICATION FairSpec
CONSTANTS
  MaxConn = 1
  Addrs = {a1}
  NoAddr = NoAddr
  Null = Null
  MaxSegs = 1
  MaxBacklog = 1
  Replies <- StaticFileReply
  Features = {}
PROPERTIES
  DoneIsClosed
