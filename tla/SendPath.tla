------------------------------ MODULE SendPath ------------------------------
(***************************************************************************)
(* How the bytes of a response leave the server (httpd.c): httpdSend fills *)
(* the send buffer of the callback that is running, httpdFlushSendBuffer   *)
(* completes the chunk and hands the buffer to the socket, and what the    *)
(* socket does not take waits in the backlog for the sent callback.        *)
(*                                                                         *)
(* One connection. A piece is the data of one httpdSend; pieces are        *)
(* numbered, and of their bytes only the count matters. Whether a callback *)
(* comes at all is the subject of HttpdServer.                             *)
(***************************************************************************)
EXTENDS Integers, Sequences, SequencesExt, FiniteSets

CONSTANTS
  MaxSendBuff,  \* HTTPD_MAX_SENDBUFF_LEN
  MaxBacklog,   \* HTTPD_MAX_BACKLOG_SIZE
  Lens,         \* lengths of the data a CGI passes to httpdSend
  Spare,        \* bytes of the send buffer that a careful CGI leaves unused
  MaxPieces,    \* bound: pieces that are accepted in a behaviour
  Features      \* which of the environment's choices below are open

\* "malloc":    the malloc() of a backlog item may fail
\* "twice":     a socket may refuse a backlog item again
\* "async":     data may be sent between two sent callbacks: by another task
\*              or by a recvHdl, on a connection that is not chunked
\* "pipelined": the client may send its next request right after a response
AllFeatures == {"malloc", "twice", "async", "pipelined"}

ChunkHdrLen == 6      \* "0000\r\n"
CrlfLen == 2
LastChunkLen == 5     \* "0\r\n\r\n"
FourHexDigits == 65536

ASSUME SendPathAssumption ==
  /\ MaxSendBuff \in Nat /\ MaxBacklog \in Nat
  /\ Lens \subseteq Nat \ {0}
  /\ Spare \in Nat
  /\ MaxPieces \in Nat
  /\ Features \subseteq AllFeatures

VARIABLES
  priv,      \* the flags of the connection
  cgi,       \* conn->cgi is set
  sendBuff,  \* the send buffer of the running callback
  backlog,   \* sendBacklog: packets that the socket did not take
  backlogSize,  \* sendBacklogSize
  wire,      \* what the socket took, in that order
  received,  \* the pieces in it: what reaches the client
  pc,        \* "idle", or the callback that is running
  accepted   \* history: pieces that httpdSend returned 1 for

vars == <<priv, cgi, sendBuff, backlog, backlogSize, wire, received, pc, accepted>>

\* The flags of HttpdPriv, and whether the connection waits for a request head.
Priv == [chunked : BOOLEAN, sendingBody : BOOLEAN, disconAfterSent : BOOLEAN,
         head : BOOLEAN]

NoChunk == [claimed |-> 0, data |-> 0, crlf |-> TRUE]

\* A chunk: the length its header claims, the bytes of data it has, and whether it
\* ends in CR LF. And the contents of a send buffer.
Chunk == [claimed : 0 .. FourHexDigits - 1, data : Nat, crlf : BOOLEAN]
Buffer ==
  [len : Nat, pieces : Seq(Nat), chunk : Chunk,
   last : BOOLEAN,                \* ends in the last chunk
   chunkHdr : Nat \cup {-1}]      \* chunkHdr - sendBuff, or -1 for NULL

EmptyBuffer ==
  [len |-> 0, pieces |-> <<>>, chunk |-> NoChunk, last |-> FALSE, chunkHdr |-> -1]

TypeOK ==
  /\ priv \in Priv
  /\ cgi \in BOOLEAN
  /\ sendBuff \in Buffer
  /\ backlog \in Seq(Buffer) /\ backlogSize \in Int
  /\ wire \in Seq(Buffer) /\ received \in Seq(Nat)
  /\ pc \in {"idle", "recv", "sent", "closed"}
  /\ accepted \in Nat

Init ==
  /\ priv = [chunked |-> FALSE, sendingBody |-> FALSE, disconAfterSent |-> FALSE,
             head |-> TRUE]
  /\ cgi = FALSE
  /\ sendBuff = EmptyBuffer
  /\ backlog = <<>> /\ backlogSize = 0
  /\ wire = <<>> /\ received = <<>>
  /\ pc = "idle"
  /\ accepted = 0

-----------------------------------------------------------------------------
(* httpdSend. Data of the body of a chunked response opens a chunk.         *)

OpensChunk(p, b) == p.chunked /\ p.sendingBody /\ b.chunkHdr = -1

\* What httpdSend checks before it takes n more bytes.
FitsNoHdr(p, b, n) == b.len + n <= MaxSendBuff
Fits(p, b, n) ==
  b.len + n + (IF OpensChunk(p, b) THEN ChunkHdrLen ELSE 0) <= MaxSendBuff

WithData(chunk, n) == [chunk EXCEPT !.data = @ + n]

Put(p, b, piece, n) ==
  LET opened == IF OpensChunk(p, b)
                THEN [b EXCEPT !.chunkHdr = b.len, !.len = @ + ChunkHdrLen]
                ELSE b
  IN [opened EXCEPT !.len = @ + n, !.pieces = Append(@, piece),
                    !.chunk = IF opened.chunkHdr = -1 THEN @ ELSE WithData(@, n)]

-----------------------------------------------------------------------------
(* httpdFlushSendBuffer                                                     *)

\* "Finish chunk with cr/lf", if that fits, and fill in the length: what is in
\* the buffer after the start of the header, less the header and the CR LF.
WithEnd(chunk, n, crlf) ==
  [claimed |-> n % FourHexDigits, data |-> chunk.data, crlf |-> crlf]

CloseChunk(b) ==
  IF b.chunkHdr = -1 THEN b
  ELSE LET crlf == b.len + CrlfLen <= MaxSendBuff
           len  == b.len + (IF crlf THEN CrlfLen ELSE 0)
       IN [b EXCEPT !.len = len,
                    !.chunk = WithEnd(@, len - b.chunkHdr - 8, crlf),
                    !.chunkHdr = -1]

\* The last chunk is added without a look at the space that is left.
AddLastAlways(p, c, b) ==
  IF p.chunked /\ p.sendingBody
  THEN [b EXCEPT !.len = @ + LastChunkLen, !.last = TRUE] ELSE b
AddLast(p, c, b) ==
  IF p.chunked /\ p.sendingBody /\ ~c
  THEN [b EXCEPT !.len = @ + LastChunkLen, !.last = TRUE] ELSE b

\* What becomes of a packet: the socket takes it, or it goes to the backlog, or
\* the backlog has no room and it is dropped, or there is no memory for a
\* backlog item and it stays in the buffer.
Taken(b, o) ==
  [buff |-> EmptyBuffer, log |-> o.log, size |-> o.size,
   wire |-> Append(o.wire, b), received |-> o.received \o b.pieces]
Queued(b, o) ==
  [buff |-> EmptyBuffer, log |-> Append(o.log, b), size |-> o.size + b.len,
   wire |-> o.wire, received |-> o.received]
Dropped(b, o) ==
  [buff |-> EmptyBuffer, log |-> o.log, size |-> o.size,
   wire |-> o.wire, received |-> o.received]
Kept(b, o) ==
  [buff |-> b, log |-> o.log, size |-> o.size, wire |-> o.wire, received |-> o.received]

WriteOutcomesNoLimit(b, o) == {Taken(b, o), Queued(b, o)}
WriteOutcomesDropped(b, o) == {Taken(b, o), Dropped(b, o)}
WriteOutcomes(b, o) ==
  {Taken(b, o)} \cup
  (IF o.size + b.len > MaxBacklog THEN {Dropped(b, o)}
   ELSE {Queued(b, o)} \cup (IF "malloc" \in Features THEN {Kept(b, o)} ELSE {}))

Flush(p, c, o) ==
  LET b == AddLast(p, c, CloseChunk(o.buff))
  IN IF b.len = 0 THEN {o} ELSE WriteOutcomes(b, o)

FlushTwice(p, c, q, o) == UNION {Flush(q, c, once) : once \in Flush(p, c, o)}

\* httpdCgiIsDone leaves chunked mode, whatever follows on the connection.
DoneFlags(p) ==
  IF p.chunked
  THEN [chunked |-> FALSE, sendingBody |-> FALSE, disconAfterSent |-> TRUE, head |-> TRUE]
  ELSE [p EXCEPT !.disconAfterSent = TRUE]

NowWith(b) ==
  [buff |-> b, log |-> backlog, size |-> backlogSize, wire |-> wire, received |-> received]
Now == NowWith(sendBuff)

\* The callback ends; whatever is still in its buffer is freed with it.
End(outcomes) ==
  /\ pc' = "idle"
  /\ sendBuff' = EmptyBuffer
  /\ \E o \in outcomes :
       /\ backlog' = o.log /\ backlogSize' = o.size
       /\ wire' = o.wire /\ received' = o.received

-----------------------------------------------------------------------------
(* The callbacks.                                                           *)

\* httpdRecvCb has received the end of a request head. HTTP/1.1 asks for chunks.
Request(chunked) ==
  /\ pc = "idle"
  /\ priv.head
  /\ priv.disconAfterSent => "pipelined" \in Features
  /\ priv' = [priv EXCEPT !.chunked = chunked, !.head = FALSE]
  /\ cgi' = TRUE
  /\ pc' = "recv"
  /\ UNCHANGED <<sendBuff, backlog, backlogSize, wire, received, accepted>>

\* httpdContinue: the backlog goes first, whether or not the socket takes it.
DrainKeepsItem(log) == log
Drained(log) == Tail(log)

SentBacklog ==
  /\ pc = "idle"
  /\ backlog # <<>>
  /\ backlog' = Drained(backlog)
  /\ backlogSize' = backlogSize - Head(backlog).len
  /\ \/ wire' = Append(wire, Head(backlog)) /\ received' = received \o Head(backlog).pieces
     \/ "twice" \in Features /\ UNCHANGED <<wire, received>>
  /\ UNCHANGED <<priv, cgi, sendBuff, pc, accepted>>

AllSentAndDone == backlog = <<>> /\ priv.disconAfterSent

SentClose ==
  /\ pc = "idle"
  /\ AllSentAndDone
  /\ pc' = "closed"
  /\ UNCHANGED <<priv, cgi, sendBuff, backlog, backlogSize, wire, received, accepted>>

SentCgi ==
  /\ pc = "idle"
  /\ backlog = <<>>
  /\ ~priv.disconAfterSent
  /\ cgi
  /\ pc' = "sent"
  /\ UNCHANGED <<priv, cgi, sendBuff, backlog, backlogSize, wire, received, accepted>>

InCgi == pc \in {"recv", "sent"}

\* The CGI calls httpdSend, with n bytes that fit.
Send(n) ==
  /\ InCgi
  /\ accepted < MaxPieces
  /\ Fits(priv, sendBuff, n + Spare)
  /\ sendBuff' = Put(priv, sendBuff, accepted + 1, n)
  /\ accepted' = accepted + 1
  /\ UNCHANGED <<priv, cgi, backlog, backlogSize, wire, received, pc>>

\* httpdEndHeaders. The empty line is a piece of the headers; the body begins
\* even if it did not fit.
EndHeaders ==
  /\ InCgi
  /\ ~priv.sendingBody
  /\ accepted < MaxPieces
  /\ IF Fits(priv, sendBuff, CrlfLen)
     THEN /\ sendBuff' = Put(priv, sendBuff, accepted + 1, CrlfLen)
          /\ accepted' = accepted + 1
     ELSE UNCHANGED <<sendBuff, accepted>>
  /\ priv' = [priv EXCEPT !.sendingBody = TRUE]
  /\ UNCHANGED <<cgi, backlog, backlogSize, wire, received, pc>>

\* The CGI returns. After httpdProcessRequest (pc = "recv") the buffer is
\* flushed once more at the end of httpdRecvCb.
ReturnMore ==
  /\ InCgi
  /\ IF pc = "recv" THEN End(FlushTwice(priv, cgi, priv, Now))
                    ELSE End(Flush(priv, cgi, Now))
  /\ UNCHANGED <<priv, cgi, accepted>>

ReturnDone ==
  /\ InCgi
  /\ cgi' = FALSE
  /\ priv' = DoneFlags(priv)
  /\ IF priv.chunked THEN End(FlushTwice(priv, FALSE, priv', Now))
                     ELSE End(Flush(priv', FALSE, Now))
  /\ UNCHANGED accepted

\* Between httpdConnSendStart and httpdConnSendFinish, or in a recvHdl.
AsyncSend(n) ==
  /\ "async" \in Features
  /\ pc = "idle"
  /\ cgi /\ ~priv.chunked /\ priv.sendingBody
  /\ accepted < MaxPieces
  /\ Fits(priv, EmptyBuffer, n)
  /\ accepted' = accepted + 1
  /\ End(Flush(priv, cgi, NowWith(Put(priv, EmptyBuffer, accepted + 1, n))))
  /\ UNCHANGED <<priv, cgi>>

Next ==
  \/ \E chunked \in BOOLEAN : Request(chunked)
  \/ SentBacklog \/ SentClose \/ SentCgi
  \/ \E n \in Lens : Send(n) \/ AsyncSend(n)
  \/ EndHeaders \/ ReturnMore \/ ReturnDone

Spec == Init /\ [][Next]_vars

\* Sent callbacks come, a client reads what it is sent, and a CGI ends.
FairSpec ==
  /\ Spec
  /\ WF_vars(SentBacklog) /\ WF_vars(SentClose) /\ WF_vars(SentCgi)
  /\ SF_vars(ReturnDone)

-----------------------------------------------------------------------------
Packets == ToSet(wire) \cup ToSet(backlog)

\* The send buffer is never written beyond its end. (httpdSend, and
\* httpdFlushSendBuffer, which adds the CR LF and the last chunk)
BufferFits ==
  /\ sendBuff.len <= MaxSendBuff
  /\ \A p \in Packets : p.len <= MaxSendBuff

\* In a chunked response the length that a chunk claims is the length of its
\* data, and its data ends in CR LF, so the client can find the next chunk.
\* (httpdFlushSendBuffer)
ChunksWellFormed ==
  \A p \in Packets : p.chunk.claimed = p.chunk.data /\ p.chunk.crlf

\* A response in chunks ends in a last chunk and nothing of it comes after it:
\* as long as the CGI runs no last chunk has been sent, and it is the last
\* thing sent when the connection is closed. (httpdCgiIsDone, which flushes
\* before it clears the flags)
LastChunkEnds ==
  \A k \in DOMAIN wire : wire[k].last => k = Len(wire) /\ backlog = <<>> /\ ~cgi

\* Every packet fits its buffer and is framed as it says. (httpdSend,
\* httpdFlushSendBuffer)
WellFramed == BufferFits /\ ChunksWellFormed

\* The bytes of a backlog, and how many they are.
BytesOf(log) == UNION {{k} \X (1 .. log[k].len) : k \in DOMAIN log}
Size(log) == Cardinality(BytesOf(log))

\* The counter tells the bytes in the backlog, and they are never more than the
\* limit. (httpdFlushSendBuffer, httpdContinue)
BacklogBounded == backlogSize = Size(backlog) /\ backlogSize <= MaxBacklog

\* What reaches the client is what was accepted, in that order.
Stream == INSTANCE ByteStream WITH accepted <- accepted, received <- received
StreamSpec == Stream!Spec

\* Nothing is sent twice and nothing is overtaken. (httpdFlushSendBuffer writes to
\* the socket although older data is in the backlog)
InOrder ==
  LET s == received \o FlattenSeq([k \in DOMAIN backlog |-> backlog[k].pieces])
  IN \A j, k \in DOMAIN s : j < k => s[j] < s[k]

\* The server closes a connection only after everything that was accepted has
\* been handed to the socket. (httpdContinue: the backlog goes before the close)
NothingLeftBehind == pc = "closed" => received = [k \in 1 .. accepted |-> k]

\* The end of a response: the last chunk is last, and the connection is closed after it
\* and after everything else. (httpdCgiIsDone, httpdContinue)
EndsWhole == LastChunkEnds /\ NothingLeftBehind

\* What was accepted is sent in the end. (httpdFlushSendBuffer: "Dump packet in
\* backlog, we can send it later.")
AllIsSent == \A k \in 1 .. MaxPieces : accepted >= k ~> k \in ToSet(received)
=============================================================================
