----------------------------- MODULE Websocket -----------------------------
(***************************************************************************)
(* cgiwebsocket.c: the list of websockets, the parser of the frames that   *)
(* arrive in segments of any size, and the task that broadcasts.           *)
(*                                                                         *)
(* The callbacks of the server task run with the lock held; so does one    *)
(* send of the broadcaster, but its walk over the list does not. What it    *)
(* reads from a websocket that is freed is what was there, or the program   *)
(* fails.                                                                   *)
(***************************************************************************)
EXTENDS Integers, Sequences, FiniteSets

CONSTANTS
  Conns,        \* connections that may become websockets
  Null,
  Resource,     \* those whose URL is the one that is broadcast to
  Talkers,      \* those whose clients send frames
  Frames,       \* what a client may send: [op, masked, ext, len]
  MaxFrames,    \* frames that are sent in all
  MaxWalks,     \* broadcasts
  MaxControl    \* the payload of a ping is no longer (125)

\* ext: bytes of the extended length, 0, 2 or 8.
Frame ==
  [op : {"data", "ping", "close", "other"}, masked : BOOLEAN, ext : {0, 2, 8},
   len : 0 .. 255]

ASSUME WebsocketAssumption ==
  /\ IsFiniteSet(Conns) /\ Null \notin Conns /\ Resource \subseteq Conns
  /\ Talkers \subseteq Conns
  /\ Frames \subseteq Frame
  /\ MaxFrames \in Nat /\ MaxWalks \in Nat /\ MaxControl \in Nat

\* A byte of a frame is known by its part of the frame and its place in that part.
Part(f, k, n) == [i \in 1 .. n |-> [k |-> k, f |-> f, n |-> i - 1]]
Bytes(f) ==
  Part(f, "flags", 1) \o Part(f, "len0", 1) \o Part(f, "ext", f.ext)
  \o Part(f, "mask", IF f.masked THEN 4 ELSE 0) \o Part(f, "data", f.len)
Byte == [k : {"flags", "len0", "ext", "mask", "data"}, f : Frame, n : 0 .. 255]

ST_FLAGS == 0
ST_LEN0 == 1
ST_LEN1 == 2
ST_LEN2 == 3
ST_LEN8 == 9
ST_MASK1 == 10
ST_PAYLOAD == 14

VARIABLES
  conn,      \* "none", "open" (a websocket), "done" (freed, the connection is
             \* marked), "gone" (closed)
  llStart,   \* the list of websockets
  next,      \* priv->next, which stays in the memory when a websocket is freed
  priv,      \* the parser of each
  in,        \* bytes the server has not looked at
  seg,       \* whose segment cgiWebSocketRecv works on, with the lock held, and
             \* whether the byte just read was the last of a frame's head
  owed,      \* history: payload that sent pong heads announce and is not sent
  bcast,     \* the broadcaster
  frames,    \* how many frames were sent
  fault      \* memory was used that is not the program's

vars == <<conn, llStart, next, priv, in, seg, owed, bcast, frames, fault>>

NoByte == [k |-> "none"]
FreshPriv ==
  [status |-> ST_FLAGS, flags |-> NoByte, len8 |-> NoByte, len |-> 0,
   mask |-> [i \in 0 .. 3 |-> NoByte], maskCtr |-> 0, frameCont |-> FALSE]
NoSeg == [c |-> Null, header |-> FALSE]

\* at: "idle", "check" the URL, "send", go to the "next". must: websockets that are
\* open since the walk began; reached: those that were sent to.
Bcast ==
  [at : {"idle", "check", "send", "next"}, lw : Conns \cup {Null},
   must : SUBSET Conns, reached : SUBSET Conns, walks : 0 .. MaxWalks]

Kept == Byte \cup {NoByte}
Priv ==
  [status : 0 .. 14, flags : Kept, len8 : Kept, len : Nat, mask : [0 .. 3 -> Kept],
   maskCtr : 0 .. 255, frameCont : BOOLEAN]

TypeOK ==
  /\ conn \in [Conns -> {"none", "open", "done", "gone"}]
  /\ llStart \in Conns \cup {Null}
  /\ next \in [Conns -> Conns \cup {Null}]
  /\ priv \in [Conns -> Priv]
  /\ in \in [Conns -> Seq(Byte)]
  /\ seg \in [c : Conns \cup {Null}, header : BOOLEAN]
  /\ owed \in [Conns -> Nat]
  /\ bcast \in Bcast
  /\ frames \in 0 .. MaxFrames
  /\ fault \in BOOLEAN

Init ==
  /\ conn = [c \in Conns |-> "none"]
  /\ llStart = Null
  /\ next = [c \in Conns |-> Null]
  /\ priv = [c \in Conns |-> FreshPriv]
  /\ in = [c \in Conns |-> <<>>]
  /\ seg = NoSeg
  /\ owed = [c \in Conns |-> 0]
  /\ bcast = [at |-> "idle", lw |-> Null, must |-> {}, reached |-> {}, walks |-> 0]
  /\ frames = 0
  /\ fault = FALSE

Open == {c \in Conns : conn[c] = "open"}
Freed(c) == conn[c] \in {"done", "gone"}
LockFree == seg.c = Null

-----------------------------------------------------------------------------
(* The list.                                                                *)

\* cgiWebsocket, first call: the handshake, connCb, and the end of the list.
Connect(c) ==
  /\ LockFree
  /\ conn[c] = "none"
  /\ conn' = [conn EXCEPT ![c] = "open"]
  /\ IF llStart = Null
     THEN llStart' = c /\ UNCHANGED next
     ELSE /\ next' = [l \in Conns |-> IF l \in Open /\ next[l] = Null THEN c ELSE next[l]]
          /\ UNCHANGED llStart
  /\ UNCHANGED <<priv, in, seg, owed, bcast, frames, fault>>

\* websockFree
FreeFirstOnly(c) ==
  /\ llStart' = IF llStart = c THEN next[c] ELSE llStart
  /\ next' = next
FreeClearsNext(c) ==
  /\ llStart' = IF llStart = c THEN next[c] ELSE llStart
  /\ next' = [l \in Conns |-> IF l = c THEN Null
                              ELSE IF l \in Open /\ next[l] = c THEN next[c] ELSE next[l]]
websockFree(c) ==
  /\ llStart' = IF llStart = c THEN next[c] ELSE llStart
  /\ next' = [l \in Conns |-> IF llStart # c /\ l \in Open /\ next[l] = c
                              THEN next[c] ELSE next[l]]

\* The connection ends: the CGI is called without a connection if it is still set.
Disconnect(c) ==
  /\ LockFree
  /\ conn[c] \in {"open", "done"}
  /\ conn' = [conn EXCEPT ![c] = "gone"]
  /\ IF conn[c] = "open" THEN websockFree(c) ELSE UNCHANGED <<llStart, next>>
  /\ bcast' = [bcast EXCEPT !.must = @ \ {c}]
  /\ in' = [in EXCEPT ![c] = <<>>]
  /\ priv' = [priv EXCEPT ![c] = FreshPriv]
  /\ owed' = [owed EXCEPT ![c] = 0]
  /\ UNCHANGED <<seg, frames, fault>>

-----------------------------------------------------------------------------
(* cgiWebSocketRecv.                                                        *)

SendFrame(c, f) ==
  /\ frames < MaxFrames
  /\ conn[c] = "open"
  /\ frames' = frames + 1
  /\ in' = [in EXCEPT ![c] = @ \o Bytes(f)]
  /\ UNCHANGED <<conn, llStart, next, priv, seg, owed, bcast, fault>>

\* recvHdl is called with a segment. Where the segment ends is decided as it is
\* read. The handler is still set when the websocket is done: then there is no
\* websocket to work on.
Recv(c) ==
  /\ LockFree
  /\ in[c] # <<>>
  /\ \/ /\ conn[c] = "open"
        /\ seg' = [c |-> c, header |-> FALSE]
        /\ UNCHANGED fault
     \/ /\ conn[c] = "done"
        /\ fault' = TRUE
        /\ UNCHANGED seg
  /\ UNCHANGED <<conn, llStart, next, priv, in, owed, bcast, frames>>

\* The low byte of an extended length is the last one, the others are 0.
ExtByte(b) == IF b.k = "ext" /\ b.n = b.f.ext - 1 THEN b.f.len ELSE 0

AfterLen(p) == IF p.len8.f.masked THEN ST_MASK1 ELSE ST_PAYLOAD

LenEnds(p) == (p.len8.f.ext = 2 /\ p.status = ST_LEN2) \/ p.status = ST_LEN8

FrameFlagsKeepsMask(p, b) ==
  [p EXCEPT !.frameCont = FALSE, !.flags = b, !.status = ST_LEN0]
FrameFlags(p, b) ==
  [p EXCEPT !.maskCtr = 0, !.frameCont = FALSE, !.flags = b, !.status = ST_LEN0]

FrameLen(p, b) ==
  LET q == [p EXCEPT !.len8 = b]
  IN IF b.f.ext > 0 THEN [q EXCEPT !.len = 0, !.status = ST_LEN1]
                    ELSE [q EXCEPT !.len = b.f.len, !.status = AfterLen(q)]

HeaderByte(p, b) ==
  IF p.status = ST_FLAGS THEN FrameFlags(p, b)
  ELSE IF p.status = ST_LEN0 THEN FrameLen(p, b)
  ELSE IF p.status <= ST_LEN8
  THEN [p EXCEPT !.len = 256 * @ + ExtByte(b),
                 !.status = IF LenEnds(p) THEN AfterLen(p) ELSE @ + 1]
  ELSE [p EXCEPT !.mask[p.status - ST_MASK1] = b, !.status = @ + 1]

Header(c) ==
  LET p == HeaderByte(priv[c], Head(in[c]))
  IN /\ in[c] # <<>> /\ priv[c].status # ST_PAYLOAD
     /\ priv' = [priv EXCEPT ![c] = p]
     /\ in' = [in EXCEPT ![c] = Tail(@)]
     /\ seg' = [seg EXCEPT !.header = p.status = ST_PAYLOAD]
     /\ UNCHANGED <<conn, llStart, next, owed, bcast, frames, fault>>

\* The CGI is done: the websocket is freed, the rest of the segment ignored.
Done(c) ==
  /\ conn' = [conn EXCEPT ![c] = "done"]
  /\ websockFree(c)
  /\ \E rest \in 0 .. Len(in[c]) : in' = [in EXCEPT ![c] = SubSeq(@, rest + 1, Len(@))]
  /\ seg' = NoSeg
  /\ bcast' = [bcast EXCEPT !.must = @ \ {c}]
  /\ priv' = [priv EXCEPT ![c] = FreshPriv]
  /\ owed' = [owed EXCEPT ![c] = 0]
  /\ UNCHANGED <<frames, fault>>

\* What the segment has of the payload, sl bytes, is handled at once. It has none
\* if it ends with the head.
Taken(p, sl) ==
  IF p.len = sl THEN [p EXCEPT !.len = 0, !.maskCtr = (@ + sl) % 256, !.status = ST_FLAGS]
  ELSE [p EXCEPT !.len = @ - sl, !.maskCtr = (@ + sl) % 256, !.frameCont = TRUE]

\* A pong has its head with the first part of the payload.
PongEachTime(p, sl) == p.len - sl
Pong(p, sl) == IF p.frameCont THEN -sl ELSE p.len - sl

Rejects(p) ==
  \/ p.flags.f.op = "ping" /\ p.len > MaxControl
  \/ p.flags.f.op = "data" /\ ~p.len8.f.masked
  \/ p.flags.f.op = "close"

Payload(c, sl) ==
  LET p == priv[c]
  IN /\ p.status = ST_PAYLOAD /\ sl <= p.len
     /\ sl > 0 \/ seg.header
     /\ IF Rejects(p)
        THEN Done(c)
        ELSE /\ owed' = IF p.flags.f.op = "ping" THEN [owed EXCEPT ![c] = @ + Pong(p, sl)]
                                                 ELSE owed
             /\ priv' = [priv EXCEPT ![c] = Taken(p, sl)]
             /\ in' = [in EXCEPT ![c] = SubSeq(@, sl + 1, Len(@))]
             /\ seg' = IF sl < p.len THEN NoSeg ELSE [seg EXCEPT !.header = FALSE]
             /\ UNCHANGED <<conn, llStart, next, bcast, frames, fault>>

EndRecv ==
  /\ ~seg.header
  /\ seg' = NoSeg
  /\ UNCHANGED <<conn, llStart, next, priv, in, owed, bcast, frames, fault>>

-----------------------------------------------------------------------------
(* cgiWebsockBroadcast, in a task of its own.                               *)

Walk(lw) ==
  bcast' = [bcast EXCEPT !.lw = lw, !.at = IF lw = Null THEN "idle" ELSE "check"]

Start ==
  /\ bcast.at = "idle" /\ bcast.walks < MaxWalks /\ llStart # Null
  /\ bcast' = [at |-> "check", lw |-> llStart, must |-> Open \cap Resource,
               reached |-> {}, walks |-> bcast.walks + 1]
  /\ UNCHANGED <<conn, llStart, next, priv, in, seg, owed, frames, fault>>

\* strcmp(lw->conn->url, resource)
Check ==
  /\ bcast.at = "check"
  /\ bcast' = [bcast EXCEPT !.at = IF bcast.lw \in Resource THEN "send" ELSE "next"]
  /\ fault' \in {FALSE, Freed(bcast.lw)}
  /\ UNCHANGED <<conn, llStart, next, priv, in, seg, owed, frames>>

\* httpdConnSendStart, cgiWebsocketSend, httpdConnSendFinish.
Send ==
  /\ bcast.at = "send" /\ LockFree
  /\ bcast' = [bcast EXCEPT !.at = "next", !.reached = @ \cup {bcast.lw}]
  /\ fault' \in {FALSE, Freed(bcast.lw)}
  /\ UNCHANGED <<conn, llStart, next, priv, in, seg, owed, frames>>

GoOn ==
  /\ bcast.at = "next"
  /\ Walk(next[bcast.lw])
  /\ fault' \in {FALSE, Freed(bcast.lw)}
  /\ UNCHANGED <<conn, llStart, next, priv, in, seg, owed, frames>>

Server ==
  \/ \E c \in Conns :
       \/ Connect(c) \/ Disconnect(c)
       \/ Recv(c)
       \/ seg.c = c /\ (Header(c) \/ EndRecv \/ \E sl \in 0 .. Len(in[c]) : Payload(c, sl))
Client == \E c \in Talkers, f \in Frames : SendFrame(c, f)
Broadcaster == Start \/ Check \/ Send \/ GoOn

Next == ~fault /\ (Server \/ Client \/ Broadcaster)

Spec == Init /\ [][Next]_vars

-----------------------------------------------------------------------------
Orders(S) ==
  {q \in [1 .. Cardinality(S) -> S] : \A i, j \in DOMAIN q : q[i] = q[j] => i = j}

\* The list has every open websocket once and no freed one, in whatever order they
\* came and go, at every moment at which the broadcaster may look at it.
\* (cgiWebsocket, websockFree)
ListIsExact ==
  IF Open = {} THEN llStart = Null
  ELSE \E q \in Orders(Open) :
         /\ llStart = q[1]
         /\ \A i \in DOMAIN q :
              next[q[i]] = IF i = Cardinality(Open) THEN Null ELSE q[i + 1]

\* Wherever TCP cuts a stream of frames, the parser expects what comes: a frame
\* starts where it waits for one, and in the payload it knows how many bytes are
\* left and which byte of which mask is to be used for the next. (cgiWebSocketRecv)
ParserInStep ==
  \A c \in Open :
    LET p == priv[c]
        rest == in[c]
    IN /\ p.status = ST_FLAGS => rest = <<>> \/ Head(rest).k = "flags"
       /\ p.status = ST_PAYLOAD /\ p.len > 0 /\ rest # <<>> =>
            LET b == Head(rest)
            IN /\ b.k = "data" /\ b.f.len - b.n = p.len
               /\ b.f.masked =>
                    LET m == p.mask[p.maskCtr % 4]
                    IN m.k = "mask" /\ m.f = b.f /\ m.n = b.n % 4

\* A ping is answered by one pong: what its head announces is what is still to
\* come of the ping, and nothing when the ping is over. (cgiWebSocketRecv)
PongIsComplete ==
  \A c \in Open :
    owed[c] = IF priv[c].status = ST_PAYLOAD /\ priv[c].frameCont /\ priv[c].flags.f.op = "ping"
              THEN priv[c].len ELSE 0

\* A broadcast reaches every websocket of the resource that is open from its start
\* to its end, though others are added, unlinked and freed meanwhile, as long as
\* freed memory is not given to somebody else. (cgiWebsockBroadcast, websockFree)
BroadcastReachesAll == bcast.at = "idle" => bcast.must \subseteq bcast.reached
=============================================================================
