----------------------------- MODULE HttpdServer -----------------------------
(***************************************************************************)
(* The web server task: the select() loop of httpd-freertos.c with its     *)
(* table of sockets (rconn), and the callbacks of httpd.c with their table *)
(* of connections (connData), the life of a CGI function, the lock shared  *)
(* with the other tasks, and what happens when malloc() fails.             *)
(*                                                                         *)
(* What a request or a response contains is left to HttpdRecv and          *)
(* SendPath: here a received segment either does or does not complete      *)
(* something, and a call of a CGI function has a reply: what it returned   *)
(* and whether it sent anything.                                           *)
(***************************************************************************)
EXTENDS Integers

CONSTANTS
  MaxConn,      \* HTTPD_MAX_CONNECTIONS, the size of both tables
  Addrs,        \* client addresses: <<remote_ip, remote_port>>
  NoAddr,       \* the all-zero address of a connData that was never filled in
  Null,         \* the NULL pointer
  MaxSegs,      \* bound: received segments that wait in a socket
  MaxBacklog,   \* bound: items in the send backlog of one connection
  Replies,      \* what a CGI may do in its first and in a later call
  Features      \* which of the environment's choices below are open

Slots == 0 .. MaxConn - 1

\* What a CGI function returned and whether it sent anything in that call.
Reply == [r : {"MORE", "DONE"}, send : BOOLEAN]

\* "malloc":    any malloc() of the server task that it checks may fail (the one
\*              for the priv part in httpdConnectCb it does not check, but clears
\*              the memory at once: what a NULL does there is left out)
\* "websocket": a CGI may register a recvHdl, and other tasks send on it
\* "noaccept":  accept() may fail
\* "post":      requests may have a body
\* "reuse":     a client may connect again from an address whose old socket
\*              the server has not closed yet
AllFeatures == {"malloc", "websocket", "noaccept", "post", "reuse"}

ASSUME SizesAssumption ==
  /\ MaxConn \in Nat \ {0}
  /\ MaxSegs \in Nat \ {0}
  /\ MaxBacklog \in Nat
ASSUME RepliesAssumption ==
  /\ Replies \in [{"first", "later"} -> SUBSET Reply]
  /\ Features \subseteq AllFeatures

VARIABLES
  rconn,      \* httpd-freertos.c: the sockets of the server task
  connData,   \* httpd.c: the connections
  sock,       \* lwIP: what the client has sent or done on each socket
  queue,      \* lwIP: the clients that wait for accept()
  task,       \* where the server task is and its two fd_sets
  lockLeft,   \* httpdMux is still held by the server task after a callback
  cgiState    \* history: the state a CGI keeps behind cgiData is allocated

vars == <<rconn, connData, sock, queue, task, lockLeft, cgiState>>

\* struct RtosConnType. `open` is fd # -1. The fields of a closed entry are
\* dead: accept() overwrites all of them.
RtosConnType ==
  [open : BOOLEAN, addr : Addrs \cup {NoAddr}, needWriteDoneNotif : BOOLEAN,
   needsClose : BOOLEAN]

ClosedConn ==
  [open |-> FALSE, addr |-> NoAddr, needWriteDoneNotif |-> FALSE,
   needsClose |-> FALSE]

\* HttpdConnData with its priv and post parts. `phase` is the meaning of
\* post->len: head (< 0), body (> 0), rest (0). `made` is a history field: the
\* socket ConnectCb was called for.
HttpdConnData ==
  [addr : Addrs \cup {NoAddr}, conn : Slots, made : Slots,
   phase : {"head", "body", "rest"}, cgi : BOOLEAN, recvHdl : BOOLEAN,
   chunked : BOOLEAN, sendingBody : BOOLEAN, disconAfterSent : BOOLEAN,
   backlog : 0 .. MaxBacklog]

ASSUME NullAssumption == NoAddr \notin Addrs /\ Null \notin HttpdConnData

NewConnData(a, s) ==
  [addr |-> a, conn |-> s, made |-> s, phase |-> "head", cgi |-> FALSE,
   recvHdl |-> FALSE, chunked |-> FALSE, sendingBody |-> FALSE,
   disconAfterSent |-> FALSE, backlog |-> 0]

\* What lwIP holds for a socket: unread segments, and the client's FIN or RST.
Socket == [segs : 0 .. MaxSegs, eof : BOOLEAN]
FreshSocket == [segs |-> 0, eof |-> FALSE]

\* at: "slots" (working through the sockets select() returned, then the top of
\* the loop), "select" (blocked), "accept". readset and writeset are what was
\* handed to select() and then what it returned, less what is already handled.
Task ==
  [at : {"slots", "select", "accept"}, readset : SUBSET Slots,
   writeset : SUBSET Slots, listening : BOOLEAN]

TypeOK ==
  /\ rconn \in [Slots -> RtosConnType]
  /\ connData \in [Slots -> HttpdConnData \cup {Null}]
  /\ sock \in [Slots -> Socket]
  /\ queue \in SUBSET Addrs
  /\ task \in Task
  /\ lockLeft \in BOOLEAN
  /\ cgiState \in [Slots -> BOOLEAN]

Init ==
  /\ rconn = [s \in Slots |-> ClosedConn]
  /\ connData = [i \in Slots |-> Null]
  /\ sock = [s \in Slots |-> FreshSocket]
  /\ queue = {}
  /\ task = [at |-> "slots", readset |-> {}, writeset |-> {}, listening |-> FALSE]
  /\ lockLeft = FALSE
  /\ cgiState = [i \in Slots |-> FALSE]

-----------------------------------------------------------------------------
(* The clients and lwIP.                                                    *)

Connect(a) ==
  /\ a \notin queue
  /\ \A s \in Slots :
       rconn[s].open /\ rconn[s].addr = a => "reuse" \in Features /\ sock[s].eof
  /\ queue' = queue \cup {a}
  /\ UNCHANGED <<rconn, connData, sock, task, lockLeft, cgiState>>

ClientSend(s) ==
  /\ rconn[s].open
  /\ ~sock[s].eof
  /\ sock[s].segs < MaxSegs
  /\ sock' = [sock EXCEPT ![s].segs = @ + 1]
  /\ UNCHANGED <<rconn, connData, queue, task, lockLeft, cgiState>>

\* The client closes (its data stays readable) or resets (it is thrown away).
ClientClose(s) ==
  /\ rconn[s].open
  /\ ~sock[s].eof
  /\ \E left \in {0, sock[s].segs} :
       sock' = [sock EXCEPT ![s] = [segs |-> left, eof |-> TRUE]]
  /\ UNCHANGED <<rconn, connData, queue, task, lockLeft, cgiState>>

Readable(s) == sock[s].segs > 0 \/ sock[s].eof

-----------------------------------------------------------------------------
(* httpd.c                                                                  *)

\* httpdFindConnData: the first entry with this address, whatever socket it
\* was made for.
Matches(cd, a) == {i \in DOMAIN cd : cd[i] # Null /\ cd[i].addr = a}
First(S) == CHOOSE i \in S : \A j \in S : i <= j

\* httpdPlatDisconnect. The closing is done where the sent callbacks are.
PlatDisconnectForgets(s) ==
  rconn' = [rconn EXCEPT ![s].needWriteDoneNotif = TRUE]
PlatDisconnect(s) ==
  rconn' = [rconn EXCEPT ![s].needsClose = TRUE, ![s].needWriteDoneNotif = TRUE]

\* httpdPlatSendData marks the socket whether or not write() takes the data;
\* what it does not take goes to the backlog, or is lost when the backlog is
\* full.
SendOutcomesOverfull(c, send) ==
  IF ~send THEN {c}
  ELSE {c} \cup (IF c.backlog <= MaxBacklog
                 THEN {[c EXCEPT !.backlog = @ + 1]} ELSE {})
SendOutcomes(c, send) ==
  IF ~send THEN {c}
  ELSE {c} \cup (IF c.backlog < MaxBacklog
                 THEN {[c EXCEPT !.backlog = @ + 1]} ELSE {})

MarkSentAndClose(s, send) ==
  rconn' = [rconn EXCEPT ![s].needWriteDoneNotif = @ \/ send, ![s].needsClose = @ \/ send]
MarkSent(s, send) ==
  rconn' = [rconn EXCEPT ![s].needWriteDoneNotif = @ \/ send]

\* httpdCgiIsDone
CgiIsDone(c) ==
  IF c.chunked
  THEN [c EXCEPT !.cgi = FALSE, !.phase = "head", !.chunked = FALSE,
                 !.sendingBody = FALSE, !.disconAfterSent = TRUE]
  ELSE [c EXCEPT !.cgi = FALSE, !.disconAfterSent = TRUE]

AfterCgi(c, r) ==
  IF r = "MORE" THEN [c EXCEPT !.cgi = TRUE] ELSE CgiIsDone(c)

\* The replies of a CGI. One that sends has ended its headers first; ending a
\* chunked response always sends, namely the last chunk.
RepliesOf(c) == Replies[IF c.cgi THEN "later" ELSE "first"]

Said(c, reply) ==
  IF reply.send THEN [c EXCEPT !.sendingBody = TRUE] ELSE c

Sends(c, reply) ==
  reply.send \/ (reply.r = "DONE" /\ c.chunked /\ c.sendingBody)

\* A CGI function of connData[i] is called on socket s and replies; whatever it
\* sent is flushed before the callback returns. A CGI that is not done keeps
\* state behind cgiData; one that is done has freed it.
CallCgi(i, s, c, reply) ==
  /\ \E d \in SendOutcomes(AfterCgi(Said(c, reply), reply.r), Sends(c, reply)) :
       connData' = [connData EXCEPT ![i] = d]
  /\ MarkSent(s, Sends(c, reply))
  /\ cgiState' = [cgiState EXCEPT ![i] = reply.r = "MORE"]

\* A recvHdl that is done has freed the state of its CGI. Nothing clears recvHdl
\* itself: it is called again if more data comes.
CallRecvHdl(i, s, c, reply) ==
  /\ \E d \in SendOutcomes(IF reply.r = "MORE" THEN c ELSE CgiIsDone(c), reply.send) :
       connData' = [connData EXCEPT ![i] = d]
  /\ MarkSent(s, reply.send)
  /\ cgiState' = [cgiState EXCEPT ![i] = @ /\ reply.r = "MORE"]

\* httpdProcessRequest: the route table ends in cgiNotFound, which sends and is
\* done, so some CGI always takes the request. A websocket leaves chunked mode
\* and registers a recvHdl; it can only do so on the first call.
ProcessRequest(i, s, c) ==
  \/ \E reply \in RepliesOf(c) : CallCgi(i, s, c, reply)
  \/ /\ "websocket" \in Features
     /\ c.phase = "rest"
     /\ CallCgi(i, s, [c EXCEPT !.recvHdl = TRUE, !.chunked = FALSE],
                [r |-> "MORE", send |-> TRUE])

\* What the segment means, by the state the connection is in. Each disjunct
\* leaves connData, rconn and cgiState decided.
NothingCompleted(i, c) ==
  /\ connData' = [connData EXCEPT ![i] = c]
  /\ UNCHANGED <<rconn, cgiState>>

RecvHead(i, s, c) ==
  /\ c.phase = "head"
  /\ \/ NothingCompleted(i, c)
     \/ \E chunked \in BOOLEAN :
          \/ ProcessRequest(i, s, [c EXCEPT !.phase = "rest", !.chunked = chunked])
          \/ /\ "post" \in Features
             /\ NothingCompleted(i, [c EXCEPT !.phase = "body", !.chunked = chunked])
     \/ NothingCompleted(i, [c EXCEPT !.phase = "rest"])      \* no url found

RecvBody(i, s, c) ==
  /\ c.phase = "body"
  /\ \/ NothingCompleted(i, c)
     \/ ProcessRequest(i, s, c)
     \/ CallCgi(i, s, c, [r |-> "MORE", send |-> FALSE])

RecvRest(i, s, c) ==
  /\ c.phase = "rest"
  /\ \/ c.recvHdl /\ \E reply \in Replies["later"] \cup {[r |-> "MORE", send |-> FALSE]} :
                       CallRecvHdl(i, s, c, reply)
     \/ ~c.recvHdl /\ NothingCompleted(i, c)

\* httpdRecvCb
RecvCb(s) ==
  LET found == Matches(connData, rconn[s].addr)
      i     == First(found)
      c     == [connData[i] EXCEPT !.conn = s]
  IN IF found = {}
     THEN PlatDisconnect(s) /\ UNCHANGED <<connData, cgiState>>
     ELSE \/ "malloc" \in Features /\ NothingCompleted(i, c)  \* no sendBuff
          \/ RecvHead(i, s, c)
          \/ RecvBody(i, s, c)
          \/ RecvRest(i, s, c)

\* httpdSentCb and httpdContinue. When there is no connection the lock that was
\* just taken is not given back.
SentCb(s) ==
  LET found == Matches(connData, rconn[s].addr)
      i     == First(found)
      c     == [connData[i] EXCEPT !.conn = s]
      quiet == [rconn EXCEPT ![s].needWriteDoneNotif = FALSE]
      mark  == [rconn EXCEPT ![s].needWriteDoneNotif = TRUE]
  IN \/ /\ found = {}
        /\ lockLeft' = TRUE
        /\ PlatDisconnect(s)
        /\ UNCHANGED <<connData, cgiState>>
     \/ /\ found # {}
        /\ UNCHANGED lockLeft
        /\ \/ /\ c.backlog > 0
              /\ connData' = [connData EXCEPT ![i] = [c EXCEPT !.backlog = @ - 1]]
              /\ rconn' = mark
              /\ UNCHANGED cgiState
           \/ /\ c.backlog = 0
              /\ c.disconAfterSent
              /\ connData' = [connData EXCEPT ![i] = c]
              /\ PlatDisconnect(s)
              /\ UNCHANGED cgiState
           \/ /\ c.backlog = 0
              /\ ~c.disconAfterSent
              /\ ~c.cgi \/ "malloc" \in Features              \* no sendBuff
              /\ connData' = [connData EXCEPT ![i] = c]
              /\ rconn' = quiet
              /\ UNCHANGED cgiState
           \/ /\ c.backlog = 0
              /\ ~c.disconAfterSent
              /\ c.cgi
              /\ \E reply \in RepliesOf(c) :
                   /\ \E d \in SendOutcomes(AfterCgi(Said(c, reply), reply.r),
                                           Sends(c, reply)) :
                        connData' = [connData EXCEPT ![i] = d]
                   /\ rconn' = IF Sends(c, reply) THEN mark ELSE quiet
                   /\ cgiState' = [cgiState EXCEPT ![i] = reply.r = "MORE"]

\* httpdDisconCb: the CGI, if any, is called with conn = NULL and frees its
\* state; then httpdRetireConn frees the entry.
AfterDisconIdleStays(cd, a) ==
  IF Matches(cd, a) = {} \/ ~cd[First(Matches(cd, a))].cgi THEN cd
  ELSE [cd EXCEPT ![First(Matches(cd, a))] = Null]
AfterDiscon(cd, a) ==
  IF Matches(cd, a) = {} THEN cd ELSE [cd EXCEPT ![First(Matches(cd, a))] = Null]

StateAfterDisconUntold(cd, st, a) == st
StateAfterDiscon(cd, st, a) ==
  IF Matches(cd, a) = {} THEN st
  ELSE [st EXCEPT ![First(Matches(cd, a))] =
                    @ /\ ~cd[First(Matches(cd, a))].cgi]

\* httpdConnectCb: its result is ignored by the caller. The allocations of the
\* entry and of its post part may fail; that of priv is not checked (see Features).
ConnectCb(s, a) ==
  LET free == {i \in Slots : connData[i] = Null}
      i    == First(free)
  IN \/ /\ free = {} \/ "malloc" \in Features       \* overflow, or no connData
        /\ UNCHANGED connData
     \/ /\ free # {}
        /\ connData' = [connData EXCEPT ![i] = NewConnData(a, s)]
     \/ /\ free # {} /\ "malloc" \in Features       \* no post: entry left behind
        /\ connData' = [connData EXCEPT ![i] = NewConnData(NoAddr, s)]

-----------------------------------------------------------------------------
(* platHttpServerTask                                                       *)

\* The sets handed to select(), and whether it is to watch for new clients.
NeverFull == FALSE
SocketsFull == \A s \in Slots : rconn[s].open

\* An off-by-one in select()'s first argument would ignore the highest socket.
ReadInterestMaxfd ==
  {s \in Slots : rconn[s].open /\ \E t \in Slots : t > s /\ rconn[t].open}
ReadInterest == {s \in Slots : rconn[s].open}

NoneToWrite == {}
WriteInterest == {s \in Slots : rconn[s].open /\ rconn[s].needWriteDoneNotif}

\* The top of the loop.
BuildFdSets ==
  /\ task.at = "slots"
  /\ task.readset = {} /\ task.writeset = {}
  /\ task' = [at |-> "select",
              readset |-> ReadInterest,
              writeset |-> WriteInterest,
              listening |-> ~SocketsFull]
  /\ UNCHANGED <<rconn, connData, sock, queue, lockLeft, cgiState>>

\* select() has no timeout: it returns when one of its sockets is ready.
SelectReturns(writable) ==
  LET ready == {s \in task.readset : Readable(s)}
      ring  == task.listening /\ queue # {}
  IN /\ task.at = "select"
     /\ writable \subseteq task.writeset
     /\ ready \cup writable # {} \/ ring
     /\ task' = [at |-> IF ring THEN "accept" ELSE "slots", readset |-> ready,
                 writeset |-> writable, listening |-> FALSE]
     /\ UNCHANGED <<rconn, connData, sock, queue, lockLeft, cgiState>>

FreeConns == {s \in Slots : ~rconn[s].open}

Accept(a) ==
  LET s == First(FreeConns)
  IN /\ task.at = "accept"
     /\ a \in queue
     /\ queue' = queue \ {a}
     /\ IF FreeConns = {}
        THEN /\ task' = [task EXCEPT !.at = "slots", !.readset = {}, !.writeset = {}]
             /\ UNCHANGED <<rconn, connData, sock>>
        ELSE /\ task' = [task EXCEPT !.at = "slots"]
             /\ rconn' = [rconn EXCEPT ![s] = [ClosedConn EXCEPT !.open = TRUE, !.addr = a]]
             /\ sock' = [sock EXCEPT ![s] = FreshSocket]
             /\ ConnectCb(s, a)
     /\ UNCHANGED <<lockLeft, cgiState>>

\* accept() has no socket left and drops the client; `continue` skips the sets.
AcceptFails(a) ==
  /\ "noaccept" \in Features
  /\ task.at = "accept"
  /\ a \in queue
  /\ queue' = queue \ {a}
  /\ task' = [task EXCEPT !.at = "slots", !.readset = {}, !.writeset = {}]
  /\ UNCHANGED <<rconn, connData, sock, lockLeft, cgiState>>

\* The socket the loop over the slots looks at next.
AtSlot(s) ==
  /\ task.at = "slots"
  /\ task.readset \cup task.writeset # {}
  /\ s = First(task.readset \cup task.writeset)

CloseSlotStaysOpen(s) ==
  /\ UNCHANGED rconn
  /\ sock' = [sock EXCEPT ![s] = FreshSocket]
CloseSlot(s) ==
  /\ rconn' = [rconn EXCEPT ![s] = ClosedConn]
  /\ sock' = [sock EXCEPT ![s] = FreshSocket]

Disconnect(s) ==
  /\ connData' = AfterDiscon(connData, rconn[s].addr)
  /\ cgiState' = StateAfterDiscon(connData, cgiState, rconn[s].addr)
  /\ CloseSlot(s)

\* The socket is writable and marked: it is closed, or the sent callback runs.
WriteClose(s) ==
  /\ AtSlot(s)
  /\ s \in task.writeset
  /\ rconn[s].needsClose
  /\ Disconnect(s)
  /\ task' = [task EXCEPT !.readset = @ \ {s}, !.writeset = @ \ {s}]
  /\ UNCHANGED <<queue, lockLeft>>

WriteSent(s) ==
  /\ AtSlot(s)
  /\ s \in task.writeset
  /\ ~rconn[s].needsClose
  /\ SentCb(s)
  /\ task' = [task EXCEPT !.writeset = @ \ {s}]
  /\ UNCHANGED <<sock, queue>>

\* The socket is readable: its data goes to httpdRecvCb, or it has ended.
ReadData(s) ==
  /\ AtSlot(s)
  /\ s \notin task.writeset
  /\ sock[s].segs > 0
  /\ sock' = [sock EXCEPT ![s].segs = @ - 1]
  /\ RecvCb(s)
  /\ task' = [task EXCEPT !.readset = @ \ {s}]
  /\ UNCHANGED <<queue, lockLeft>>

ReadEnds(s) ==
  /\ AtSlot(s)
  /\ s \notin task.writeset
  /\ sock[s].segs = 0
  /\ Disconnect(s)
  /\ task' = [task EXCEPT !.readset = @ \ {s}]
  /\ UNCHANGED <<queue, lockLeft>>

\* No receive buffer: the connection is closed, and then, for want of a
\* `continue`, recv() fails on fd -1 and httpdDisconCb runs a second time.
ReadNoBuffer(s) ==
  LET a == rconn[s].addr
      once == AfterDiscon(connData, a)
  IN /\ "malloc" \in Features
     /\ AtSlot(s)
     /\ s \notin task.writeset
     /\ connData' = AfterDiscon(once, a)
     /\ cgiState' = StateAfterDiscon(once, StateAfterDiscon(connData, cgiState, a), a)
     /\ CloseSlot(s)
     /\ task' = [task EXCEPT !.readset = @ \ {s}]
     /\ UNCHANGED <<queue, lockLeft>>

-----------------------------------------------------------------------------
(* Another task sends on a websocket between httpdConnSendStart and         *)
(* httpdConnSendFinish, which needs the lock. The set of sockets select()   *)
(* waits for is not changed by it.                                          *)
AsyncSend(i) ==
  /\ ~lockLeft
  /\ connData[i] # Null
  /\ connData[i].recvHdl /\ connData[i].cgi
  /\ \E d \in SendOutcomes(connData[i], TRUE) :
       connData' = [connData EXCEPT ![i] = d]
  /\ MarkSent(connData[i].conn, TRUE)
  /\ UNCHANGED <<sock, queue, task, lockLeft, cgiState>>

-----------------------------------------------------------------------------
Clients ==
  \/ \E a \in Addrs : Connect(a)
  \/ \E s \in Slots : ClientSend(s) \/ ClientClose(s)

Server ==
  \/ BuildFdSets
  \/ \E writable \in SUBSET Slots : SelectReturns(writable)
  \/ \E a \in Addrs : Accept(a) \/ AcceptFails(a)
  \/ \E s \in Slots : \/ WriteClose(s) \/ WriteSent(s)
                      \/ ReadData(s) \/ ReadEnds(s) \/ ReadNoBuffer(s)

Next == Clients \/ Server \/ \E i \in Slots : AsyncSend(i)

Spec == Init /\ [][Next]_vars

-----------------------------------------------------------------------------
(* Safety.                                                                  *)

\* The two tables, rconn of the platform layer and connData of the server,
\* are only linked by the client's address. Every socket that is open has
\* exactly one connection that was made for it, and no connection outlives its
\* socket, so that neither table can fill up while the other has room.
\* (httpdConnectCb, httpdDisconCb, the accept and close code of the server task)
PoolsAgree ==
  /\ \A s \in Slots : rconn[s].open
       => \E i \in Slots : connData[i] # Null /\ connData[i].made = s
  /\ \A i \in Slots : connData[i] # Null => rconn[connData[i].made].open
  /\ \A i, j \in Slots : connData[i] # Null /\ connData[j] # Null
       /\ connData[i].made = connData[j].made => i = j

\* A callback for a socket works on the connection that was made for that
\* socket. (httpdFindConnData: "Looks up the connData info for a specific
\* connection")
FindsOwnConnection ==
  \A s \in Slots : rconn[s].open /\ Matches(connData, rconn[s].addr) # {}
    => connData[First(Matches(connData, rconn[s].addr))].made = s

\* A callback always finds a connection. (httpdFindConnData: "Shouldn't
\* happen." on the path where it finds none)
FindNeverMisses ==
  \A s \in Slots : rconn[s].open => Matches(connData, rconn[s].addr) # {}

\* State that a CGI function allocated is never orphaned: as long as it exists
\* a connection refers to the CGI that will be called to free it, with
\* conn = NULL if the client goes away. (httpdDisconCb, httpdCgiIsDone)
CgiStateOwned ==
  \A i \in Slots : cgiState[i] => connData[i] # Null /\ connData[i].cgi

\* Between two callbacks the server task does not hold the lock, so the other
\* tasks can send. (httpdContinue returns without httpdPlatUnlock when it is
\* given no connection)
LockReleased == ~lockLeft

\* select() reports a new client only when there was a closed entry to put it
\* in, and none is taken before accept(). (the "Huh? Got accept with all slots
\* full." path of the server task is dead)
AcceptHasRoom == task.at = "accept" => FreeConns # {}

-----------------------------------------------------------------------------
(* Liveness. The server task has the highest priority of the tasks that use *)
(* the sockets, so it always takes its next step: there is only one until   *)
(* select() blocks. A client that stays connected eventually acknowledges   *)
(* what it was sent, so a socket that select() keeps asking about is        *)
(* eventually reported writable (strong fairness: in between, select() may  *)
(* return for other sockets). A CGI that is called again and again is       *)
(* eventually done.                                                         *)

Fairness ==
  /\ WF_vars(Server)
  /\ \A s \in Slots :
       /\ SF_vars(\E writable \in SUBSET Slots : s \in writable /\ SelectReturns(writable))
       /\ SF_vars(WriteSent(s) /\ \E i \in Slots : cgiState[i] /\ ~cgiState'[i])

FairSpec == Spec /\ Fairness

\* A client that has gone away is noticed and everything kept for it is
\* released. (the read branch of the server task, httpdDisconCb)
GoneIsReleased == \A s \in Slots : sock[s].eof ~> ~sock[s].eof

\* A connection whose response is finished is closed by the server, as
\* "Connection: close" in every response promises, unless the client sends yet
\* more, which may start a further response. (httpdCgiIsDone, httpdContinue, the
\* write branch of the server task)
Finished(i) ==
  /\ connData[i] # Null
  /\ connData[i].disconAfterSent
  /\ sock[connData[i].conn].segs = 0

DoneIsClosed == \A i \in Slots : Finished(i) ~> ~Finished(i)

\* A CGI that is called again and again, on a connection that is not marked to
\* be killed: a CGI that is done marks it, also for a client that goes on to
\* send requests on it.
Answering(i) ==
  /\ connData[i] # Null
  /\ connData[i].phase = "rest" /\ connData[i].cgi /\ ~connData[i].recvHdl
  /\ ~connData[i].disconAfterSent

\* The CGI has said that it is done.
SaidDone(i) ==
  connData[i] # Null /\ ~connData[i].cgi /\ connData[i].disconAfterSent

\* A response that a CGI has begun on a connection not marked to be killed comes
\* to its end, and the end is always the CGI's own, unless the client has gone
\* away: the server neither closes the connection in between nor lets go of the
\* CGI. (httpdContinue, httpdCgiIsDone, httpdDisconCb, the write branch of the
\* server task)
ResponseCompletes ==
  /\ \A i \in Slots : Answering(i) ~> ~Answering(i)
  /\ [][\A i \in Slots : Answering(i) /\ ~Answering(i)'
          => SaidDone(i)' \/ sock[connData[i].made].eof]_vars
=============================================================================
