-------------------------- MODULE HttpdServerProofs --------------------------
(***************************************************************************)
(* What holds of the server task and its tables for every number of        *)
(* connections, every set of clients and every kind of CGI.                *)
(***************************************************************************)
EXTENDS HttpdServer, FiniteSetTheorems, WellFoundedInduction, TLAPS

\* A set of slots that is not empty has a first one, and First returns it: a
\* lookup that finds anything finds an entry of the table. The least element is
\* the one whose initial segment of the naturals is minimal for inclusion.
LEMMA FirstIsMember ==
  ASSUME NEW S \in SUBSET Slots, S # {}
  PROVE  First(S) \in S /\ \A j \in S : First(S) <= j
<1> DEFINE D == {0 .. x : x \in S}
<1>1. S \subseteq Nat
  BY SizesAssumption DEF Slots
<1>2. D \subseteq FiniteSubsetsOf(Nat) /\ D # {}
  <2>1. ASSUME NEW x \in S PROVE 0 .. x \in FiniteSubsetsOf(Nat)
    <3>1. IsFiniteSet(0 .. x)
      BY <1>1, FS_Interval
    <3> QED BY <3>1, <1>1 DEF FiniteSubsetsOf
  <2> QED BY <2>1
<1>3. PICK T \in D : \A U \in D : ~(<<U, T>> \in StrictSubsetOrdering(Nat))
  <2> HIDE DEF D
  <2> QED BY <1>2, FS_StrictSubsetOrderingWellFounded, WFMin, Zenon
<1>4. PICK x \in S : T = 0 .. x
  BY <1>3
<1>5. ASSUME NEW y \in S PROVE x <= y
  <2>1. SUFFICES ASSUME y < x PROVE FALSE
    BY <1>1
  <2>2. 0 .. y \subseteq 0 .. x /\ x \in 0 .. x /\ x \notin 0 .. y
    BY <1>1, <2>1
  <2>3. 0 .. y \in SUBSET Nat /\ 0 .. x \in SUBSET Nat
    BY <1>1
  <2>4. <<0 .. y, T>> \in StrictSubsetOrdering(Nat)
    BY <1>4, <2>2, <2>3, Zenon DEF StrictSubsetOrdering
  <2> QED BY <1>3, <2>4
<1> QED
  BY <1>5 DEF First

-----------------------------------------------------------------------------
(* Types.                                                                   *)

\* The tables are well typed, and state kept by a CGI has an owner. Neither
\* needs anything else to be inductive.
Tables == /\ rconn \in [Slots -> RtosConnType]
          /\ connData \in [Slots -> HttpdConnData \cup {Null}]
          /\ cgiState \in [Slots -> BOOLEAN]
          /\ CgiStateOwned

\* A connection that was found is one of the table.
LEMMA FoundIsConnection ==
  ASSUME NEW cd \in [Slots -> HttpdConnData \cup {Null}],
         NEW a, Matches(cd, a) # {}
  PROVE  /\ First(Matches(cd, a)) \in Slots
         /\ cd[First(Matches(cd, a))] \in HttpdConnData
         /\ cd[First(Matches(cd, a))] # Null
         /\ cd[First(Matches(cd, a))].addr = a
<1> DEFINE M == Matches(cd, a)
<1>1. M \in SUBSET Slots /\ \A i \in M : cd[i] # Null /\ cd[i].addr = a
  BY DEF Matches
<1>2. First(M) \in M
  BY <1>1, FirstIsMember
<1> QED BY <1>1, <1>2

\* d is an entry for the same client and the same socket as c.
SameClient(d, c) == d.made = c.made /\ d.addr = c.addr /\ d.conn = c.conn

\* Sending leaves a connection well typed and changes nothing but its backlog.
LEMMA SendOutcomesType ==
  ASSUME NEW c \in HttpdConnData, NEW send \in BOOLEAN, NEW d \in SendOutcomes(c, send)
  PROVE  /\ d \in HttpdConnData
         /\ d.cgi = c.cgi /\ SameClient(d, c)
  BY SizesAssumption DEF SendOutcomes, HttpdConnData, SameClient

\* What a CGI does to its connection keeps the types, and whose connection it is.
LEMMA AfterCgiType ==
  ASSUME NEW c \in HttpdConnData, NEW reply \in Reply
  PROVE  /\ Said(c, reply) \in HttpdConnData
         /\ Sends(c, reply) \in BOOLEAN
         /\ CgiIsDone(c) \in HttpdConnData
         /\ AfterCgi(Said(c, reply), reply.r) \in HttpdConnData
         /\ reply.r = "MORE" => AfterCgi(Said(c, reply), reply.r).cgi
         /\ SameClient(CgiIsDone(c), c)
         /\ SameClient(AfterCgi(Said(c, reply), reply.r), c)
<1>1. ASSUME NEW e \in HttpdConnData
      PROVE  CgiIsDone(e) \in HttpdConnData /\ SameClient(CgiIsDone(e), e)
  BY <1>1 DEF CgiIsDone, HttpdConnData, SameClient
<1>2. Said(c, reply) \in HttpdConnData /\ SameClient(Said(c, reply), c)
  BY DEF Said, HttpdConnData, SameClient
<1>3. Sends(c, reply) \in BOOLEAN
  BY DEF Sends, Reply, HttpdConnData
<1>4. ASSUME NEW e \in HttpdConnData
      PROVE  /\ [e EXCEPT !.cgi = TRUE] \in HttpdConnData
             /\ [e EXCEPT !.cgi = TRUE].cgi
             /\ SameClient([e EXCEPT !.cgi = TRUE], e)
  BY <1>4 DEF HttpdConnData, SameClient
<1> QED BY <1>1, <1>2, <1>3, <1>4 DEF AfterCgi, SameClient

\* Whatever a CGI replies and whatever becomes of what it sent, the entry is that
\* of the same client, and it refers to the CGI if the CGI is not done.
LEMMA CgiOutcome ==
  ASSUME NEW c \in HttpdConnData, NEW reply \in Reply,
         NEW d \in SendOutcomes(AfterCgi(Said(c, reply), reply.r), Sends(c, reply))
  PROVE  /\ d \in HttpdConnData /\ SameClient(d, c)
         /\ reply.r = "MORE" => d.cgi
<1> DEFINE e == AfterCgi(Said(c, reply), reply.r)
<1>1. /\ e \in HttpdConnData /\ SameClient(e, c) /\ Sends(c, reply) \in BOOLEAN
      /\ reply.r = "MORE" => e.cgi
  BY AfterCgiType
<1> HIDE DEF e
<1> QED BY <1>1, SendOutcomesType DEF e, SameClient

\* Writing a well-typed connection into the table keeps Tables, if the state of
\* the CGI that is kept is that connection's.
LEMMA TablesUpdate ==
  ASSUME Tables, NEW i \in Slots, NEW d \in HttpdConnData, NEW st \in BOOLEAN,
         connData' = [connData EXCEPT ![i] = d],
         cgiState' = [cgiState EXCEPT ![i] = st],
         st => d.cgi,
         rconn' \in [Slots -> RtosConnType]
  PROVE  Tables'
  BY NullAssumption DEF Tables, CgiStateOwned

\* A step that only marks sockets: none is opened or closed.
OnlyMarks ==
  \A t \in Slots :
    rconn'[t].open = rconn[t].open /\ rconn'[t].addr = rconn[t].addr

\* A step that replaces c, which is what the callback saw of connData[i], by an
\* entry of the same client and the same socket.
Replaces(i, c) ==
  /\ OnlyMarks
  /\ \E d \in HttpdConnData :
       /\ connData' = [connData EXCEPT ![i] = d]
       /\ SameClient(d, c)

\* It does not matter to which fields of the request the callback changed c.
LEMMA ReplacesLike ==
  ASSUME NEW i, NEW c, NEW e, SameClient(e, c), Replaces(i, e)
  PROVE  Replaces(i, c)
  BY DEF Replaces, SameClient

\* Marking a socket keeps the socket table well typed.
LEMMA MarkType ==
  ASSUME Tables, NEW s \in Slots, NEW send \in BOOLEAN
  PROVE  /\ MarkSent(s, send) => rconn' \in [Slots -> RtosConnType] /\ OnlyMarks
         /\ PlatDisconnect(s) => rconn' \in [Slots -> RtosConnType] /\ OnlyMarks
         /\ CloseSlot(s) => rconn' \in [Slots -> RtosConnType]
<1>1. rconn \in [Slots -> RtosConnType] /\ rconn[s] \in RtosConnType
  BY DEF Tables
<1>2. /\ rconn[s].needWriteDoneNotif \in BOOLEAN
      /\ rconn[s].needWriteDoneNotif \/ send \in BOOLEAN
  BY <1>1, Zenon DEF RtosConnType
<1>3. ASSUME NEW n \in BOOLEAN
      PROVE  /\ [rconn EXCEPT ![s].needWriteDoneNotif = n] \in [Slots -> RtosConnType]
             /\ rconn' = [rconn EXCEPT ![s].needWriteDoneNotif = n] => OnlyMarks
  BY <1>1 DEF RtosConnType, OnlyMarks
<1>4. [rconn EXCEPT ![s].needsClose = TRUE, ![s].needWriteDoneNotif = TRUE]
        \in [Slots -> RtosConnType]
  BY <1>1 DEF RtosConnType
<1>6. PlatDisconnect(s) => OnlyMarks
  BY <1>1 DEF RtosConnType, PlatDisconnect, OnlyMarks
<1>5. [rconn EXCEPT ![s] = ClosedConn] \in [Slots -> RtosConnType]
  BY <1>1 DEF RtosConnType, ClosedConn
<1> QED BY <1>2, <1>3, <1>4, <1>5, <1>6 DEF MarkSent, PlatDisconnect, CloseSlot

-----------------------------------------------------------------------------
(* The callbacks keep the tables well typed and the state of CGIs owned.    *)

\* c is connData[i] as the callback that found it for a socket sees it.
SameConn(c, i) ==
  /\ c \in HttpdConnData
  /\ connData[i] # Null
  /\ c.cgi = connData[i].cgi
  /\ c.made = connData[i].made /\ c.addr = connData[i].addr

LEMMA FoundIsSame ==
  ASSUME Tables, NEW a, Matches(connData, a) # {}, NEW s \in Slots
  PROVE  SameConn([connData[First(Matches(connData, a))] EXCEPT !.conn = s],
                  First(Matches(connData, a)))
  BY FoundIsConnection DEF Tables, SameConn, HttpdConnData

LEMMA CallCgiTables ==
  ASSUME Tables, NEW i \in Slots, NEW s \in Slots, NEW c \in HttpdConnData,
         NEW reply \in Reply, CallCgi(i, s, c, reply)
  PROVE  Tables' /\ Replaces(i, c)
<1>1. PICK d \in SendOutcomes(AfterCgi(Said(c, reply), reply.r), Sends(c, reply)) :
        connData' = [connData EXCEPT ![i] = d]
  BY DEF CallCgi
<1>2. /\ d \in HttpdConnData /\ SameClient(d, c)
      /\ reply.r = "MORE" => d.cgi
  BY CgiOutcome
<1>3. Sends(c, reply) \in BOOLEAN
  BY AfterCgiType
<1>4. /\ cgiState' = [cgiState EXCEPT ![i] = reply.r = "MORE"]
      /\ rconn' \in [Slots -> RtosConnType] /\ OnlyMarks
  BY <1>3, MarkType DEF CallCgi
<1>5. (reply.r = "MORE") \in BOOLEAN
  OBVIOUS
<1> QED BY <1>1, <1>2, <1>4, <1>5, TablesUpdate DEF Replaces

LEMMA CallRecvHdlTables ==
  ASSUME Tables, NEW i \in Slots, NEW s \in Slots, NEW c, SameConn(c, i),
         NEW reply \in Reply, CallRecvHdl(i, s, c, reply)
  PROVE  Tables' /\ Replaces(i, c)
<1> DEFINE e == IF reply.r = "MORE" THEN c ELSE CgiIsDone(c)
<1>1. /\ e \in HttpdConnData /\ reply.send \in BOOLEAN
      /\ SameClient(e, c)
  BY AfterCgiType DEF SameConn, Reply, SameClient
<1>2. PICK d \in SendOutcomes(e, reply.send) :
        connData' = [connData EXCEPT ![i] = d]
  BY DEF CallRecvHdl
<1>3. /\ d \in HttpdConnData /\ d.cgi = e.cgi
      /\ SameClient(d, c)
  <2> HIDE DEF e
  <2> QED BY <1>1, <1>2, SendOutcomesType DEF SameClient
<1>4. /\ cgiState' = [cgiState EXCEPT ![i] = cgiState[i] /\ reply.r = "MORE"]
      /\ rconn' \in [Slots -> RtosConnType] /\ OnlyMarks
  BY <1>1, MarkType DEF CallRecvHdl, Tables
<1>5. cgiState[i] => c.cgi
  BY DEF SameConn, Tables, CgiStateOwned
<1>6. /\ (cgiState[i] /\ reply.r = "MORE") \in BOOLEAN
      /\ cgiState[i] /\ reply.r = "MORE" => d.cgi
  BY <1>3, <1>5
<1> QED BY <1>2, <1>3, <1>4, <1>6, TablesUpdate DEF Replaces

LEMMA NothingCompletedTables ==
  ASSUME Tables, NEW i \in Slots, NEW c, c \in HttpdConnData, cgiState[i] => c.cgi,
         NothingCompleted(i, c)
  PROVE  Tables' /\ Replaces(i, c)
<1>1. /\ cgiState' = [cgiState EXCEPT ![i] = cgiState[i]]
      /\ cgiState[i] \in BOOLEAN
      /\ rconn' \in [Slots -> RtosConnType] /\ OnlyMarks
  BY DEF Tables, NothingCompleted, OnlyMarks
<1> QED BY <1>1, TablesUpdate DEF NothingCompleted, Replaces, SameClient

\* Changing the request part of a connection: not its CGI, not its client.
LEMMA RequestFields ==
  ASSUME NEW c \in HttpdConnData, NEW chunked \in BOOLEAN,
         NEW phase \in {"head", "body", "rest"},
         NEW e \in {[c EXCEPT !.phase = phase, !.chunked = chunked],
                    [c EXCEPT !.phase = phase],
                    [c EXCEPT !.recvHdl = TRUE, !.chunked = FALSE]}
  PROVE  e \in HttpdConnData /\ e.cgi = c.cgi /\ SameClient(e, c)
  BY DEF HttpdConnData, SameClient

LEMMA ProcessRequestTables ==
  ASSUME Tables, NEW i \in Slots, NEW s \in Slots, NEW c \in HttpdConnData,
         ProcessRequest(i, s, c)
  PROVE  Tables' /\ Replaces(i, c)
<1>1. ASSUME NEW reply \in RepliesOf(c), CallCgi(i, s, c, reply)
      PROVE  Tables' /\ Replaces(i, c)
  <2>1. RepliesOf(c) \subseteq Reply
    BY RepliesAssumption DEF RepliesOf
  <2> QED BY <1>1, <2>1, CallCgiTables
<1>2. ASSUME CallCgi(i, s, [c EXCEPT !.recvHdl = TRUE, !.chunked = FALSE],
                     [r |-> "MORE", send |-> TRUE])
      PROVE  Tables' /\ Replaces(i, c)
  <2> DEFINE e == [c EXCEPT !.recvHdl = TRUE, !.chunked = FALSE]
  <2>1. e \in HttpdConnData /\ SameClient(e, c)
    BY RequestFields
  <2>2. [r |-> "MORE", send |-> TRUE] \in Reply
    BY DEF Reply
  <2> HIDE DEF e
  <2>3. Tables' /\ Replaces(i, e)
    BY <1>2, <2>1, <2>2, CallCgiTables DEF e
  <2> QED BY <2>1, <2>3, ReplacesLike
<1> QED BY <1>1, <1>2 DEF ProcessRequest

LEMMA RecvCbTables ==
  ASSUME Tables, NEW s \in Slots, RecvCb(s)
  PROVE  /\ Tables'
         /\ Matches(connData, rconn[s].addr) # {} =>
              Replaces(First(Matches(connData, rconn[s].addr)),
                       [connData[First(Matches(connData, rconn[s].addr))] EXCEPT !.conn = s])
<1> DEFINE found == Matches(connData, rconn[s].addr)
           i     == First(found)
           c     == [connData[i] EXCEPT !.conn = s]
           Goal  == Tables' /\ Replaces(i, c)
<1>1. CASE found = {}
  <2>1. PlatDisconnect(s) /\ UNCHANGED <<connData, cgiState>>
    BY <1>1 DEF RecvCb
  <2> QED BY <1>1, <2>1, MarkType DEF Tables, CgiStateOwned
<1>2. CASE found # {}
  <2>1. i \in Slots /\ SameConn(c, i)
    BY <1>2, FoundIsConnection, FoundIsSame DEF Tables
  <2>2. \/ NothingCompleted(i, c)
        \/ RecvHead(i, s, c) \/ RecvBody(i, s, c) \/ RecvRest(i, s, c)
    BY <1>2 DEF RecvCb
  <2> HIDE DEF i, c, found
  <2>3. c \in HttpdConnData /\ (cgiState[i] => c.cgi)
    BY <2>1 DEF SameConn, Tables, CgiStateOwned
  <2>4. ASSUME NothingCompleted(i, c) PROVE Goal
    BY <2>1, <2>3, <2>4, NothingCompletedTables
  <2>5. ASSUME RecvHead(i, s, c) PROVE Goal
    <3>1. ASSUME NEW chunked \in BOOLEAN, NEW e,
                 e = [c EXCEPT !.phase = "rest", !.chunked = chunked],
                 ProcessRequest(i, s, e)
          PROVE  Goal
      <4>1. e \in HttpdConnData /\ SameClient(e, c)
        BY <2>3, <3>1, RequestFields
      <4> QED BY <2>1, <3>1, <4>1, ProcessRequestTables, ReplacesLike
    <3>2. ASSUME NEW chunked \in BOOLEAN, NEW e,
                 e \in {[c EXCEPT !.phase = "body", !.chunked = chunked],
                        [c EXCEPT !.phase = "rest"]},
                 NothingCompleted(i, e)
          PROVE  Goal
      <4>1. e \in HttpdConnData /\ e.cgi = c.cgi /\ SameClient(e, c)
        <5>1. CASE e = [c EXCEPT !.phase = "body", !.chunked = chunked]
          BY <2>3, <5>1, RequestFields
        <5>2. CASE e = [c EXCEPT !.phase = "rest"]
          BY <2>3, <5>2, RequestFields
        <5> QED BY <3>2, <5>1, <5>2
      <4>2. Tables' /\ Replaces(i, e)
        BY <2>1, <2>3, <3>2, <4>1, NothingCompletedTables
      <4> QED BY <4>1, <4>2, ReplacesLike
    <3> QED BY <2>4, <2>5, <3>1, <3>2 DEF RecvHead
  <2>6. ASSUME RecvBody(i, s, c) PROVE Goal
    <3>1. ASSUME CallCgi(i, s, c, [r |-> "MORE", send |-> FALSE]) PROVE Goal
      BY <2>1, <2>3, <3>1, CallCgiTables DEF Reply
    <3> QED BY <2>1, <2>3, <2>4, <2>6, <3>1, ProcessRequestTables DEF RecvBody
  <2>7. ASSUME RecvRest(i, s, c) PROVE Goal
    <3>1. Replies["later"] \subseteq Reply
      BY RepliesAssumption
    <3>2. [r |-> "MORE", send |-> FALSE] \in Reply
      BY DEF Reply
    <3> QED BY <2>1, <2>4, <2>7, <3>1, <3>2, CallRecvHdlTables DEF RecvRest
  <2>8. Goal
    BY <2>2, <2>4, <2>5, <2>6, <2>7
  <2> QED BY <2>8 DEF i, c, found
<1> QED BY <1>1, <1>2

LEMMA SentCbTables ==
  ASSUME Tables, lockLeft \in BOOLEAN, NEW s \in Slots, SentCb(s)
  PROVE  /\ Tables' /\ lockLeft' \in BOOLEAN
         /\ Matches(connData, rconn[s].addr) # {} =>
              /\ UNCHANGED lockLeft
              /\ Replaces(First(Matches(connData, rconn[s].addr)),
                          [connData[First(Matches(connData, rconn[s].addr))] EXCEPT !.conn = s])
<1> DEFINE found == Matches(connData, rconn[s].addr)
           i     == First(found)
           c     == [connData[i] EXCEPT !.conn = s]
           Goal  == Tables' /\ Replaces(i, c)
<1>1. CASE found = {}
  <2>1. PlatDisconnect(s) /\ UNCHANGED <<connData, cgiState>> /\ lockLeft' = TRUE
    BY <1>1 DEF SentCb
  <2> QED BY <1>1, <2>1, MarkType DEF Tables, CgiStateOwned
<1>2. CASE found # {}
  <2>1. i \in Slots /\ SameConn(c, i)
    BY <1>2, FoundIsConnection, FoundIsSame DEF Tables
  <2>2. /\ \A n \in BOOLEAN :
             rconn' = [rconn EXCEPT ![s].needWriteDoneNotif = n]
               => rconn' \in [Slots -> RtosConnType] /\ OnlyMarks
        /\ PlatDisconnect(s) => rconn' \in [Slots -> RtosConnType] /\ OnlyMarks
    BY MarkType DEF Tables, RtosConnType, OnlyMarks
  <2>3. UNCHANGED lockLeft /\ rconn' \in [Slots -> RtosConnType] /\ OnlyMarks
    BY <1>2, <2>2 DEF SentCb
  <2>4. \/ /\ c.backlog > 0
           /\ connData' = [connData EXCEPT ![i] = [c EXCEPT !.backlog = @ - 1]]
           /\ UNCHANGED cgiState
        \/ connData' = [connData EXCEPT ![i] = c] /\ UNCHANGED cgiState
        \/ \E reply \in RepliesOf(c) :
             /\ \E d \in SendOutcomes(AfterCgi(Said(c, reply), reply.r),
                                      Sends(c, reply)) :
                  connData' = [connData EXCEPT ![i] = d]
             /\ cgiState' = [cgiState EXCEPT ![i] = reply.r = "MORE"]
    BY <1>2 DEF SentCb
  <2> HIDE DEF i, c, found
  <2>5. c \in HttpdConnData /\ (cgiState[i] => c.cgi) /\ cgiState[i] \in BOOLEAN
    BY <2>1 DEF SameConn, Tables, CgiStateOwned
  <2>6. UNCHANGED cgiState => cgiState' = [cgiState EXCEPT ![i] = cgiState[i]]
    BY <2>1 DEF Tables
  <2>7. ASSUME NEW d, (c.backlog > 0 /\ d = [c EXCEPT !.backlog = @ - 1]) \/ d = c,
               connData' = [connData EXCEPT ![i] = d],
               UNCHANGED cgiState
        PROVE  Goal
    <3>1. d \in HttpdConnData /\ d.cgi = c.cgi /\ SameClient(d, c)
      BY <2>5, <2>7, SizesAssumption DEF HttpdConnData, SameClient
    <3> QED BY <2>1, <2>3, <2>5, <2>6, <2>7, <3>1, TablesUpdate DEF Replaces
  <2>8. ASSUME NEW reply \in RepliesOf(c),
               NEW d \in SendOutcomes(AfterCgi(Said(c, reply), reply.r), Sends(c, reply)),
               connData' = [connData EXCEPT ![i] = d],
               cgiState' = [cgiState EXCEPT ![i] = reply.r = "MORE"]
        PROVE  Goal
    <3>1. reply \in Reply
      BY RepliesAssumption DEF RepliesOf
    <3>2. d \in HttpdConnData /\ SameClient(d, c) /\ (reply.r = "MORE" => d.cgi)
      BY <2>5, <2>8, <3>1, CgiOutcome
    <3>3. (reply.r = "MORE") \in BOOLEAN
      OBVIOUS
    <3> QED BY <2>1, <2>3, <2>8, <3>2, <3>3, TablesUpdate DEF Replaces
  <2>9. Goal
    BY <2>4, <2>7, <2>8
  <2> QED BY <2>3, <2>9 DEF i, c, found
<1> QED BY <1>1, <1>2

LEMMA DisconnectTables ==
  ASSUME NEW cd \in [Slots -> HttpdConnData \cup {Null}],
         NEW st \in [Slots -> BOOLEAN],
         \A i \in Slots : st[i] => cd[i] # Null /\ cd[i].cgi,
         NEW a
  PROVE  /\ AfterDiscon(cd, a) \in [Slots -> HttpdConnData \cup {Null}]
         /\ StateAfterDiscon(cd, st, a) \in [Slots -> BOOLEAN]
         /\ \A i \in Slots :
              StateAfterDiscon(cd, st, a)[i]
                => AfterDiscon(cd, a)[i] # Null /\ AfterDiscon(cd, a)[i].cgi
<1> DEFINE found == Matches(cd, a)
           f     == First(found)
<1>1. CASE found = {}
  BY <1>1 DEF AfterDiscon, StateAfterDiscon
<1>2. CASE found # {}
  <2>1. f \in Slots /\ cd[f] \in HttpdConnData /\ cd[f].cgi \in BOOLEAN
    BY <1>2, FoundIsConnection DEF HttpdConnData
  <2>2. /\ AfterDiscon(cd, a) = [cd EXCEPT ![f] = Null]
        /\ StateAfterDiscon(cd, st, a) = [st EXCEPT ![f] = st[f] /\ ~cd[f].cgi]
    BY <1>2 DEF AfterDiscon, StateAfterDiscon
  <2>3. st[f] /\ ~cd[f].cgi <=> FALSE
    BY <2>1
  <2>4. StateAfterDiscon(cd, st, a) = [st EXCEPT ![f] = FALSE]
    BY <2>1, <2>2, <2>3
  <2> HIDE DEF f, found
  <2> QED BY <2>1, <2>2, <2>4
<1> QED BY <1>1, <1>2

LEMMA ConnectCbTables ==
  ASSUME Tables, NEW s \in Slots, NEW a \in Addrs, ConnectCb(s, a), UNCHANGED cgiState,
         rconn' \in [Slots -> RtosConnType]
  PROVE  Tables'
<1> DEFINE free == {i \in Slots : connData[i] = Null}
           f    == First(free)
<1>1. CASE UNCHANGED connData
  BY <1>1 DEF Tables, CgiStateOwned
<1>2. ASSUME free # {}, NEW b \in Addrs \cup {NoAddr},
             connData' = [connData EXCEPT ![f] = NewConnData(b, s)]
      PROVE  Tables'
  <2>1. f \in free
    <3> HIDE DEF f
    <3> QED BY <1>2, FirstIsMember DEF f
  <2>2. NewConnData(b, s) \in HttpdConnData
    BY SizesAssumption DEF NewConnData, HttpdConnData
  <2>3. ~cgiState[f] /\ f \in Slots
    BY <2>1 DEF Tables, CgiStateOwned
  <2>4. cgiState' = [cgiState EXCEPT ![f] = FALSE]
    BY <2>3 DEF Tables
  <2> HIDE DEF f
  <2> QED BY <1>2, <2>2, <2>3, <2>4, TablesUpdate
<1> QED BY <1>1, <1>2 DEF ConnectCb

-----------------------------------------------------------------------------
(* Every step keeps both.                                                   *)

TypeInv == TypeOK /\ CgiStateOwned

LEMMA TypeInvIsTables ==
  TypeInv <=> /\ Tables
              /\ sock \in [Slots -> Socket] /\ queue \in SUBSET Addrs
              /\ task \in Task /\ lockLeft \in BOOLEAN
  BY DEF TypeInv, TypeOK, Tables

LEMMA TypeInvInit == Init => TypeInv
<1> SUFFICES ASSUME Init PROVE TypeInv
  OBVIOUS
<1>1. ClosedConn \in RtosConnType /\ FreshSocket \in Socket
  BY SizesAssumption DEF ClosedConn, RtosConnType, FreshSocket, Socket
<1>2. [at |-> "slots", readset |-> {}, writeset |-> {}, listening |-> FALSE] \in Task
  BY DEF Task
<1> QED BY <1>1, <1>2 DEF Init, TypeInv, TypeOK, CgiStateOwned

LEMMA SocketType ==
  ASSUME sock \in [Slots -> Socket], NEW s \in Slots
  PROVE  /\ [sock EXCEPT ![s] = FreshSocket] \in [Slots -> Socket]
         /\ sock[s].segs < MaxSegs => [sock EXCEPT ![s].segs = @ + 1] \in [Slots -> Socket]
         /\ sock[s].segs > 0 => [sock EXCEPT ![s].segs = @ - 1] \in [Slots -> Socket]
         /\ \A left \in {0, sock[s].segs} :
              [sock EXCEPT ![s] = [segs |-> left, eof |-> TRUE]] \in [Slots -> Socket]
  BY SizesAssumption DEF Socket, FreshSocket

LEMMA TaskType ==
  ASSUME task \in Task, NEW s
  PROVE  /\ [task EXCEPT !.readset = @ \ {s}] \in Task
         /\ [task EXCEPT !.writeset = @ \ {s}] \in Task
         /\ [task EXCEPT !.readset = @ \ {s}, !.writeset = @ \ {s}] \in Task
         /\ [task EXCEPT !.at = "slots"] \in Task
         /\ [task EXCEPT !.at = "slots", !.readset = {}, !.writeset = {}] \in Task
  BY DEF Task

LEMMA DisconnectKeepsTables ==
  ASSUME Tables, NEW s \in Slots, sock \in [Slots -> Socket], Disconnect(s)
  PROVE  Tables' /\ sock' \in [Slots -> Socket]
<1>1. rconn' \in [Slots -> RtosConnType] /\ sock' \in [Slots -> Socket]
  BY MarkType, SocketType DEF Disconnect, CloseSlot
<1>2. /\ connData' = AfterDiscon(connData, rconn[s].addr)
      /\ cgiState' = StateAfterDiscon(connData, cgiState, rconn[s].addr)
  BY DEF Disconnect
<1> QED BY <1>1, <1>2, DisconnectTables DEF Tables, CgiStateOwned

LEMMA TypeInvNext == TypeInv /\ [Next]_vars => TypeInv'
<1> DEFINE Rest == /\ sock \in [Slots -> Socket] /\ queue \in SUBSET Addrs
                   /\ task \in Task /\ lockLeft \in BOOLEAN
<1> SUFFICES ASSUME Tables, Rest, [Next]_vars PROVE Tables' /\ Rest'
  BY DEF TypeInv, TypeOK, Tables
<1> DEFINE Goal == Tables' /\ Rest'
<1>t. UNCHANGED <<rconn, connData, cgiState>> => Tables'
  BY DEF Tables, CgiStateOwned
<1>1. ASSUME NEW a \in Addrs, Connect(a) PROVE Goal
  BY <1>t, <1>1 DEF Connect
<1>2. ASSUME NEW s \in Slots, ClientSend(s) PROVE Goal
  BY <1>t, <1>2, SocketType DEF ClientSend
<1>3. ASSUME NEW s \in Slots, ClientClose(s) PROVE Goal
  <2>1. PICK left \in {0, sock[s].segs} :
          sock' = [sock EXCEPT ![s] = [segs |-> left, eof |-> TRUE]]
    BY <1>3 DEF ClientClose
  <2>2. sock' \in [Slots -> Socket]
    BY <2>1, SocketType
  <2> QED BY <1>t, <1>3, <2>2 DEF ClientClose
<1>4. ASSUME BuildFdSets PROVE Goal
  BY <1>t, <1>4 DEF BuildFdSets, ReadInterest, WriteInterest, SocketsFull, Task
<1>5. ASSUME NEW writable \in SUBSET Slots, SelectReturns(writable) PROVE Goal
  BY <1>t, <1>5 DEF SelectReturns, Task
<1>6. ASSUME NEW a \in Addrs, Accept(a) PROVE Goal
  <2> DEFINE s == First(FreeConns)
  <2>1. queue' \in SUBSET Addrs /\ task' \in Task /\ lockLeft' \in BOOLEAN
    BY <1>6, TaskType DEF Accept
  <2>2. CASE FreeConns = {}
    BY <1>t, <1>6, <2>1, <2>2 DEF Accept
  <2>3. CASE FreeConns # {}
    <3>1. s \in Slots
      BY <2>3, FirstIsMember DEF FreeConns
    <3>2. /\ rconn' = [rconn EXCEPT ![s] = [ClosedConn EXCEPT !.open = TRUE, !.addr = a]]
          /\ sock' = [sock EXCEPT ![s] = FreshSocket]
          /\ ConnectCb(s, a) /\ UNCHANGED cgiState
      BY <1>6, <2>3 DEF Accept
    <3> HIDE DEF s
    <3>3. [ClosedConn EXCEPT !.open = TRUE, !.addr = a] \in RtosConnType
      BY DEF ClosedConn, RtosConnType
    <3>4. rconn' \in [Slots -> RtosConnType]
      BY <3>1, <3>2, <3>3 DEF Tables
    <3> QED BY <2>1, <3>1, <3>2, <3>4, ConnectCbTables, SocketType
  <2> QED BY <2>2, <2>3
<1>7. ASSUME NEW a \in Addrs, AcceptFails(a) PROVE Goal
  BY <1>t, <1>7, TaskType DEF AcceptFails
<1>8. ASSUME NEW s \in Slots, WriteClose(s) PROVE Goal
  BY <1>8, DisconnectKeepsTables, TaskType DEF WriteClose
<1>9. ASSUME NEW s \in Slots, WriteSent(s) PROVE Goal
  BY <1>9, SentCbTables, TaskType DEF WriteSent
<1>10. ASSUME NEW s \in Slots, ReadData(s) PROVE Goal
  BY <1>10, RecvCbTables, SocketType, TaskType DEF ReadData
<1>11. ASSUME NEW s \in Slots, ReadEnds(s) PROVE Goal
  BY <1>11, DisconnectKeepsTables, TaskType DEF ReadEnds
<1>12. ASSUME NEW s \in Slots, ReadNoBuffer(s) PROVE Goal
  <2> DEFINE a    == rconn[s].addr
             once == AfterDiscon(connData, a)
             st   == StateAfterDiscon(connData, cgiState, a)
  <2>1. /\ connData' = AfterDiscon(once, a)
        /\ cgiState' = StateAfterDiscon(once, st, a)
        /\ CloseSlot(s)
    BY <1>12 DEF ReadNoBuffer
  <2>2. /\ once \in [Slots -> HttpdConnData \cup {Null}]
        /\ st \in [Slots -> BOOLEAN]
        /\ \A i \in Slots : st[i] => once[i] # Null /\ once[i].cgi
    BY DisconnectTables DEF Tables, CgiStateOwned
  <2>3. rconn' \in [Slots -> RtosConnType] /\ Rest'
    BY <1>12, <2>1, MarkType, SocketType, TaskType DEF ReadNoBuffer, CloseSlot
  <2> HIDE DEF once, st, a
  <2> QED BY <2>1, <2>2, <2>3, DisconnectTables DEF Tables, CgiStateOwned
<1>13. ASSUME NEW i \in Slots, AsyncSend(i) PROVE Goal
  <2>1. connData[i] \in HttpdConnData /\ connData[i].conn \in Slots
    BY <1>13 DEF AsyncSend, Tables, HttpdConnData
  <2>2. PICK d \in SendOutcomes(connData[i], TRUE) :
          connData' = [connData EXCEPT ![i] = d]
    BY <1>13 DEF AsyncSend
  <2>3. d \in HttpdConnData /\ (cgiState[i] => d.cgi) /\ cgiState[i] \in BOOLEAN
    BY <2>1, <2>2, SendOutcomesType DEF Tables, CgiStateOwned
  <2>4. rconn' \in [Slots -> RtosConnType] /\ Rest'
    BY <1>13, <2>1, MarkType DEF AsyncSend
  <2>5. cgiState' = [cgiState EXCEPT ![i] = cgiState[i]]
    BY <1>13 DEF AsyncSend, Tables
  <2> QED BY <2>2, <2>3, <2>4, <2>5, TablesUpdate
<1>14. ASSUME UNCHANGED vars PROVE Goal
  BY <1>t, <1>14 DEF vars
<1> QED
  BY <1>1, <1>2, <1>3, <1>4, <1>5, <1>6, <1>7, <1>8, <1>9, <1>10, <1>11, <1>12,
     <1>13, <1>14 DEF Next, Clients, Server

\* The variables have the types the C declarations give them: no table index,
\* phase, backlog count or descriptor set ever leaves its range, whatever the
\* clients, the CGIs and malloc() do.
THEOREM TypesCorrect == Spec => []TypeOK
<1>1. TypeInv => TypeOK
  BY DEF TypeInv
<1> QED BY TypeInvInit, TypeInvNext, <1>1, PTL DEF Spec

\* What a CGI function allocated is never orphaned: in every state, failing
\* allocations and reused client addresses included, a connection still refers
\* to the CGI that will be called to free it.
THEOREM CgiStateIsOwned == Spec => []CgiStateOwned
<1>1. TypeInv => CgiStateOwned
  BY DEF TypeInv
<1> QED BY TypeInvInit, TypeInvNext, <1>1, PTL DEF Spec

-----------------------------------------------------------------------------
(* accept() has somewhere to put the client. select() watches the listening *)
(* socket only when an entry of rconn is closed, and nothing opens one      *)
(* before the server task has come back from accept().                      *)

RoomInv ==
  task.at = "accept" \/ (task.at = "select" /\ task.listening) => FreeConns # {}

LEMMA RoomInvNext == TypeInv /\ RoomInv /\ [Next]_vars => RoomInv'
<1> SUFFICES ASSUME TypeInv, RoomInv, [Next]_vars PROVE RoomInv'
  OBVIOUS
<1>1. Tables /\ task \in Task
  BY DEF TypeInv, TypeOK, Tables
<1>2. CASE BuildFdSets
  BY <1>2, <1>1 DEF BuildFdSets, RoomInv, FreeConns, SocketsFull, Task
<1>3. CASE \E writable \in SUBSET Slots : SelectReturns(writable)
  BY <1>3, <1>1 DEF SelectReturns, RoomInv, FreeConns, Task
<1>4. CASE Clients \/ UNCHANGED vars
  BY <1>4 DEF Clients, Connect, ClientSend, ClientClose, vars, RoomInv, FreeConns
<1>5. CASE \E i \in Slots : AsyncSend(i)
  <2>1. PICK i \in Slots : AsyncSend(i)
    BY <1>5
  <2>2. connData[i].conn \in Slots
    BY <1>1, <2>1 DEF AsyncSend, Tables, HttpdConnData
  <2>3. OnlyMarks /\ UNCHANGED task
    BY <1>1, <2>1, <2>2, MarkType DEF AsyncSend
  <2> QED BY <2>3 DEF RoomInv, FreeConns, OnlyMarks
<1>6. CASE \E a \in Addrs : Accept(a) \/ AcceptFails(a)
  <2>1. task' \in {[task EXCEPT !.at = "slots"],
                   [task EXCEPT !.at = "slots", !.readset = {}, !.writeset = {}]}
    BY <1>6, Zenon DEF Accept, AcceptFails
  <2>2. task'.at = "slots"
    BY <1>1, <2>1 DEF Task
  <2> QED BY <2>2 DEF RoomInv
<1>7. CASE \E s \in Slots : \/ WriteClose(s) \/ WriteSent(s)
                            \/ ReadData(s) \/ ReadEnds(s) \/ ReadNoBuffer(s)
  BY <1>7, <1>1 DEF WriteClose, WriteSent, ReadData, ReadEnds, ReadNoBuffer, AtSlot,
                    RoomInv, Task
<1> QED BY <1>2, <1>3, <1>4, <1>5, <1>6, <1>7 DEF Next, Server

\* Whenever the server task reaches accept() there is a closed entry of rconn for
\* the new client, so the path that only reports "all slots full" is dead code.
THEOREM AcceptAlwaysHasRoom == Spec => []AcceptHasRoom
<1>1. Init => RoomInv
  BY DEF Init, RoomInv
<1>2. RoomInv => AcceptHasRoom
  BY DEF RoomInv, AcceptHasRoom
<1> QED BY TypeInvInit, TypeInvNext, RoomInvNext, <1>1, <1>2, PTL DEF Spec

-----------------------------------------------------------------------------
(* The two tables agree, as long as no malloc() fails and no client comes   *)
(* back from an address whose old socket is still open.                     *)

\* The link between the tables is the address, and the address of an open socket
\* is unique: neither another socket nor a waiting client has it.
LinkInv ==
  /\ PoolsAgree
  /\ \A i \in Slots : connData[i] # Null =>
       /\ connData[i].conn = connData[i].made
       /\ connData[i].addr = rconn[connData[i].made].addr
  /\ \A s \in Slots : rconn[s].open => rconn[s].addr \in Addrs \ queue
  /\ \A s, t \in Slots :
       rconn[s].open /\ rconn[t].open /\ rconn[s].addr = rconn[t].addr => s = t

\* The server task only has open sockets in its sets, and has not left the lock
\* behind.
TaskInv ==
  /\ \A s \in task.readset \cup task.writeset : rconn[s].open
  /\ ~lockLeft

\* If a socket is closed then there is a connData for the next client: otherwise
\* MaxConn connections would belong to at most MaxConn - 1 sockets.
LEMMA RoomInBoth ==
  ASSUME Tables, PoolsAgree, NEW s \in Slots, ~rconn[s].open
  PROVE  \E i \in Slots : connData[i] = Null
<1> SUFFICES ASSUME \A i \in Slots : connData[i] # Null PROVE FALSE
  OBVIOUS
<1> DEFINE f == [i \in Slots |-> connData[i].made]
<1>1. \A i \in Slots : connData[i].made \in Slots
  BY DEF Tables, HttpdConnData
<1>2. f \in [Slots -> Slots \ {s}]
  BY <1>1 DEF PoolsAgree
<1>3. IsFiniteSet(Slots) /\ Cardinality(Slots) \in Nat
  <2>1. IsFiniteSet(0 .. MaxConn - 1)
    <3>1. 0 \in Int /\ MaxConn - 1 \in Int
      BY SizesAssumption
    <3> QED BY <3>1, FS_Interval, Zenon
  <2> QED BY <2>1, FS_CardinalityType, Zenon DEF Slots
<1>4. IsFiniteSet(Slots \ {s}) /\ Cardinality(Slots \ {s}) < Cardinality(Slots)
  <2>1. /\ IsFiniteSet(Slots \ {s})
        /\ Cardinality(Slots \ {s}) =
             IF s \in Slots THEN Cardinality(Slots) - 1 ELSE Cardinality(Slots)
    BY <1>3, FS_RemoveElement, Zenon
  <2> QED BY <1>3, <2>1
<1>5. PICK i, j \in Slots : i # j /\ f[i] = f[j]
  <2> HIDE DEF f
  <2> QED BY <1>2, <1>3, <1>4, FS_PigeonHole
<1> QED BY <1>5 DEF PoolsAgree

\* A lookup for an open socket finds one entry, the one made for that socket.
LEMMA FindsOwn ==
  ASSUME Tables, LinkInv, NEW s \in Slots, rconn[s].open
  PROVE  /\ Matches(connData, rconn[s].addr) # {}
         /\ First(Matches(connData, rconn[s].addr)) \in Slots
         /\ connData[First(Matches(connData, rconn[s].addr))] # Null
         /\ connData[First(Matches(connData, rconn[s].addr))] \in HttpdConnData
         /\ connData[First(Matches(connData, rconn[s].addr))].made = s
<1> DEFINE M == Matches(connData, rconn[s].addr)
<1>1. PICK i \in Slots : connData[i] # Null /\ connData[i].made = s
  BY DEF LinkInv, PoolsAgree
<1>2. i \in M
  BY <1>1 DEF LinkInv, Matches, Tables
<1>3. /\ First(M) \in Slots /\ connData[First(M)] \in HttpdConnData
      /\ connData[First(M)] # Null /\ connData[First(M)].addr = rconn[s].addr
  BY <1>2, FoundIsConnection DEF Tables
<1>4. /\ connData[First(M)].made \in Slots
      /\ rconn[connData[First(M)].made].open
      /\ rconn[connData[First(M)].made].addr = rconn[s].addr
  BY <1>3 DEF LinkInv, PoolsAgree, HttpdConnData
<1>5. connData[First(M)].made = s
  BY <1>4 DEF LinkInv
<1> QED BY <1>2, <1>3, <1>5

\* A callback that marks sockets and replaces its connection keeps the link.
LEMMA ReplacesKeepsLink ==
  ASSUME Tables, LinkInv, NEW i \in Slots, connData[i] # Null, NEW s \in Slots,
         connData[i].made = s, connData[i] \in HttpdConnData,
         Replaces(i, [connData[i] EXCEPT !.conn = s]), UNCHANGED queue
  PROVE  LinkInv'
<1>1. SameClient([connData[i] EXCEPT !.conn = s], connData[i])
  BY DEF LinkInv, SameClient, HttpdConnData
<1>2. PICK d \in HttpdConnData :
        /\ connData' = [connData EXCEPT ![i] = d]
        /\ d.made = connData[i].made /\ d.addr = connData[i].addr
        /\ d.conn = connData[i].conn
  BY <1>1 DEF Replaces, SameClient
<1>3. /\ \A j \in Slots : connData'[j] # Null <=> connData[j] # Null
      /\ \A j \in Slots : connData[j] # Null =>
           /\ connData'[j].made = connData[j].made
           /\ connData'[j].addr = connData[j].addr
           /\ connData'[j].conn = connData[j].conn
  BY <1>2, NullAssumption DEF Tables
<1>4. \A j \in Slots : connData[j] # Null => connData[j].made \in Slots
  BY DEF Tables, HttpdConnData
<1>5. OnlyMarks
  BY DEF Replaces
<1> QED BY <1>3, <1>4, <1>5 DEF LinkInv, PoolsAgree, OnlyMarks

\* Closing a socket frees its own connection and no other.
LEMMA DisconnectKeepsLink ==
  ASSUME Tables, LinkInv, NEW s \in Slots, rconn[s].open, Disconnect(s), UNCHANGED queue
  PROVE  /\ LinkInv'
         /\ \A t \in Slots : t # s => rconn'[t].open = rconn[t].open
<1> DEFINE i == First(Matches(connData, rconn[s].addr))
<1>1. /\ i \in Slots /\ connData[i] # Null /\ connData[i].made = s
      /\ connData' = [connData EXCEPT ![i] = Null]
  BY FindsOwn DEF Disconnect, AfterDiscon
<1>2. rconn' = [rconn EXCEPT ![s] = ClosedConn] /\ ~ClosedConn.open
  BY DEF Disconnect, CloseSlot, ClosedConn
<1> HIDE DEF i
<1>3. /\ ~rconn'[s].open
      /\ \A t \in Slots : t # s => rconn'[t] = rconn[t]
  BY <1>2 DEF Tables
<1>4. /\ connData'[i] = Null
      /\ \A j \in Slots : j # i => connData'[j] = connData[j]
  BY <1>1 DEF Tables
<1>5. \A j \in Slots : connData[j] # Null =>
        connData[j].made \in Slots /\ (connData[j].made = s => j = i)
  BY <1>1 DEF Tables, HttpdConnData, LinkInv, PoolsAgree
<1>6. PoolsAgree'
  BY <1>1, <1>3, <1>4, <1>5 DEF LinkInv, PoolsAgree
<1> QED BY <1>3, <1>4, <1>5, <1>6 DEF LinkInv

\* A new client gets a socket and, as malloc() does not fail and there is room in
\* both tables, a connection made for that socket.
LEMMA AcceptKeepsLink ==
  ASSUME Tables, LinkInv, FreeConns # {}, "malloc" \notin Features,
         NEW a \in Addrs, Accept(a)
  PROVE  /\ LinkInv'
         /\ \A t \in Slots : rconn[t].open => rconn'[t].open
<1> DEFINE s    == First(FreeConns)
           free == {i \in Slots : connData[i] = Null}
           i    == First(free)
<1>1. s \in Slots /\ ~rconn[s].open
  <2>1. First(FreeConns) \in FreeConns
    BY FirstIsMember DEF FreeConns
  <2> QED BY <2>1 DEF FreeConns
<1>2. /\ rconn' = [rconn EXCEPT ![s] = [ClosedConn EXCEPT !.open = TRUE, !.addr = a]]
      /\ a \in queue /\ queue' = queue \ {a}
      /\ ConnectCb(s, a)
  BY DEF Accept
<1>3. free # {}
  BY <1>1, RoomInBoth DEF LinkInv
<1>4. i \in Slots /\ connData[i] = Null
  <2>1. i \in free
    <3> HIDE DEF free
    <3> QED BY <1>3, FirstIsMember DEF free
  <2> QED BY <2>1
<1>5. connData' = [connData EXCEPT ![i] = NewConnData(a, s)]
  BY <1>2, <1>3 DEF ConnectCb
<1> HIDE DEF i, s, free
<1>6. /\ rconn'[s].open /\ rconn'[s].addr = a
      /\ \A t \in Slots : t # s => rconn'[t] = rconn[t]
  BY <1>1, <1>2 DEF Tables, ClosedConn
<1>7. /\ connData'[i].made = s /\ connData'[i].conn = s /\ connData'[i].addr = a
      /\ \A j \in Slots : j # i => connData'[j] = connData[j]
  BY <1>4, <1>5 DEF Tables, NewConnData
<1>8. \A j \in Slots : connData[j] # Null =>
        connData[j].made \in Slots /\ connData[j].made # s
  BY <1>1 DEF Tables, HttpdConnData, LinkInv, PoolsAgree
<1>9. connData'[i] # Null
  <2>1. NewConnData(a, s) \in HttpdConnData
    BY <1>1, SizesAssumption DEF NewConnData, HttpdConnData
  <2> QED BY <1>4, <1>5, <2>1, NullAssumption DEF Tables
<1>10. PoolsAgree'
  BY <1>1, <1>4, <1>6, <1>7, <1>8, <1>9 DEF LinkInv, PoolsAgree
<1>11. \A t \in Slots : rconn[t].open => rconn[t].addr # a
  BY <1>2 DEF LinkInv
<1>12. \A j \in Slots : connData'[j] # Null =>
         /\ connData'[j].conn = connData'[j].made
         /\ connData'[j].addr = rconn'[connData'[j].made].addr
  BY <1>4, <1>6, <1>7, <1>8, <1>1 DEF LinkInv
<1>13. \A t \in Slots : rconn'[t].open => rconn'[t].addr \in Addrs \ queue'
  BY <1>2, <1>6 DEF LinkInv
<1>14. \A t, u \in Slots :
         rconn'[t].open /\ rconn'[u].open /\ rconn'[t].addr = rconn'[u].addr => t = u
  BY <1>6, <1>11 DEF LinkInv
<1> QED BY <1>1, <1>6, <1>10, <1>12, <1>13, <1>14 DEF LinkInv

\* No malloc() fails, and no client comes back from an address whose old socket
\* the server has not closed.
NothingFails == Features \cap {"malloc", "reuse"} = {}

LEMMA LinkInvNext ==
  ASSUME NothingFails, TypeInv, RoomInv, LinkInv, TaskInv, [Next]_vars
  PROVE  LinkInv' /\ TaskInv'
<1> DEFINE Goal == LinkInv' /\ TaskInv'
<1>0. /\ Tables /\ task \in Task /\ lockLeft \in BOOLEAN
      /\ "malloc" \notin Features /\ "reuse" \notin Features
  BY DEF TypeInv, TypeOK, Tables, NothingFails
<1>a. ASSUME UNCHANGED <<rconn, connData>>, queue' \subseteq queue PROVE LinkInv'
  BY <1>a DEF LinkInv, PoolsAgree
<1>b. ASSUME UNCHANGED lockLeft, NEW s,
             task' \in {task, [task EXCEPT !.readset = @ \ {s}],
                        [task EXCEPT !.writeset = @ \ {s}],
                        [task EXCEPT !.readset = @ \ {s}, !.writeset = @ \ {s}],
                        [task EXCEPT !.at = "slots"],
                        [task EXCEPT !.at = "slots", !.readset = {}, !.writeset = {}]},
             \A t \in task'.readset \cup task'.writeset : rconn[t].open => rconn'[t].open
      PROVE  TaskInv'
  BY <1>0, <1>b DEF TaskInv, Task
<1>c. ASSUME NEW s \in Slots, rconn[s].open, UNCHANGED <<queue, lockLeft>>,
             task' \in {[task EXCEPT !.readset = @ \ {s}], [task EXCEPT !.writeset = @ \ {s}]},
             Replaces(First(Matches(connData, rconn[s].addr)),
                      [connData[First(Matches(connData, rconn[s].addr))] EXCEPT !.conn = s])
      PROVE  Goal
  <2>1. LinkInv'
    BY <1>0, <1>c, FindsOwn, ReplacesKeepsLink
  <2>2. \A t \in task'.readset \cup task'.writeset : rconn[t].open => rconn'[t].open
    BY <1>0, <1>c DEF Replaces, OnlyMarks, Task
  <2>3. TaskInv'
    BY <1>0, <1>c, <2>2 DEF TaskInv, Task
  <2> QED BY <2>1, <2>3
<1>1. ASSUME NEW a \in Addrs, Connect(a) PROVE Goal
  <2>1. LinkInv'
    BY <1>0, <1>1 DEF Connect, LinkInv, PoolsAgree
  <2>2. TaskInv'
    BY <1>1 DEF Connect, TaskInv
  <2> QED BY <2>1, <2>2
<1>2. ASSUME NEW s \in Slots, ClientSend(s) \/ ClientClose(s) PROVE Goal
  BY <1>a, <1>2 DEF ClientSend, ClientClose, TaskInv
<1>4. ASSUME BuildFdSets PROVE Goal
  BY <1>a, <1>4 DEF BuildFdSets, ReadInterest, WriteInterest, TaskInv
<1>5. ASSUME NEW writable \in SUBSET Slots, SelectReturns(writable) PROVE Goal
  BY <1>a, <1>5 DEF SelectReturns, TaskInv
<1>6. ASSUME NEW a \in Addrs, Accept(a) PROVE Goal
  <2>1. FreeConns # {}
    BY <1>6 DEF RoomInv, Accept
  <2>2. LinkInv' /\ \A t \in Slots : rconn[t].open => rconn'[t].open
    BY <1>0, <1>6, <2>1, AcceptKeepsLink
  <2>3. task' = [task EXCEPT !.at = "slots"] /\ UNCHANGED lockLeft
    BY <1>6, <2>1 DEF Accept
  <2>4. \A t \in task'.readset \cup task'.writeset : rconn[t].open => rconn'[t].open
    BY <1>0, <2>2, <2>3 DEF Task
  <2> QED BY <1>b, <2>2, <2>3, <2>4
<1>7. ASSUME NEW a \in Addrs, AcceptFails(a) PROVE Goal
  BY <1>a, <1>b, <1>7 DEF AcceptFails
<1>8. ASSUME NEW s \in Slots, WriteClose(s) \/ ReadEnds(s) PROVE Goal
  <2>1. s \in task.readset \cup task.writeset
    <3>1. task.readset \cup task.writeset \in SUBSET Slots
      BY <1>0 DEF Task
    <3> QED BY <1>8, <3>1, FirstIsMember DEF WriteClose, ReadEnds, AtSlot
  <2>2. rconn[s].open
    BY <2>1 DEF TaskInv
  <2>3. LinkInv' /\ \A t \in Slots : t # s => rconn'[t].open = rconn[t].open
    BY <1>0, <1>8, <2>2, DisconnectKeepsLink DEF WriteClose, ReadEnds
  <2>4. /\ task'.readset \cup task'.writeset
             \subseteq (task.readset \cup task.writeset) \ {s}
        /\ UNCHANGED lockLeft
    <3>1. CASE WriteClose(s)
      BY <1>0, <3>1 DEF WriteClose, Task
    <3>2. CASE ReadEnds(s)
      BY <1>0, <3>2 DEF ReadEnds, Task
    <3> QED BY <1>8, <3>1, <3>2
  <2>5. TaskInv'
    BY <1>0, <2>3, <2>4 DEF TaskInv, Task
  <2> QED BY <2>3, <2>5
<1>9. ASSUME NEW s \in Slots, WriteSent(s) PROVE Goal
  <2>1. rconn[s].open
    BY <1>9 DEF WriteSent, TaskInv
  <2>2. Matches(connData, rconn[s].addr) # {}
    BY <1>0, <2>1, FindsOwn
  <2> QED BY <1>0, <1>9, <1>c, <2>1, <2>2, SentCbTables DEF WriteSent
<1>10. ASSUME NEW s \in Slots, ReadData(s) PROVE Goal
  <2>1. rconn[s].open
    <3>1. task.readset \cup task.writeset \in SUBSET Slots
      BY <1>0 DEF Task
    <3> QED BY <1>10, <3>1, FirstIsMember DEF ReadData, AtSlot, TaskInv
  <2>2. Matches(connData, rconn[s].addr) # {}
    BY <1>0, <2>1, FindsOwn
  <2> QED BY <1>0, <1>10, <1>c, <2>1, <2>2, RecvCbTables DEF ReadData
<1>11. ASSUME NEW s \in Slots, ReadNoBuffer(s) PROVE Goal
  BY <1>0, <1>11 DEF ReadNoBuffer
<1>12. ASSUME NEW i \in Slots, AsyncSend(i) PROVE Goal
  <2> DEFINE s == connData[i].conn
  <2>1. /\ connData[i] # Null /\ connData[i] \in HttpdConnData
        /\ s \in Slots /\ connData[i].made = s
    BY <1>0, <1>12 DEF AsyncSend, Tables, HttpdConnData, LinkInv
  <2>2. PICK d \in SendOutcomes(connData[i], TRUE) :
          connData' = [connData EXCEPT ![i] = d]
    BY <1>12 DEF AsyncSend
  <2>3. d \in HttpdConnData /\ SameClient(d, connData[i])
    BY <2>1, <2>2, SendOutcomesType
  <2>4. OnlyMarks /\ UNCHANGED <<queue, task, lockLeft>>
    BY <1>0, <1>12, <2>1, MarkType DEF AsyncSend
  <2>5. SameClient(d, [connData[i] EXCEPT !.conn = s])
    BY <2>1, <2>3 DEF SameClient, HttpdConnData
  <2>6. Replaces(i, [connData[i] EXCEPT !.conn = s])
    BY <2>2, <2>3, <2>4, <2>5 DEF Replaces
  <2>7. LinkInv'
    BY <1>0, <2>1, <2>4, <2>6, ReplacesKeepsLink
  <2>8. TaskInv'
    BY <1>0, <2>4 DEF TaskInv, OnlyMarks, Task
  <2> QED BY <2>7, <2>8
<1>13. ASSUME UNCHANGED vars PROVE Goal
  BY <1>a, <1>13 DEF vars, TaskInv
<1> QED
  BY <1>1, <1>2, <1>4, <1>5, <1>6, <1>7, <1>8, <1>9, <1>10, <1>11, <1>12, <1>13
  DEF Next, Clients, Server

LEMMA LinkInvInit == Init => LinkInv /\ TaskInv /\ RoomInv
  BY DEF Init, LinkInv, PoolsAgree, TaskInv, RoomInv, ClosedConn

LEMMA LinkInvAlways ==
  ASSUME NothingFails
  PROVE  Spec => [](TypeInv /\ LinkInv /\ TaskInv)
<1>1. TypeInv /\ RoomInv /\ LinkInv /\ TaskInv /\ [Next]_vars => LinkInv' /\ TaskInv'
  BY LinkInvNext
<1> QED
  BY TypeInvInit, TypeInvNext, RoomInvNext, LinkInvInit, <1>1, PTL DEF Spec

\* While nothing fails, every open socket has exactly one connection made for it
\* and no connection outlives its socket, although the two tables are linked by
\* nothing but the client's address.
THEOREM PoolsStayInStep ==
  ASSUME NothingFails
  PROVE  Spec => []PoolsAgree
<1>1. LinkInv => PoolsAgree
  BY DEF LinkInv
<1> QED BY LinkInvAlways, <1>1, PTL

\* While nothing fails, httpdFindConnData never takes the path marked "Shouldn't
\* happen."
THEOREM LookupNeverMisses ==
  ASSUME NothingFails
  PROVE  Spec => []FindNeverMisses
<1>1. TypeInv /\ LinkInv => FindNeverMisses
  BY FindsOwn DEF TypeInv, TypeOK, Tables, FindNeverMisses
<1> QED BY LinkInvAlways, <1>1, PTL

-----------------------------------------------------------------------------
(* What is left of the link when malloc() fails: a socket may be without a  *)
(* connection, and an entry without an address stays behind that no lookup  *)
(* finds and no close frees.                                                *)

NoReuse == "reuse" \notin Features

\* An entry that httpdConnectCb has filled in.
Named(i) == connData[i] # Null /\ connData[i].addr # NoAddr

\* The address of an open socket is unique, also among the waiting clients.
AddrInv ==
  /\ \A s \in Slots : rconn[s].open => rconn[s].addr \in Addrs \ queue
  /\ \A s, t \in Slots :
       rconn[s].open /\ rconn[t].open /\ rconn[s].addr = rconn[t].addr => s = t

\* An entry with an address is that of the open socket it was made for, and the only one
\* with it; one without an address was never told to a CGI.
NamedInv ==
  /\ \A i \in Slots : Named(i) =>
       /\ rconn[connData[i].made].open
       /\ connData[i].addr = rconn[connData[i].made].addr
       /\ connData[i].conn = connData[i].made
  /\ \A i, j \in Slots : Named(i) /\ Named(j) /\ connData[i].addr = connData[j].addr => i = j
  /\ \A i \in Slots : connData[i] # Null /\ ~Named(i) => ~connData[i].recvHdl

\* A sent callback that is coming will find a connection: a socket without one is only ever
\* marked together with needsClose, and then closed instead.
MarkInv ==
  \A s \in Slots :
    rconn[s].open /\ rconn[s].needWriteDoneNotif /\ ~rconn[s].needsClose
      => Matches(connData, rconn[s].addr) # {}

\* The server task has open sockets in its sets, and in the one for writing marked ones.
SetsInv ==
  /\ \A s \in task.readset \cup task.writeset : rconn[s].open
  /\ \A s \in task.writeset : rconn[s].needWriteDoneNotif

LiveInv == AddrInv /\ NamedInv /\ MarkInv /\ SetsInv /\ ~lockLeft

\* Only the socket of the callback is marked.
OthersUnmarked(s) == \A t \in Slots : t # s => rconn'[t] = rconn[t]

LEMMA MarksOwn ==
  ASSUME Tables, NEW s \in Slots
  PROVE  /\ \A send : MarkSent(s, send) => OthersUnmarked(s)
         /\ PlatDisconnect(s) => OthersUnmarked(s) /\ (rconn[s].open => rconn'[s].needsClose)
         /\ CloseSlot(s) => OthersUnmarked(s) /\ ~rconn'[s].open
         /\ \A n : rconn' = [rconn EXCEPT ![s].needWriteDoneNotif = n] => OthersUnmarked(s)
         /\ UNCHANGED rconn => OthersUnmarked(s)
<1>1. rconn \in [Slots -> RtosConnType] /\ rconn[s] \in RtosConnType
  BY DEF Tables
<1>2. /\ \A send : MarkSent(s, send) => OthersUnmarked(s)
      /\ \A n : rconn' = [rconn EXCEPT ![s].needWriteDoneNotif = n] => OthersUnmarked(s)
      /\ UNCHANGED rconn => OthersUnmarked(s)
  BY <1>1 DEF MarkSent, OthersUnmarked
<1>3. PlatDisconnect(s) => OthersUnmarked(s) /\ rconn'[s].needsClose
  BY <1>1 DEF PlatDisconnect, OthersUnmarked, RtosConnType
<1>4. CloseSlot(s) => OthersUnmarked(s) /\ ~rconn'[s].open
  BY <1>1 DEF CloseSlot, OthersUnmarked, ClosedConn
<1> QED BY <1>2, <1>3, <1>4

LEMMA RecvMarksOwn ==
  ASSUME Tables, NEW s \in Slots, RecvCb(s)
  PROVE  OthersUnmarked(s)
<1>1. \/ \E send : MarkSent(s, send)
      \/ PlatDisconnect(s)
      \/ UNCHANGED rconn
  BY Zenon DEF RecvCb, RecvHead, RecvBody, RecvRest, NothingCompleted, ProcessRequest, CallCgi,
               CallRecvHdl
<1> QED BY <1>1, MarksOwn

LEMMA SentMarksOwn ==
  ASSUME Tables, NEW s \in Slots, SentCb(s)
  PROVE  OthersUnmarked(s)
<1>1. \/ \E n : rconn' = [rconn EXCEPT ![s].needWriteDoneNotif = n]
      \/ PlatDisconnect(s)
  BY DEF SentCb
<1> QED BY <1>1, MarksOwn

\* A lookup for an open socket finds the entry that was made for it, or none.
LEMMA FindsOwnOrNone ==
  ASSUME Tables, AddrInv, NamedInv, NEW s \in Slots, rconn[s].open,
         Matches(connData, rconn[s].addr) # {}
  PROVE  LET i == First(Matches(connData, rconn[s].addr))
         IN /\ i \in Slots /\ Named(i) /\ connData[i] \in HttpdConnData
            /\ connData[i].made = s /\ connData[i].conn = s
            /\ connData[i].addr = rconn[s].addr
<1> DEFINE i == First(Matches(connData, rconn[s].addr))
<1>1. /\ i \in Slots /\ connData[i] \in HttpdConnData /\ connData[i] # Null
      /\ connData[i].addr = rconn[s].addr
  BY FoundIsConnection DEF Tables
<1> HIDE DEF i
<1>2. Named(i)
  BY <1>1, NullAssumption DEF Named, AddrInv
<1>3. connData[i].made \in Slots
  BY <1>1 DEF HttpdConnData
<1>4. connData[i].made = s /\ connData[i].conn = s
  BY <1>1, <1>2, <1>3 DEF NamedInv, AddrInv
<1> QED BY <1>1, <1>2, <1>4 DEF i

\* Which addresses have an entry.
LEMMA MatchesSome ==
  ASSUME Tables, NEW a
  PROVE  Matches(connData, a) # {} <=> \E i \in Slots : connData[i] # Null /\ connData[i].addr = a
  BY DEF Matches, Tables

\* A callback for a socket that finds its connection.
LEMMA ReplacesKeepsLive ==
  ASSUME Tables, Tables', AddrInv, NamedInv, MarkInv,
         NEW i \in Slots, Named(i), connData[i] \in HttpdConnData, NEW s \in Slots,
         connData[i].made = s,
         Replaces(i, [connData[i] EXCEPT !.conn = s]), OthersUnmarked(s), UNCHANGED queue
  PROVE  AddrInv' /\ NamedInv' /\ MarkInv'
<1>1. connData[i].conn = s /\ rconn[s].open /\ connData[i].addr = rconn[s].addr
  BY DEF NamedInv
<1>2. PICK d \in HttpdConnData :
        /\ connData' = [connData EXCEPT ![i] = d]
        /\ d.made = s /\ d.addr = connData[i].addr /\ d.conn = s
  BY <1>1 DEF Replaces, SameClient, HttpdConnData
<1>3. /\ connData'[i] = d /\ d # Null
      /\ \A j \in Slots : j # i => connData'[j] = connData[j]
  BY <1>2, NullAssumption DEF Tables
<1>4. \A j \in Slots : /\ connData'[j] # Null <=> connData[j] # Null
                       /\ Named(j)' <=> Named(j)
                       /\ connData[j] # Null => /\ connData'[j].made = connData[j].made
                                                /\ connData'[j].addr = connData[j].addr
                       /\ Named(j) => connData'[j].conn = connData[j].conn
                       /\ connData[j] # Null /\ ~Named(j) => connData'[j] = connData[j]
  BY <1>1, <1>2, <1>3 DEF Named
<1>5. \A j \in Slots : Named(j) => connData[j].made \in Slots
  BY DEF Tables, HttpdConnData, Named
<1>6. OnlyMarks
  BY DEF Replaces
<1>7. AddrInv'
  BY <1>6 DEF AddrInv, OnlyMarks
<1>8. NamedInv'
  BY <1>4, <1>5, <1>6 DEF NamedInv, OnlyMarks
<1>9. MarkInv'
  <2> SUFFICES ASSUME NEW t \in Slots, rconn'[t].open, rconn'[t].needWriteDoneNotif,
                      ~rconn'[t].needsClose
               PROVE  \E j \in Slots : connData'[j] # Null /\ connData'[j].addr = rconn'[t].addr
    BY Zenon DEF MarkInv, Matches, Tables
  <2>1. CASE t = s
    BY <1>1, <1>2, <1>3, <1>6, <2>1 DEF OnlyMarks
  <2>2. CASE t # s
    <3>1. rconn'[t] = rconn[t]
      BY <2>2 DEF OthersUnmarked
    <3>2. PICK j \in Slots : connData[j] # Null /\ connData[j].addr = rconn[t].addr
      BY <3>1, MatchesSome DEF MarkInv
    <3> QED BY <1>4, <3>1, <3>2
  <2> QED BY <2>1, <2>2
<1> QED BY <1>7, <1>8, <1>9

\* The entries for an address after its socket was closed: all but one are as they were, and
\* none with that address is left.
LEMMA DisconnectForgets ==
  ASSUME Tables, AddrInv, NamedInv, NEW s \in Slots, rconn[s].open
  PROVE  LET cd == AfterDiscon(connData, rconn[s].addr)
         IN /\ \A j \in Slots : cd[j] = connData[j] \/ cd[j] = Null
            /\ \A j \in Slots : cd[j] # Null => cd[j].addr # rconn[s].addr
            /\ \A j \in Slots : connData[j] # Null /\ connData[j].addr # rconn[s].addr
                 => cd[j] = connData[j]
            /\ Matches(cd, rconn[s].addr) = {}
<1> DEFINE a  == rconn[s].addr
           cd == AfterDiscon(connData, a)
           i  == First(Matches(connData, a))
<1>1. CASE Matches(connData, a) = {}
  <2>1. cd = connData
    BY <1>1 DEF AfterDiscon
  <2>2. \A j \in Slots : connData[j] # Null => connData[j].addr # a
    BY <1>1, MatchesSome
  <2> QED BY <1>1, <2>1, <2>2
<1>2. CASE Matches(connData, a) # {}
  <2>1. i \in Slots /\ Named(i) /\ connData[i].addr = a
    BY <1>2, FindsOwnOrNone
  <2>2. cd = [connData EXCEPT ![i] = Null]
    BY <1>2 DEF AfterDiscon
  <2> HIDE DEF i
  <2>3. \A j \in Slots : connData[j] # Null /\ connData[j].addr = a => j = i
    BY <2>1 DEF NamedInv, Named
  <2>4. DOMAIN cd = Slots /\ cd[i] = Null /\ \A j \in Slots : j # i => cd[j] = connData[j]
    BY <2>1, <2>2 DEF Tables
  <2> HIDE DEF cd, a
  <2>5. \A j \in Slots : cd[j] # Null => cd[j].addr # a
    BY <2>3, <2>4
  <2>6. Matches(cd, a) = {}
    BY <2>4, <2>5 DEF Matches
  <2>7. \A j \in Slots : connData[j] # Null /\ connData[j].addr # a => cd[j] = connData[j]
    BY <2>1, <2>4
  <2> QED BY <2>4, <2>5, <2>6, <2>7 DEF cd, a
<1> QED BY <1>1, <1>2

\* Closing a socket frees its connection, if it has one, and no other.
LEMMA CloseKeepsLive ==
  ASSUME Tables, Tables', AddrInv, NamedInv, MarkInv, NEW s \in Slots, rconn[s].open,
         connData' = AfterDiscon(connData, rconn[s].addr), CloseSlot(s), UNCHANGED queue
  PROVE  AddrInv' /\ NamedInv' /\ MarkInv' /\ OthersUnmarked(s) /\ ~rconn'[s].open
<1>1. OthersUnmarked(s) /\ ~rconn'[s].open
  BY MarksOwn
<1>2. /\ \A j \in Slots : connData'[j] = connData[j] \/ connData'[j] = Null
      /\ \A j \in Slots : connData'[j] # Null => connData'[j].addr # rconn[s].addr
      /\ \A j \in Slots : connData[j] # Null /\ connData[j].addr # rconn[s].addr
           => connData'[j] = connData[j]
  BY DisconnectForgets
<1>3. AddrInv'
  BY <1>1 DEF AddrInv, OthersUnmarked
<1>4. \A j \in Slots : Named(j) => connData[j].made \in Slots
  BY DEF Tables, HttpdConnData, Named
<1>5. \A j \in Slots : Named(j)' => Named(j) /\ connData'[j] = connData[j] /\ connData[j].made # s
  BY <1>2 DEF Named, NamedInv
<1>6. NamedInv'
  <2>1. \A j \in Slots : connData'[j] # Null /\ ~Named(j)' => ~connData'[j].recvHdl
    BY <1>2 DEF Named, NamedInv
  <2>2. \A j \in Slots : Named(j)' =>
          /\ rconn'[connData'[j].made].open
          /\ connData'[j].addr = rconn'[connData'[j].made].addr
          /\ connData'[j].conn = connData'[j].made
    BY <1>1, <1>4, <1>5 DEF NamedInv, OthersUnmarked
  <2>3. \A j, k \in Slots : Named(j)' /\ Named(k)' /\ connData'[j].addr = connData'[k].addr => j = k
    BY <1>5 DEF NamedInv
  <2> QED BY <2>1, <2>2, <2>3 DEF NamedInv
<1>7. MarkInv'
  <2> SUFFICES ASSUME NEW t \in Slots, rconn'[t].open, rconn'[t].needWriteDoneNotif,
                      ~rconn'[t].needsClose
               PROVE  \E j \in Slots : connData'[j] # Null /\ connData'[j].addr = rconn'[t].addr
    BY Zenon DEF MarkInv, Matches, Tables
  <2>1. t # s /\ rconn'[t] = rconn[t]
    BY <1>1 DEF OthersUnmarked
  <2>2. PICK j \in Slots : connData[j] # Null /\ connData[j].addr = rconn[t].addr
    BY <2>1, MatchesSome DEF MarkInv
  <2>3. rconn[t].addr # rconn[s].addr
    BY <2>1 DEF AddrInv
  <2> QED BY <1>2, <2>1, <2>2, <2>3
<1> QED BY <1>1, <1>3, <1>6, <1>7

\* A new client gets a socket; if malloc() fails it gets no connection, or one without
\* an address.
LEMMA AcceptKeepsLive ==
  ASSUME Tables, Tables', AddrInv, NamedInv, MarkInv, FreeConns # {}, NEW a \in Addrs, Accept(a)
  PROVE  /\ AddrInv' /\ NamedInv' /\ MarkInv'
         /\ \A t \in Slots : rconn[t].open => rconn'[t] = rconn[t]
<1> DEFINE s    == First(FreeConns)
           free == {i \in Slots : connData[i] = Null}
           f    == First(free)
<1>1. s \in Slots /\ ~rconn[s].open
  <2>1. First(FreeConns) \in FreeConns
    BY FirstIsMember DEF FreeConns
  <2> QED BY <2>1 DEF FreeConns
<1>2. /\ rconn' = [rconn EXCEPT ![s] = [ClosedConn EXCEPT !.open = TRUE, !.addr = a]]
      /\ a \in queue /\ queue' = queue \ {a}
      /\ ConnectCb(s, a)
  BY DEF Accept
<1>3. \/ UNCHANGED connData
      \/ /\ free # {}
         /\ \E b \in {a, NoAddr} : connData' = [connData EXCEPT ![f] = NewConnData(b, s)]
  BY <1>2 DEF ConnectCb
<1>4. free # {} => f \in Slots /\ connData[f] = Null
  <2>1. free # {} => f \in free
    <3> HIDE DEF free
    <3> QED BY FirstIsMember DEF free
  <2> QED BY <2>1
<1> HIDE DEF f, s, free
<1>5. /\ rconn'[s].open /\ rconn'[s].addr = a /\ ~rconn'[s].needWriteDoneNotif
      /\ \A t \in Slots : t # s => rconn'[t] = rconn[t]
  BY <1>1, <1>2 DEF Tables, ClosedConn
<1>6. \A t \in Slots : rconn[t].open => rconn[t].addr # a /\ t # s
  BY <1>1, <1>2 DEF AddrInv
<1>7. AddrInv'
  <2>1. \A t \in Slots : rconn'[t].open => rconn'[t].addr \in Addrs \ queue'
    BY <1>2, <1>5 DEF AddrInv
  <2>2. \A t, u \in Slots :
          rconn'[t].open /\ rconn'[u].open /\ rconn'[t].addr = rconn'[u].addr => t = u
    BY <1>5, <1>6 DEF AddrInv
  <2> QED BY <2>1, <2>2 DEF AddrInv
<1>8. \A j \in Slots : Named(j) => connData[j].made \in Slots
  BY DEF Tables, HttpdConnData, Named
<1>9. \A j \in Slots : connData[j] # Null => connData'[j] = connData[j]
  BY <1>3, <1>4 DEF Tables
<1>10. \A j \in Slots : connData'[j] # Null =>
         \/ connData[j] # Null /\ connData'[j] = connData[j]
         \/ /\ j = f
            /\ \E b \in {a, NoAddr} : connData'[j] = NewConnData(b, s)
  BY <1>3, <1>4 DEF Tables
<1>11. \A j \in Slots : Named(j)' =>
         \/ Named(j) /\ connData'[j] = connData[j]
         \/ j = f /\ connData'[j] = NewConnData(a, s)
  <2> SUFFICES ASSUME NEW j \in Slots, Named(j)'
               PROVE  \/ Named(j) /\ connData'[j] = connData[j]
                      \/ j = f /\ connData'[j] = NewConnData(a, s)
    OBVIOUS
  <2>1. connData'[j] # Null /\ connData'[j].addr # NoAddr
    BY DEF Named
  <2>2. connData'[j] # NewConnData(NoAddr, s)
    BY <2>1 DEF NewConnData
  <2> QED BY <1>10, <2>1, <2>2 DEF Named
<1>12. \A j \in Slots : Named(j) =>
         /\ connData[j].addr # a /\ connData[j].made # s
         /\ rconn'[connData[j].made] = rconn[connData[j].made]
  BY <1>5, <1>6, <1>8 DEF NamedInv
<1>13. NamedInv'
  <2>1. \A j \in Slots : connData'[j] # Null /\ ~Named(j)' => ~connData'[j].recvHdl
    BY <1>10 DEF Named, NamedInv, NewConnData
  <2>2. \A j \in Slots : Named(j)' =>
          /\ rconn'[connData'[j].made].open
          /\ connData'[j].addr = rconn'[connData'[j].made].addr
          /\ connData'[j].conn = connData'[j].made
    BY <1>5, <1>11, <1>12 DEF NamedInv, NewConnData
  <2>3. \A j, k \in Slots : Named(j)' /\ Named(k)' /\ connData'[j].addr = connData'[k].addr => j = k
    BY <1>11, <1>12 DEF NamedInv, NewConnData
  <2> QED BY <2>1, <2>2, <2>3 DEF NamedInv
<1>14. MarkInv'
  <2> SUFFICES ASSUME NEW t \in Slots, rconn'[t].open, rconn'[t].needWriteDoneNotif,
                      ~rconn'[t].needsClose
               PROVE  \E j \in Slots : connData'[j] # Null /\ connData'[j].addr = rconn'[t].addr
    BY Zenon DEF MarkInv, Matches, Tables
  <2>1. t # s /\ rconn'[t] = rconn[t]
    BY <1>5
  <2>2. PICK j \in Slots : connData[j] # Null /\ connData[j].addr = rconn[t].addr
    BY <2>1, MatchesSome DEF MarkInv
  <2> QED BY <1>9, <2>1, <2>2
<1>15. \A t \in Slots : rconn[t].open => rconn'[t] = rconn[t]
  BY <1>5, <1>6
<1> QED BY <1>7, <1>13, <1>14, <1>15

\* Each step keeps what a failing malloc() leaves of the link.
LEMMA LiveInvNext ==
  ASSUME NoReuse, TypeInv, TypeInv', RoomInv, LiveInv, [Next]_vars
  PROVE  LiveInv'
<1>0. /\ Tables /\ Tables' /\ task \in Task /\ "reuse" \notin Features
      /\ task.readset \in SUBSET Slots /\ task.writeset \in SUBSET Slots
  BY DEF TypeInv, TypeOK, Tables, NoReuse, Task
<1>00. AddrInv /\ NamedInv /\ MarkInv /\ SetsInv /\ ~lockLeft
  BY DEF LiveInv
<1>a. ASSUME UNCHANGED <<rconn, connData>>, queue' \subseteq queue
      PROVE  AddrInv' /\ NamedInv' /\ MarkInv'
  BY <1>00, <1>a DEF AddrInv, NamedInv, Named, MarkInv, Matches
<1>b. ASSUME NEW s \in Slots, OthersUnmarked(s),
             task'.readset \cup task'.writeset \subseteq (task.readset \cup task.writeset),
             task'.writeset \subseteq task.writeset,
             s \in task'.readset \cup task'.writeset => rconn'[s].open,
             s \in task'.writeset => rconn'[s].needWriteDoneNotif
      PROVE  SetsInv'
  <2> SUFFICES ASSUME NEW t \in task'.readset \cup task'.writeset
               PROVE  rconn'[t].open /\ (t \in task'.writeset => rconn'[t].needWriteDoneNotif)
    BY DEF SetsInv
  <2>1. t \in Slots
    BY <1>0, <1>b
  <2> QED BY <1>00, <1>b, <2>1 DEF SetsInv, OthersUnmarked
<1>c. ASSUME NEW s, AtSlot(s) PROVE s \in Slots /\ rconn[s].open
  <2>1. s \in task.readset \cup task.writeset
    BY <1>0, <1>c, FirstIsMember DEF AtSlot
  <2> QED BY <1>0, <1>00, <2>1 DEF SetsInv
<1>1. ASSUME NEW a \in Addrs, Connect(a) PROVE LiveInv'
  <2>1. UNCHANGED <<rconn, connData, task, lockLeft>> /\ queue' = queue \cup {a}
    BY <1>1 DEF Connect
  <2>2. \A s \in Slots : rconn[s].open => rconn[s].addr # a
    BY <1>0, <1>1 DEF Connect
  <2>3. AddrInv'
    BY <1>00, <2>1, <2>2 DEF AddrInv
  <2>4. NamedInv' /\ MarkInv' /\ SetsInv'
    BY <1>00, <2>1 DEF NamedInv, Named, MarkInv, Matches, SetsInv
  <2> QED BY <1>00, <2>1, <2>3, <2>4 DEF LiveInv
<1>2. ASSUME Clients, ~\E a \in Addrs : Connect(a) PROVE LiveInv'
  <2>1. UNCHANGED <<rconn, connData, queue, task, lockLeft>>
    BY <1>2 DEF Clients, ClientSend, ClientClose
  <2> QED BY <1>00, <1>a, <2>1 DEF LiveInv, SetsInv
<1>3. ASSUME BuildFdSets PROVE LiveInv'
  <2>1. UNCHANGED <<rconn, connData, queue, lockLeft>>
    BY <1>3 DEF BuildFdSets
  <2>2. task'.readset = ReadInterest /\ task'.writeset = WriteInterest
    BY <1>3 DEF BuildFdSets
  <2>3. SetsInv'
    BY <2>1, <2>2 DEF SetsInv, ReadInterest, WriteInterest
  <2> QED BY <1>00, <1>a, <2>1, <2>3 DEF LiveInv
<1>4. ASSUME NEW writable \in SUBSET Slots, SelectReturns(writable) PROVE LiveInv'
  <2>1. UNCHANGED <<rconn, connData, queue, lockLeft>>
    BY <1>4 DEF SelectReturns
  <2>2. task'.readset \subseteq task.readset /\ task'.writeset \subseteq task.writeset
    BY <1>4 DEF SelectReturns
  <2>3. SetsInv'
    BY <1>00, <2>1, <2>2 DEF SetsInv
  <2> QED BY <1>00, <1>a, <2>1, <2>3 DEF LiveInv
<1>5. ASSUME NEW a \in Addrs, Accept(a) PROVE LiveInv'
  <2>1. FreeConns # {}
    BY <1>5 DEF TypeInv, RoomInv, Accept
  <2>2. /\ AddrInv' /\ NamedInv' /\ MarkInv'
        /\ \A t \in Slots : rconn[t].open => rconn'[t] = rconn[t]
    BY <1>0, <1>00, <1>5, <2>1, AcceptKeepsLive
  <2>3. task' = [task EXCEPT !.at = "slots"] /\ UNCHANGED lockLeft
    BY <1>5, <2>1 DEF Accept
  <2>4. task'.readset = task.readset /\ task'.writeset = task.writeset
    BY <1>0, <2>3 DEF Task
  <2>5. SetsInv'
    BY <1>0, <1>00, <2>2, <2>4 DEF SetsInv
  <2> QED BY <1>00, <2>2, <2>3, <2>5 DEF LiveInv
<1>6. ASSUME NEW a \in Addrs, AcceptFails(a) PROVE LiveInv'
  <2>1. UNCHANGED <<rconn, connData, lockLeft>> /\ queue' \subseteq queue
    BY <1>6 DEF AcceptFails
  <2>2. task'.readset = {} /\ task'.writeset = {}
    BY <1>0, <1>6 DEF AcceptFails, Task
  <2>3. SetsInv'
    BY <2>2 DEF SetsInv
  <2> QED BY <1>00, <1>a, <2>1, <2>3 DEF LiveInv
<1>7. ASSUME NEW s \in Slots, WriteClose(s) \/ ReadEnds(s) \/ ReadNoBuffer(s) PROVE LiveInv'
  <2>1. rconn[s].open
    BY <1>7, <1>c DEF WriteClose, ReadEnds, ReadNoBuffer
  <2>2. CloseSlot(s) /\ UNCHANGED <<queue, lockLeft>>
    BY <1>7 DEF WriteClose, ReadEnds, ReadNoBuffer, Disconnect
  <2>3. connData' = AfterDiscon(connData, rconn[s].addr)
    <3>1. CASE ReadNoBuffer(s)
      <4>1. connData' = AfterDiscon(AfterDiscon(connData, rconn[s].addr), rconn[s].addr)
        BY <3>1 DEF ReadNoBuffer
      <4>2. Matches(AfterDiscon(connData, rconn[s].addr), rconn[s].addr) = {}
        BY <1>0, <1>00, <2>1, DisconnectForgets
      <4> QED BY <4>1, <4>2 DEF AfterDiscon
    <3>2. CASE WriteClose(s) \/ ReadEnds(s)
      BY <3>2 DEF WriteClose, ReadEnds, Disconnect
    <3> QED BY <1>7, <3>1, <3>2
  <2>4. AddrInv' /\ NamedInv' /\ MarkInv' /\ OthersUnmarked(s) /\ ~rconn'[s].open
    BY <1>0, <1>00, <2>1, <2>2, <2>3, CloseKeepsLive
  <2>5. /\ task'.readset \cup task'.writeset \subseteq task.readset \cup task.writeset
        /\ task'.writeset \subseteq task.writeset
        /\ s \notin task'.readset \cup task'.writeset
    <3>1. CASE WriteClose(s)
      BY <1>0, <3>1 DEF WriteClose, Task
    <3>2. CASE ReadEnds(s)
      BY <1>0, <3>2 DEF ReadEnds, Task
    <3>3. CASE ReadNoBuffer(s)
      BY <1>0, <3>3 DEF ReadNoBuffer, Task
    <3> QED BY <1>7, <3>1, <3>2, <3>3
  <2>6. SetsInv'
    BY <1>b, <2>4, <2>5
  <2> QED BY <1>00, <2>2, <2>4, <2>6 DEF LiveInv
<1>8. ASSUME NEW s \in Slots, WriteSent(s) PROVE LiveInv'
  <2> DEFINE i == First(Matches(connData, rconn[s].addr))
  <2>1. rconn[s].open /\ rconn[s].needWriteDoneNotif /\ ~rconn[s].needsClose
    BY <1>00, <1>8, <1>c DEF WriteSent, SetsInv
  <2>2. Matches(connData, rconn[s].addr) # {}
    BY <1>00, <2>1 DEF MarkInv
  <2>3. /\ i \in Slots /\ Named(i) /\ connData[i] \in HttpdConnData /\ connData[i].made = s
    BY <1>0, <1>00, <2>1, <2>2, FindsOwnOrNone
  <2>4. SentCb(s) /\ UNCHANGED queue /\ lockLeft \in BOOLEAN
    BY <1>8 DEF WriteSent, TypeInv, TypeOK
  <2>5. Replaces(i, [connData[i] EXCEPT !.conn = s]) /\ UNCHANGED lockLeft
    BY <1>0, <2>2, <2>4, SentCbTables
  <2>6. OthersUnmarked(s)
    BY <1>0, <2>4, SentMarksOwn
  <2> HIDE DEF i
  <2>7. AddrInv' /\ NamedInv' /\ MarkInv'
    BY <1>0, <1>00, <2>3, <2>4, <2>5, <2>6, ReplacesKeepsLive
  <2>8. task'.readset = task.readset /\ task'.writeset = task.writeset \ {s}
    BY <1>0, <1>8 DEF WriteSent, Task
  <2>9. SetsInv'
    BY <1>b, <2>1, <2>5, <2>6, <2>8 DEF Replaces, OnlyMarks
  <2> QED BY <1>00, <2>5, <2>7, <2>9 DEF LiveInv
<1>9. ASSUME NEW s \in Slots, ReadData(s) PROVE LiveInv'
  <2> DEFINE i == First(Matches(connData, rconn[s].addr))
  <2>1. rconn[s].open /\ s \notin task.writeset
    BY <1>9, <1>c DEF ReadData
  <2>2. RecvCb(s) /\ UNCHANGED <<queue, lockLeft>>
    BY <1>9 DEF ReadData
  <2>3. OthersUnmarked(s)
    BY <1>0, <2>2, RecvMarksOwn
  <2>4. task'.readset = task.readset \ {s} /\ task'.writeset = task.writeset
    BY <1>0, <1>9 DEF ReadData, Task
  <2>5. AddrInv' /\ NamedInv' /\ MarkInv' /\ rconn'[s].open = rconn[s].open
    <3>1. CASE Matches(connData, rconn[s].addr) = {}
      <4>1. PlatDisconnect(s) /\ UNCHANGED connData
        BY <2>2, <3>1 DEF RecvCb
      <4>2. rconn'[s].needsClose /\ OnlyMarks
        BY <1>0, <2>1, <4>1, MarksOwn, MarkType
      <4>3. AddrInv' /\ NamedInv'
        BY <1>0, <1>00, <2>2, <4>1, <4>2 DEF AddrInv, NamedInv, Named, OnlyMarks, Tables, HttpdConnData
      <4>4. MarkInv'
        BY <1>00, <2>3, <4>1, <4>2 DEF MarkInv, Matches, OthersUnmarked
      <4> QED BY <4>2, <4>3, <4>4 DEF OnlyMarks
    <3>2. CASE Matches(connData, rconn[s].addr) # {}
      <4>1. /\ i \in Slots /\ Named(i) /\ connData[i] \in HttpdConnData /\ connData[i].made = s
        BY <1>0, <1>00, <2>1, <3>2, FindsOwnOrNone
      <4>2. Replaces(i, [connData[i] EXCEPT !.conn = s])
        BY <1>0, <2>2, <3>2, RecvCbTables
      <4> HIDE DEF i
      <4>3. AddrInv' /\ NamedInv' /\ MarkInv'
        BY <1>0, <1>00, <2>2, <2>3, <4>1, <4>2, ReplacesKeepsLive
      <4> QED BY <4>2, <4>3 DEF Replaces, OnlyMarks
    <3> QED BY <3>1, <3>2
  <2>6. SetsInv'
    BY <1>b, <2>1, <2>3, <2>4, <2>5
  <2> QED BY <1>00, <2>2, <2>5, <2>6 DEF LiveInv
<1>10. ASSUME NEW i \in Slots, AsyncSend(i) PROVE LiveInv'
  <2> DEFINE s == connData[i].conn
  <2>1. /\ connData[i] # Null /\ connData[i].recvHdl /\ connData[i] \in HttpdConnData
        /\ s \in Slots
    BY <1>0, <1>10 DEF AsyncSend, Tables, HttpdConnData
  <2>2. Named(i) /\ connData[i].made = s /\ rconn[s].open
    BY <1>00, <2>1 DEF NamedInv
  <2>3. PICK d \in SendOutcomes(connData[i], TRUE) :
          connData' = [connData EXCEPT ![i] = d]
    BY <1>10 DEF AsyncSend
  <2>4. d \in HttpdConnData /\ SameClient(d, connData[i])
    BY <2>1, <2>3, SendOutcomesType
  <2>5. MarkSent(s, TRUE) /\ UNCHANGED <<queue, task, lockLeft>>
    BY <1>10 DEF AsyncSend
  <2>6. OnlyMarks /\ OthersUnmarked(s)
    BY <1>0, <2>1, <2>5, MarkType, MarksOwn
  <2>7. rconn'[s].needWriteDoneNotif
    BY <1>0, <2>1, <2>5 DEF MarkSent, Tables, RtosConnType
  <2>8. SameClient(d, [connData[i] EXCEPT !.conn = s])
    BY <2>1, <2>4 DEF SameClient, HttpdConnData
  <2>9. Replaces(i, [connData[i] EXCEPT !.conn = s])
    BY <2>3, <2>4, <2>6, <2>8 DEF Replaces
  <2>10. AddrInv' /\ NamedInv' /\ MarkInv'
    BY <1>0, <1>00, <2>1, <2>2, <2>5, <2>6, <2>9, ReplacesKeepsLive
  <2>11. SetsInv'
    BY <1>b, <2>1, <2>2, <2>5, <2>6, <2>7 DEF OnlyMarks
  <2> QED BY <1>00, <2>5, <2>10, <2>11 DEF LiveInv
<1>11. ASSUME UNCHANGED vars PROVE LiveInv'
  BY <1>00, <1>a, <1>11 DEF vars, LiveInv, SetsInv
<1> QED
  BY <1>1, <1>2, <1>3, <1>4, <1>5, <1>6, <1>7, <1>8, <1>9, <1>10, <1>11 DEF Next, Server

LEMMA LiveInvAlways ==
  ASSUME NoReuse
  PROVE  Spec => [](TypeInv /\ LiveInv)
<1>1. Init => LiveInv
  BY DEF Init, LiveInv, AddrInv, NamedInv, Named, MarkInv, SetsInv, ClosedConn
<1>2. Init => RoomInv
  BY DEF Init, RoomInv
<1>3. TypeInv /\ TypeInv' /\ RoomInv /\ LiveInv /\ [Next]_vars => LiveInv'
  BY LiveInvNext
<1> QED
  BY TypeInvInit, TypeInvNext, RoomInvNext, <1>1, <1>2, <1>3, PTL DEF Spec

\* As long as no client comes back from an address whose old socket is still open, a lookup
\* of httpdFindConnData finds the connection that was made for the socket the callback is
\* about, or none, also after a malloc() of httpdConnectCb has left a socket without its
\* connection or an entry without an address.
THEOREM LookupIsRight ==
  ASSUME NoReuse
  PROVE  Spec => []FindsOwnConnection
<1>1. TypeInv /\ LiveInv => FindsOwnConnection
  BY FindsOwnOrNone DEF TypeInv, TypeOK, Tables, LiveInv, FindsOwnConnection
<1> QED BY LiveInvAlways, <1>1, PTL

\* Nor does the server task then ever leave a callback with the lock held, whatever malloc()
\* fails: httpdContinue is not reached without a connection, because a socket without one is
\* closed before its sent callback (httpdContinue, httpdRecvCb, platHttpServerTask).
THEOREM LockIsReleased ==
  ASSUME NoReuse
  PROVE  Spec => []LockReleased
<1>1. LiveInv => LockReleased
  BY DEF LiveInv, LockReleased
<1> QED BY LiveInvAlways, <1>1, PTL

\* What the server task does for a socket changes that socket, its connection and the state
\* of its CGI only, also while entries of other clients are torn down after a failed malloc()
\* (httpdRecvCb, httpdSentCb, httpdDisconCb, the second httpdDisconCb of platHttpServerTask).
Serves(s) == WriteClose(s) \/ WriteSent(s) \/ ReadData(s) \/ ReadEnds(s) \/ ReadNoBuffer(s)

Undisturbed(i) == connData'[i] = connData[i] /\ cgiState'[i] = cgiState[i]

OthersUndisturbed ==
  [][\A s \in Slots : Serves(s) =>
       /\ OthersUnmarked(s)
       /\ \A i \in Slots : connData[i] # Null /\ connData[i].made # s => Undisturbed(i)]_vars

\* A callback touches the one entry that its lookup finds.
LEMMA CallbackTouchesFound ==
  ASSUME Tables, NEW s \in Slots, RecvCb(s) \/ SentCb(s),
         NEW j \in Slots, j # First(Matches(connData, rconn[s].addr))
  PROVE  Undisturbed(j)
<1> DEFINE i == First(Matches(connData, rconn[s].addr))
<1>1. CASE Matches(connData, rconn[s].addr) = {}
  BY <1>1 DEF RecvCb, SentCb, Undisturbed
<1>2. CASE Matches(connData, rconn[s].addr) # {}
  <2>1. i \in Slots
    BY <1>2, FoundIsConnection DEF Tables
  <2>2. /\ \E d : connData' = [connData EXCEPT ![i] = d]
        /\ UNCHANGED cgiState \/ \E st : cgiState' = [cgiState EXCEPT ![i] = st]
    <3>1. CASE RecvCb(s)
      BY <1>2, <3>1, Zenon DEF RecvCb, RecvHead, RecvBody, RecvRest, NothingCompleted,
                               ProcessRequest, CallCgi, CallRecvHdl
    <3>2. CASE SentCb(s)
      BY <1>2, <3>2, Zenon DEF SentCb
    <3> QED BY <3>1, <3>2
  <2> HIDE DEF i
  <2>3. j # i
    BY DEF i
  <2> QED BY <2>1, <2>2, <2>3 DEF Tables, Undisturbed
<1> QED BY <1>1, <1>2

\* A close forgets the one entry that its lookup finds.
LEMMA CloseTouchesFound ==
  ASSUME NEW cd \in [Slots -> HttpdConnData \cup {Null}], NEW st \in [Slots -> BOOLEAN],
         NEW a, NEW j \in Slots, Matches(cd, a) # {} => j # First(Matches(cd, a))
  PROVE  AfterDiscon(cd, a)[j] = cd[j] /\ StateAfterDiscon(cd, st, a)[j] = st[j]
<1>1. CASE Matches(cd, a) = {}
  BY <1>1 DEF AfterDiscon, StateAfterDiscon
<1>2. CASE Matches(cd, a) # {}
  <2> DEFINE f == First(Matches(cd, a))
  <2>1. f \in Slots /\ j # f
    BY <1>2, FoundIsConnection
  <2>2. /\ AfterDiscon(cd, a) = [cd EXCEPT ![f] = Null]
        /\ StateAfterDiscon(cd, st, a) = [st EXCEPT ![f] = st[f] /\ ~cd[f].cgi]
    BY <1>2 DEF AfterDiscon, StateAfterDiscon
  <2> HIDE DEF f
  <2> QED BY <2>1, <2>2
<1> QED BY <1>1, <1>2

LEMMA ServesOneClient ==
  ASSUME TypeInv, LiveInv, NEW s \in Slots, Serves(s),
         NEW j \in Slots, connData[j] # Null, connData[j].made # s
  PROVE  Undisturbed(j)
<1>0. Tables /\ AddrInv /\ NamedInv /\ SetsInv /\ task \in Task
  BY DEF TypeInv, TypeOK, Tables, LiveInv
<1>1. AtSlot(s) /\ rconn[s].open
  <2>1. AtSlot(s)
    BY DEF Serves, WriteClose, WriteSent, ReadData, ReadEnds, ReadNoBuffer
  <2>2. task.readset \cup task.writeset \in SUBSET Slots
    BY <1>0 DEF Task
  <2>3. s \in task.readset \cup task.writeset
    BY <2>1, <2>2, FirstIsMember DEF AtSlot
  <2> QED BY <1>0, <2>1, <2>3 DEF SetsInv
<1>2. Matches(connData, rconn[s].addr) # {} => j # First(Matches(connData, rconn[s].addr))
  BY <1>0, <1>1, FindsOwnOrNone
<1>3. CASE WriteSent(s) \/ ReadData(s)
  <2>1. RecvCb(s) \/ SentCb(s)
    BY <1>3 DEF WriteSent, ReadData
  <2>2. CASE Matches(connData, rconn[s].addr) = {}
    BY <2>1, <2>2 DEF RecvCb, SentCb, Undisturbed
  <2>3. CASE Matches(connData, rconn[s].addr) # {}
    BY <1>0, <1>2, <2>1, <2>3, CallbackTouchesFound
  <2> QED BY <2>2, <2>3
<1>4. CASE WriteClose(s) \/ ReadEnds(s) \/ ReadNoBuffer(s)
  <2> DEFINE a  == rconn[s].addr
             cd == AfterDiscon(connData, a)
             st == StateAfterDiscon(connData, cgiState, a)
  <2>2. cd[j] = connData[j] /\ st[j] = cgiState[j]
    BY <1>0, <1>2, CloseTouchesFound DEF Tables
  <2>3. Matches(cd, a) = {}
    BY <1>0, <1>1, DisconnectForgets
  <2>4. \/ connData' = cd /\ cgiState' = st
        \/ connData' = AfterDiscon(cd, a) /\ cgiState' = StateAfterDiscon(cd, st, a)
    BY <1>4, Zenon DEF WriteClose, ReadEnds, ReadNoBuffer, Disconnect
  <2>5. AfterDiscon(cd, a) = cd /\ StateAfterDiscon(cd, st, a) = st
    <3> HIDE DEF cd, st, a
    <3> QED BY <2>3 DEF AfterDiscon, StateAfterDiscon
  <2> QED BY <2>2, <2>4, <2>5 DEF Undisturbed
<1> QED BY <1>3, <1>4 DEF Serves

\* Whatever malloc() fails, a callback disturbs no connection but that of its own socket, as
\* long as no client comes back from an address whose old socket is still open (httpdRecvCb,
\* httpdSentCb, httpdDisconCb).
THEOREM OthersAreUndisturbed ==
  ASSUME NoReuse
  PROVE  Spec => OthersUndisturbed
<1>1. TypeInv /\ LiveInv /\ [Next]_vars =>
        [\A s \in Slots : Serves(s) =>
           /\ OthersUnmarked(s)
           /\ \A i \in Slots : connData[i] # Null /\ connData[i].made # s => Undisturbed(i)]_vars
  <2> SUFFICES ASSUME TypeInv, LiveInv, NEW s \in Slots, Serves(s)
               PROVE  /\ OthersUnmarked(s)
                      /\ \A i \in Slots : connData[i] # Null /\ connData[i].made # s => Undisturbed(i)
    OBVIOUS
  <2>1. \A i \in Slots : connData[i] # Null /\ connData[i].made # s => Undisturbed(i)
    BY ServesOneClient
  <2>2. Tables
    BY DEF TypeInv, TypeOK, Tables
  <2>3. OthersUnmarked(s)
    BY <2>2, MarksOwn, RecvMarksOwn, SentMarksOwn
    DEF Serves, WriteClose, WriteSent, ReadData, ReadEnds, ReadNoBuffer, Disconnect
  <2> QED BY <2>1, <2>3
<1> QED BY LiveInvAlways, <1>1, PTL DEF Spec, OthersUndisturbed
=============================================================================
