-------------------------- MODULE WebsocketProofs --------------------------
(***************************************************************************)
(* What holds of the list of websockets, of the broadcasts and of the      *)
(* parser of the frames for any number of websockets and broadcasts and    *)
(* for whatever frames the clients send.                                   *)
(***************************************************************************)
EXTENDS Websocket, SequenceTheorems, FiniteSetTheorems, TLAPS

\* What stands where in two sequences one after the other.
LEMMA Joined ==
  ASSUME NEW S, NEW s \in Seq(S), NEW t \in Seq(S)
  PROVE  /\ s \o t \in Seq(S)
         /\ Len(s \o t) = Len(s) + Len(t)
         /\ \A i \in 1 .. Len(s) + Len(t) :
              (s \o t)[i] = IF i <= Len(s) THEN s[i] ELSE t[i - Len(s)]
BY ConcatProperties, Zenon

\* The server task works on a segment of a websocket that is open. What a pong owes is
\* what is left of a ping of which a part was answered.
Pongs ==
  \A c \in Conns :
    /\ owed[c] = IF priv[c].status = ST_PAYLOAD /\ priv[c].frameCont
                    /\ priv[c].flags.f.op = "ping"
                 THEN priv[c].len ELSE 0
    /\ priv[c].status \in 1 .. 13 => priv[c].frameCont = FALSE

SegOpen == seg.c # Null => seg.c \in Conns /\ conn[seg.c] = "open"

\* A broadcast that goes on is at a websocket.
AtOne == bcast.at # "idle" => bcast.lw # Null

Basics == TypeOK /\ SegOpen /\ Pongs /\ AtOne

-----------------------------------------------------------------------------
(* The types, and the pongs.                                                *)

LEMMA FreshType == FreshPriv \in Priv /\ FreshPriv.status = 0
<1>1. NoByte \in Kept
  BY DEF Kept
<1>2. [i \in 0 .. 3 |-> NoByte] \in [0 .. 3 -> Kept]
  BY <1>1
<1> QED
  BY <1>1, <1>2 DEF FreshPriv, Priv, ST_FLAGS

\* A byte of the head keeps the state of the parser well formed, and starts a frame of
\* which no payload was seen.
LEMMA HeaderType ==
  ASSUME NEW p \in Priv, NEW b \in Byte, p.status # 14,
         p.status \in 1 .. 13 => p.frameCont = FALSE
  PROVE  /\ HeaderByte(p, b) \in Priv
         /\ HeaderByte(p, b).status \in 1 .. 14
         /\ HeaderByte(p, b).frameCont = FALSE
<1> DEFINE q == HeaderByte(p, b)
<1>1. b \in Kept
  BY DEF Kept
<1>2. CASE p.status = 0
  <2>1. PICK st \in 0 .. 14, ctr \in 0 .. 255 : st = 1 /\ ctr = 0
    OBVIOUS
  <2>2. PICK no \in BOOLEAN : no = FALSE
    BY Zenon
  <2>3. q = [p EXCEPT !.maskCtr = ctr, !.frameCont = no, !.flags = b, !.status = st]
    BY <1>2, <2>1, <2>2 DEF HeaderByte, FrameFlags, ST_FLAGS, ST_LEN0
  <2> HIDE DEF q
  <2>4. PICK r : r = [p EXCEPT !.maskCtr = ctr, !.frameCont = no]
    OBVIOUS
  <2>5. r \in Priv /\ r.frameCont = no
    BY <2>4, ZenonT(60) DEF Priv
  <2>6. q = [r EXCEPT !.flags = b, !.status = st]
    BY <2>3, <2>4
  <2>7. q \in Priv /\ q.status = st /\ q.frameCont = r.frameCont
    BY <1>1, <2>5, <2>6, ZenonT(60) DEF Priv
  <2> QED
    BY <2>1, <2>2, <2>5, <2>7 DEF q
<1>3. CASE p.status = 1
  <2>1. b.f.len \in Nat /\ b.f.ext \in {0, 2, 8}
    BY DEF Byte, Frame
  <2>2. PICK l : l = [p EXCEPT !.len8 = b]
    OBVIOUS
  <2>3. l \in Priv /\ l.frameCont = p.frameCont /\ l.status = p.status
    BY <1>1, <2>2 DEF Priv
  <2>4. AfterLen(l) \in 1 .. 14
    BY DEF AfterLen, ST_MASK1, ST_PAYLOAD
  <2>5. PICK n \in Nat, st \in 0 .. 14 :
          /\ n = (IF b.f.ext > 0 THEN 0 ELSE b.f.len)
          /\ st = (IF b.f.ext > 0 THEN 2 ELSE AfterLen(l)) /\ st \in 1 .. 14
    BY <2>1, <2>4
  <2>6. q = [l EXCEPT !.len = n, !.status = st]
    BY <1>3, <2>2, <2>5 DEF HeaderByte, FrameLen, ST_FLAGS, ST_LEN0, ST_LEN1
  <2> HIDE DEF q
  <2>7. q \in Priv /\ q.status = st /\ q.frameCont = l.frameCont
    BY <2>3, <2>6 DEF Priv
  <2> QED
    BY <1>3, <2>3, <2>5, <2>7 DEF q
<1>4. CASE p.status \in 2 .. 9
  <2>1. ExtByte(b) \in Nat
    BY DEF Byte, Frame, ExtByte
  <2>2. p.len \in Nat
    BY DEF Priv
  <2>3. AfterLen(p) \in 1 .. 14
    BY DEF AfterLen, ST_MASK1, ST_PAYLOAD
  <2>4. PICK n \in Nat, st \in 0 .. 14 :
          /\ n = 256 * p.len + ExtByte(b)
          /\ st = (IF LenEnds(p) THEN AfterLen(p) ELSE p.status + 1) /\ st \in 1 .. 14
    BY <1>4, <2>1, <2>2, <2>3
  <2>5. q = [p EXCEPT !.len = n, !.status = st]
    BY <1>4, <2>4 DEF HeaderByte, ST_FLAGS, ST_LEN0, ST_LEN8
  <2> HIDE DEF q
  <2>6. q \in Priv /\ q.status = st /\ q.frameCont = p.frameCont
    BY <2>5 DEF Priv
  <2> QED
    BY <1>4, <2>4, <2>6 DEF q
<1>5. CASE p.status \in 10 .. 13
  <2>1. PICK st \in 0 .. 14 : st = p.status + 1 /\ st \in 1 .. 14
    BY <1>5
  <2>2. PICK j \in 0 .. 3 : j = p.status - 10
    BY <1>5
  <2>3. PICK m : m = [p.mask EXCEPT ![j] = b]
    OBVIOUS
  <2>4. m \in [0 .. 3 -> Kept]
    BY <1>1, <2>3 DEF Priv
  <2>5. q = [p EXCEPT !.mask = m, !.status = st]
    BY <1>5, <2>1, <2>2, <2>3 DEF HeaderByte, ST_FLAGS, ST_LEN0, ST_LEN8, ST_MASK1
  <2> HIDE DEF q
  <2>6. q \in Priv /\ q.status = st /\ q.frameCont = p.frameCont
    BY <2>4, <2>5 DEF Priv
  <2> QED
    BY <1>5, <2>1, <2>6 DEF q
<1>6. p.status \in 0 .. 14
  BY DEF Priv
<1>7. p.status \in {0, 1} \cup 2 .. 9 \cup 10 .. 13
  BY <1>6
<1> QED
  BY <1>2, <1>3, <1>4, <1>5, <1>7

\* So does a part of the payload.
LEMMA TakenType ==
  ASSUME NEW p \in Priv, p.status = 14, NEW sl \in Nat, sl <= p.len
  PROVE  /\ Taken(p, sl) \in Priv
         /\ Taken(p, sl).flags = p.flags
         /\ p.len = sl => Taken(p, sl).status = 0
         /\ p.len # sl => /\ Taken(p, sl).status = 14 /\ Taken(p, sl).frameCont = TRUE
                          /\ Taken(p, sl).len = p.len - sl
<1> DEFINE q == Taken(p, sl)
<1>1. p.len \in Nat /\ p.maskCtr \in Nat
  BY DEF Priv
<1>2. PICK m \in 0 .. 255 : m = (p.maskCtr + sl) % 256
  BY <1>1
<1>3. PICK n \in Nat, st \in 0 .. 14 : n = p.len - sl /\ st = 0
  BY <1>1
<1>4. PICK yes \in BOOLEAN : yes = TRUE
  BY Zenon
<1>5. CASE p.len = sl
  <2>1. n = 0
    BY <1>1, <1>3, <1>5
  <2>2. q = [p EXCEPT !.len = n, !.maskCtr = m, !.status = st]
    BY <1>2, <1>3, <1>5, <2>1 DEF Taken, ST_FLAGS
  <2> HIDE DEF q
  <2>3. q \in Priv /\ q.flags = p.flags /\ q.status = st
    BY <2>2 DEF Priv
  <2> QED
    BY <1>3, <1>5, <2>3 DEF q
<1>6. CASE p.len # sl
  <2>1. q = [p EXCEPT !.len = n, !.maskCtr = m, !.frameCont = yes]
    BY <1>2, <1>3, <1>4, <1>6 DEF Taken
  <2> HIDE DEF q
  <2>2. q \in Priv /\ q.flags = p.flags /\ q.status = p.status /\ q.frameCont = yes /\ q.len = n
    BY <2>1 DEF Priv
  <2> QED
    BY <1>3, <1>4, <1>6, <2>2 DEF q
<1> QED
  BY <1>5, <1>6

PongOf(p, o) ==
  /\ o = IF p.status = ST_PAYLOAD /\ p.frameCont /\ p.flags.f.op = "ping" THEN p.len ELSE 0
  /\ p.status \in 1 .. 13 => p.frameCont = FALSE

LEMMA PongsAre == Pongs <=> \A c \in Conns : PongOf(priv[c], owed[c])
BY DEF Pongs, PongOf

LEMMA PongsAreNext == Pongs' <=> \A c \in Conns : PongOf(priv'[c], owed'[c])
BY DEF Pongs, PongOf

\* What stays with the other connections when one of them gets a new parser.
LEMMA PongsStay ==
  ASSUME Basics, NEW c \in Conns, NEW p \in Priv, NEW o \in Nat, PongOf(p, o),
         priv' = [priv EXCEPT ![c] = p], owed' = [owed EXCEPT ![c] = o]
  PROVE  Pongs' /\ priv' \in [Conns -> Priv] /\ owed' \in [Conns -> Nat]
<1>1. priv \in [Conns -> Priv] /\ owed \in [Conns -> Nat]
  BY DEF Basics, TypeOK
<1>2. priv' \in [Conns -> Priv] /\ owed' \in [Conns -> Nat]
  BY <1>1
<1>3. \A d \in Conns : d # c => priv'[d] = priv[d] /\ owed'[d] = owed[d]
  BY <1>1
<1>4. priv'[c] = p /\ owed'[c] = o
  BY <1>1
<1>5. ASSUME NEW d \in Conns PROVE PongOf(priv'[d], owed'[d])
  <2>1. CASE d = c
    BY <1>4, <2>1
  <2>2. CASE d # c
    BY <1>3, <2>2, PongsAre DEF Basics
  <2> QED
    BY <2>1, <2>2
<1> QED
  BY <1>2, <1>5, PongsAreNext

LEMMA FreshPong == PongOf(FreshPriv, 0)
BY FreshType DEF PongOf, ST_PAYLOAD

LEMMA ConnectKeeps ==
  ASSUME Basics, NEW c \in Conns, Connect(c)
  PROVE  Basics'
<1>1. /\ TypeOK /\ SegOpen /\ Pongs /\ seg.c = Null
      /\ conn' = [conn EXCEPT ![c] = "open"]
      /\ llStart' \in {llStart, c}
      /\ next' = next \/ next' = [l \in Conns |-> IF l \in Open /\ next[l] = Null THEN c ELSE next[l]]
      /\ priv' = priv /\ in' = in /\ seg' = seg /\ owed' = owed /\ bcast' = bcast
      /\ frames' = frames /\ fault' = fault
  BY DEF Connect, Basics, LockFree
<1>2. conn' \in [Conns -> {"none", "open", "done", "gone"}] /\ llStart' \in Conns \cup {Null}
      /\ next' \in [Conns -> Conns \cup {Null}]
  <2>1. conn' \in [Conns -> {"none", "open", "done", "gone"}]
    BY <1>1 DEF TypeOK
  <2>2. llStart' \in Conns \cup {Null}
    BY <1>1 DEF TypeOK
  <2>3. next \in [Conns -> Conns \cup {Null}]
    BY <1>1 DEF TypeOK
  <2>4. next' \in [Conns -> Conns \cup {Null}]
    BY <1>1, <2>3
  <2> QED
    BY <2>1, <2>2, <2>4
<1>3. TypeOK'
  BY <1>1, <1>2 DEF TypeOK
<1>4. SegOpen' /\ Pongs' /\ AtOne'
  BY <1>1 DEF SegOpen, Pongs, AtOne, Basics
<1> QED
  BY <1>3, <1>4 DEF Basics

\* Unlinking a websocket leaves pointers.
LEMMA FreeType ==
  ASSUME TypeOK, NEW c \in Conns, websockFree(c)
  PROVE  llStart' \in Conns \cup {Null} /\ next' \in [Conns -> Conns \cup {Null}]
BY DEF TypeOK, websockFree

\* A broadcast that no longer must reach a websocket.
LEMMA LessMust ==
  ASSUME TypeOK, NEW c \in Conns, bcast' = [bcast EXCEPT !.must = @ \ {c}]
  PROVE  /\ bcast' \in Bcast /\ bcast'.must = bcast.must \ {c}
         /\ bcast'.at = bcast.at /\ bcast'.lw = bcast.lw /\ bcast'.reached = bcast.reached
<1>1. bcast \in Bcast
  BY DEF TypeOK
<1>2. bcast.must \in SUBSET Conns
  BY <1>1 DEF Bcast
<1>3. PICK m \in SUBSET Conns : m = bcast.must \ {c}
  BY <1>2
<1>4. bcast' = [bcast EXCEPT !.must = m]
  BY <1>3
<1> QED
  BY <1>1, <1>3, <1>4 DEF Bcast

LEMMA DisconnectKeeps ==
  ASSUME Basics, NEW c \in Conns, Disconnect(c)
  PROVE  Basics'
<1>1. /\ TypeOK /\ seg.c = Null
      /\ conn' = [conn EXCEPT ![c] = "gone"]
      /\ websockFree(c) \/ (llStart' = llStart /\ next' = next)
      /\ bcast' = [bcast EXCEPT !.must = @ \ {c}]
      /\ in' = [in EXCEPT ![c] = <<>>]
      /\ priv' = [priv EXCEPT ![c] = FreshPriv]
      /\ owed' = [owed EXCEPT ![c] = 0]
      /\ seg' = seg /\ frames' = frames /\ fault' = fault
  BY DEF Disconnect, Basics, LockFree
<1>2. Pongs' /\ priv' \in [Conns -> Priv] /\ owed' \in [Conns -> Nat]
  <2>1. FreshPriv \in Priv /\ PongOf(FreshPriv, 0) /\ 0 \in Nat
    BY FreshType, FreshPong
  <2> QED
    BY <1>1, <2>1, PongsStay, Zenon
<1>3. llStart' \in Conns \cup {Null} /\ next' \in [Conns -> Conns \cup {Null}]
  BY <1>1, FreeType DEF TypeOK
<1>4. bcast' \in Bcast
  BY <1>1, LessMust
<1>5. in' \in [Conns -> Seq(Byte)]
  <2>1. <<>> \in Seq(Byte)
    BY EmptySeq
  <2> QED
    BY <1>1, <2>1 DEF TypeOK
<1>6. TypeOK'
  BY <1>1, <1>2, <1>3, <1>4, <1>5 DEF TypeOK
<1>7. SegOpen'
  BY <1>1 DEF SegOpen
<1>8. AtOne'
  BY <1>1, LessMust DEF AtOne, Basics
<1> QED
  BY <1>2, <1>6, <1>7, <1>8 DEF Basics

LEMMA SendFrameKeeps ==
  ASSUME Basics, NEW c \in Conns, NEW f \in Frames, SendFrame(c, f),
         Bytes(f) \in Seq(Byte)
  PROVE  Basics'
<1>1. /\ TypeOK /\ SegOpen /\ Pongs
      /\ frames < MaxFrames /\ frames' = frames + 1
      /\ in' = [in EXCEPT ![c] = @ \o Bytes(f)]
      /\ conn' = conn /\ llStart' = llStart /\ next' = next /\ priv' = priv /\ seg' = seg
      /\ owed' = owed /\ bcast' = bcast /\ fault' = fault
  BY DEF SendFrame, Basics
<1>2. in' \in [Conns -> Seq(Byte)]
  <2>1. in \in [Conns -> Seq(Byte)]
    BY <1>1 DEF TypeOK
  <2>2. PICK s \in Seq(Byte) : s = in[c] \o Bytes(f)
    <3>1. in[c] \in Seq(Byte)
      BY <2>1
    <3> QED
      BY <3>1, Joined
  <2> QED
    BY <1>1, <2>1, <2>2
<1>3. frames' \in 0 .. MaxFrames
  BY <1>1, WebsocketAssumption DEF TypeOK
<1>4. TypeOK'
  BY <1>1, <1>2, <1>3 DEF TypeOK
<1>5. SegOpen' /\ Pongs' /\ AtOne'
  BY <1>1 DEF SegOpen, Pongs, AtOne, Basics
<1> QED
  BY <1>4, <1>5 DEF Basics

LEMMA RecvKeeps ==
  ASSUME Basics, NEW c \in Conns, Recv(c)
  PROVE  Basics'
<1>1. /\ TypeOK /\ SegOpen /\ Pongs
      /\ (conn[c] = "open" /\ seg' = [c |-> c, header |-> FALSE]) \/ seg' = seg
      /\ fault' \in BOOLEAN
      /\ conn' = conn /\ llStart' = llStart /\ next' = next /\ priv' = priv /\ in' = in
      /\ owed' = owed /\ bcast' = bcast /\ frames' = frames
  BY DEF Recv, Basics, TypeOK
<1>2. seg' \in [c : Conns \cup {Null}, header : BOOLEAN]
  <2>1. PICK no \in BOOLEAN : no = FALSE
    BY Zenon
  <2>2. [c |-> c, header |-> no] \in [c : Conns \cup {Null}, header : BOOLEAN]
    OBVIOUS
  <2> QED
    BY <1>1, <2>1, <2>2 DEF TypeOK
<1>3. TypeOK'
  BY <1>1, <1>2 DEF TypeOK
<1>4. SegOpen'
  <2>1. CASE seg' = seg
    BY <1>1, <2>1 DEF SegOpen
  <2>2. CASE conn[c] = "open" /\ seg' = [c |-> c, header |-> FALSE]
    BY <1>1, <2>2 DEF SegOpen
  <2> QED
    BY <1>1, <2>1, <2>2
<1>5. Pongs' /\ AtOne'
  BY <1>1 DEF Pongs, AtOne, Basics
<1> QED
  BY <1>3, <1>4, <1>5 DEF Basics

\* What is left of a stream of which n bytes were taken.
LEMMA LeftType ==
  ASSUME NEW s \in Seq(Byte), NEW n \in 0 .. Len(s)
  PROVE  /\ SubSeq(s, n + 1, Len(s)) \in Seq(Byte)
         /\ Len(SubSeq(s, n + 1, Len(s))) = Len(s) - n
         /\ \A i \in 1 .. Len(s) - n : SubSeq(s, n + 1, Len(s))[i] = s[n + i]
<1>1. Len(s) \in Nat
  BY LenProperties
<1>2. \A i \in n + 1 .. Len(s) : s[i] \in Byte
  BY <1>1, ElementOfSeq
<1>3. n + 1 \in Int /\ Len(s) \in Int
  BY <1>1
<1> DEFINE t == SubSeq(s, n + 1, Len(s))
<1>4. t = [i \in 1 .. Len(s) - n |-> s[n + i]]
  <2>1. t = [i \in 1 .. (1 + Len(s)) - (n + 1) |-> s[(i + (n + 1)) - 1]]
    BY <1>1
  <2> QED
    BY <1>1, <2>1
<1>5. PICK l \in Nat : l = Len(s) - n
  BY <1>1
<1>6. t = [i \in 1 .. l |-> s[n + i]] /\ \A i \in 1 .. l : s[n + i] \in Byte
  BY <1>1, <1>2, <1>4, <1>5
<1> HIDE DEF t
<1>7. t \in Seq(Byte) /\ Len(t) = l /\ \A i \in 1 .. l : t[i] = s[n + i]
  BY <1>6
<1> QED
  BY <1>5, <1>7 DEF t

LEMMA HeaderKeeps ==
  ASSUME Basics, NEW c \in Conns, seg.c = c, Header(c)
  PROVE  Basics'
<1> DEFINE p == HeaderByte(priv[c], Head(in[c]))
<1>1. /\ TypeOK /\ SegOpen /\ Pongs
      /\ in[c] # <<>> /\ priv[c].status # 14
      /\ priv' = [priv EXCEPT ![c] = p]
      /\ in' = [in EXCEPT ![c] = Tail(@)]
      /\ seg' = [seg EXCEPT !.header = p.status = ST_PAYLOAD]
      /\ conn' = conn /\ llStart' = llStart /\ next' = next /\ owed' = owed
      /\ bcast' = bcast /\ frames' = frames /\ fault' = fault
  BY DEF Header, Basics, ST_PAYLOAD
<1>2. priv[c] \in Priv /\ in[c] \in Seq(Byte) /\ owed[c] \in Nat /\ owed \in [Conns -> Nat]
  BY <1>1 DEF TypeOK
<1>3. Head(in[c]) \in Byte /\ Tail(in[c]) \in Seq(Byte)
  BY <1>1, <1>2, HeadTailProperties
<1>4. PongOf(priv[c], owed[c])
  BY <1>1, PongsAre
<1>5. p \in Priv /\ p.status \in 1 .. 14 /\ p.frameCont = FALSE
  BY <1>1, <1>2, <1>3, <1>4, HeaderType DEF PongOf
<1> HIDE DEF p
<1>6. PongOf(p, 0) /\ owed[c] = 0
  BY <1>1, <1>4, <1>5 DEF PongOf, ST_PAYLOAD
<1>7. PICK o \in Nat : o = 0
  OBVIOUS
<1>8. owed' = [owed EXCEPT ![c] = o]
  BY <1>1, <1>2, <1>6, <1>7
<1>9. Pongs' /\ priv' \in [Conns -> Priv] /\ owed' \in [Conns -> Nat]
  <2>1. PongOf(p, o)
    BY <1>6, <1>7
  <2> QED
    BY <1>1, <1>5, <1>8, <2>1, PongsStay, Zenon
<1>10. in' \in [Conns -> Seq(Byte)]
  BY <1>1, <1>3 DEF TypeOK
<1>11. seg' \in [c : Conns \cup {Null}, header : BOOLEAN] /\ seg'.c = seg.c
  <2>1. seg \in [c : Conns \cup {Null}, header : BOOLEAN]
    BY <1>1 DEF TypeOK
  <2>2. (p.status = ST_PAYLOAD) \in BOOLEAN
    OBVIOUS
  <2>3. PICK yes \in BOOLEAN : yes = (p.status = ST_PAYLOAD)
    BY <2>2, Zenon
  <2>4. seg' = [seg EXCEPT !.header = yes]
    BY <1>1, <2>3, Zenon
  <2> QED
    BY <2>1, <2>4
<1>12. TypeOK'
  BY <1>1, <1>9, <1>10, <1>11 DEF TypeOK
<1>13. SegOpen' /\ AtOne'
  BY <1>1, <1>11 DEF SegOpen, AtOne, Basics
<1> QED
  BY <1>9, <1>12, <1>13 DEF Basics

LEMMA DoneKeeps ==
  ASSUME Basics, NEW c \in Conns, Done(c)
  PROVE  Basics'
<1>1. PICK rest \in 0 .. Len(in[c]) :
      /\ TypeOK
      /\ conn' = [conn EXCEPT ![c] = "done"]
      /\ websockFree(c)
      /\ bcast' = [bcast EXCEPT !.must = @ \ {c}]
      /\ in' = [in EXCEPT ![c] = SubSeq(@, rest + 1, Len(@))]
      /\ priv' = [priv EXCEPT ![c] = FreshPriv]
      /\ owed' = [owed EXCEPT ![c] = 0]
      /\ seg' = NoSeg /\ frames' = frames /\ fault' = fault
  BY DEF Done, Basics
<1>2. Pongs' /\ priv' \in [Conns -> Priv] /\ owed' \in [Conns -> Nat]
  <2>1. FreshPriv \in Priv /\ PongOf(FreshPriv, 0) /\ 0 \in Nat
    BY FreshType, FreshPong
  <2> QED
    BY <1>1, <2>1, PongsStay, Zenon
<1>3. llStart' \in Conns \cup {Null} /\ next' \in [Conns -> Conns \cup {Null}]
  BY <1>1, FreeType
<1>4. bcast' \in Bcast
  BY <1>1, LessMust
<1>5. in' \in [Conns -> Seq(Byte)]
  <2>1. in \in [Conns -> Seq(Byte)] /\ in[c] \in Seq(Byte)
    BY <1>1 DEF TypeOK
  <2>2. SubSeq(in[c], rest + 1, Len(in[c])) \in Seq(Byte)
    BY <2>1, LeftType
  <2>3. PICK s \in Seq(Byte) : s = SubSeq(in[c], rest + 1, Len(in[c]))
    BY <2>2
  <2> QED
    BY <1>1, <2>1, <2>3
<1>6. seg'.c = Null /\ seg' \in [c : Conns \cup {Null}, header : BOOLEAN]
  <2>1. PICK no \in BOOLEAN : no = FALSE
    BY Zenon
  <2> QED
    BY <1>1, <2>1 DEF NoSeg
<1>7. TypeOK'
  <2>1. conn' \in [Conns -> {"none", "open", "done", "gone"}]
    BY <1>1 DEF TypeOK
  <2> QED
    BY <1>1, <1>2, <1>3, <1>4, <1>5, <1>6, <2>1 DEF TypeOK
<1>8. SegOpen'
  BY <1>6 DEF SegOpen
<1>9. AtOne'
  BY <1>1, LessMust DEF AtOne, Basics
<1> QED
  BY <1>2, <1>7, <1>8, <1>9 DEF Basics

LEMMA PayloadKeeps ==
  ASSUME Basics, NEW c \in Conns, seg.c = c, NEW sl \in 0 .. Len(in[c]), Payload(c, sl)
  PROVE  Basics'
<1>1. TypeOK /\ SegOpen /\ Pongs
  BY DEF Basics
<1>2. priv[c] \in Priv /\ in[c] \in Seq(Byte) /\ owed[c] \in Nat /\ owed \in [Conns -> Nat]
  BY <1>1 DEF TypeOK
<1> DEFINE p == priv[c]
           q == Taken(p, sl)
           n == Pong(p, sl)
<1>3. CASE Done(c)
  BY <1>3, DoneKeeps
<1>4. CASE ~Done(c)
  <2>1. /\ p.status = 14 /\ sl <= p.len
        /\ owed' = IF p.flags.f.op = "ping" THEN [owed EXCEPT ![c] = @ + n] ELSE owed
        /\ priv' = [priv EXCEPT ![c] = q]
        /\ in' = [in EXCEPT ![c] = SubSeq(@, sl + 1, Len(@))]
        /\ seg' = IF sl < p.len THEN NoSeg ELSE [seg EXCEPT !.header = FALSE]
        /\ conn' = conn /\ llStart' = llStart /\ next' = next
        /\ bcast' = bcast /\ frames' = frames /\ fault' = fault
    BY <1>4 DEF Payload, ST_PAYLOAD
  <2>2. sl \in Nat /\ p.len \in Nat /\ p.frameCont \in BOOLEAN
    BY <1>2 DEF Priv
  <2>3. /\ q \in Priv /\ q.flags = p.flags
        /\ p.len = sl => q.status = 0
        /\ p.len # sl => q.status = 14 /\ q.frameCont = TRUE /\ q.len = p.len - sl
    BY <1>2, <2>1, <2>2, TakenType
  <2>4. PongOf(p, owed[c])
    BY <1>1, PongsAre
  <2>5. PICK o \in Nat : o = IF p.flags.f.op = "ping" THEN p.len - sl ELSE 0
    BY <2>1, <2>2
  <2>6. owed' = [owed EXCEPT ![c] = o]
    <3>1. p.flags.f.op # "ping" => owed[c] = 0
      BY <2>4 DEF PongOf
    <3>2. p.flags.f.op = "ping" => owed[c] + n = p.len - sl
      <4>1. CASE p.frameCont = TRUE
        <5>1. p.flags.f.op = "ping" => owed[c] = p.len
          BY <2>1, <2>4, <4>1 DEF PongOf, ST_PAYLOAD
        <5>2. n = -sl
          BY <4>1 DEF Pong
        <5> QED
          BY <2>2, <5>1, <5>2
      <4>2. CASE p.frameCont = FALSE
        <5>1. owed[c] = 0
          BY <2>4, <4>2 DEF PongOf
        <5>2. n = p.len - sl
          BY <4>2 DEF Pong
        <5> QED
          BY <2>2, <5>1, <5>2
      <4> QED
        BY <2>2, <4>1, <4>2
    <3> HIDE DEF p, n
    <3>3. CASE p.flags.f.op = "ping"
      BY <1>2, <2>1, <2>5, <3>2, <3>3
    <3>4. CASE p.flags.f.op # "ping"
      BY <1>2, <2>1, <2>5, <3>1, <3>4
    <3> QED
      BY <3>3, <3>4
  <2>7. PongOf(q, o)
    <3> HIDE DEF p, q
    <3>1. CASE p.len = sl
      BY <2>2, <2>3, <2>5, <3>1 DEF PongOf, ST_PAYLOAD
    <3>2. CASE p.len # sl
      <4>1. /\ q.status = 14 /\ q.frameCont = TRUE /\ q.len = p.len - sl
            /\ q.flags.f.op = p.flags.f.op
        BY <2>3, <3>2
      <4>2. o = IF q.flags.f.op = "ping" THEN q.len ELSE 0
        BY <2>5, <4>1
      <4> QED
        BY <4>1, <4>2 DEF PongOf, ST_PAYLOAD
    <3> QED
      BY <3>1, <3>2
  <2>8. Pongs' /\ priv' \in [Conns -> Priv] /\ owed' \in [Conns -> Nat]
    <3> HIDE DEF p, q
    <3> QED
      BY <2>1, <2>3, <2>6, <2>7, PongsStay, Zenon
  <2>9. in' \in [Conns -> Seq(Byte)]
    <3>1. SubSeq(in[c], sl + 1, Len(in[c])) \in Seq(Byte)
      BY <1>2, LeftType
    <3>2. PICK s \in Seq(Byte) : s = SubSeq(in[c], sl + 1, Len(in[c]))
      BY <3>1
    <3>3. in \in [Conns -> Seq(Byte)]
      BY <1>1 DEF TypeOK
    <3> QED
      BY <2>1, <3>2, <3>3
  <2>10. seg' \in [c : Conns \cup {Null}, header : BOOLEAN] /\ seg'.c \in {Null, c}
    <3>1. PICK no \in BOOLEAN : no = FALSE
      BY Zenon
    <3>2. seg \in [c : Conns \cup {Null}, header : BOOLEAN]
      BY <1>1 DEF TypeOK
    <3>3. CASE sl < p.len
      BY <2>1, <3>1, <3>3 DEF NoSeg
    <3>4. CASE ~(sl < p.len)
      BY <2>1, <3>1, <3>2, <3>4
    <3> QED
      BY <3>3, <3>4
  <2>11. TypeOK'
    BY <1>1, <2>1, <2>8, <2>9, <2>10 DEF TypeOK
  <2>12. SegOpen' /\ AtOne'
    BY <1>1, <2>1, <2>10 DEF SegOpen, AtOne, Basics
  <2> QED
    BY <2>8, <2>11, <2>12 DEF Basics
<1> QED
  BY <1>3, <1>4

LEMMA EndRecvKeeps ==
  ASSUME Basics, EndRecv
  PROVE  Basics'
<1>1. /\ TypeOK /\ SegOpen /\ Pongs
      /\ seg' = NoSeg
      /\ conn' = conn /\ llStart' = llStart /\ next' = next /\ priv' = priv /\ in' = in
      /\ owed' = owed /\ bcast' = bcast /\ frames' = frames /\ fault' = fault
  BY DEF EndRecv, Basics
<1>2. seg'.c = Null /\ seg' \in [c : Conns \cup {Null}, header : BOOLEAN]
  <2>1. PICK no \in BOOLEAN : no = FALSE
    BY Zenon
  <2> QED
    BY <1>1, <2>1 DEF NoSeg
<1>3. TypeOK'
  BY <1>1, <1>2 DEF TypeOK
<1>4. SegOpen' /\ Pongs' /\ AtOne'
  BY <1>1, <1>2 DEF SegOpen, Pongs, AtOne, Basics
<1> QED
  BY <1>3, <1>4 DEF Basics

\* The broadcaster changes nothing but its own state.
LEMMA BroadcasterKeeps ==
  ASSUME Basics, Broadcaster
  PROVE  Basics'
<1>1. /\ TypeOK /\ SegOpen /\ Pongs /\ AtOne
      /\ conn' = conn /\ llStart' = llStart /\ next' = next /\ priv' = priv /\ in' = in
      /\ seg' = seg /\ owed' = owed /\ frames' = frames
  BY DEF Broadcaster, Start, Check, Send, GoOn, Walk, Basics
<1>2. bcast \in Bcast /\ next \in [Conns -> Conns \cup {Null}] /\ fault \in BOOLEAN
      /\ llStart \in Conns \cup {Null}
  BY <1>1 DEF TypeOK
<1>3. /\ bcast.at \in {"idle", "check", "send", "next"} /\ bcast.lw \in Conns \cup {Null}
      /\ bcast.must \in SUBSET Conns /\ bcast.reached \in SUBSET Conns
      /\ bcast.walks \in 0 .. MaxWalks
  BY <1>2 DEF Bcast
<1>4. bcast' \in Bcast /\ fault' \in BOOLEAN /\ AtOne'
  <2>1. ASSUME Start PROVE bcast' \in Bcast /\ fault' \in BOOLEAN /\ AtOne'
    <3>1. PICK w \in 0 .. MaxWalks : w = bcast.walks + 1
      BY <1>3, <2>1, WebsocketAssumption DEF Start
    <3>2. bcast' = [at |-> "check", lw |-> llStart, must |-> Open \cap Resource,
                    reached |-> {}, walks |-> w] /\ fault' = fault
      BY <2>1, <3>1 DEF Start
    <3>3. Open \cap Resource \in SUBSET Conns /\ {} \in SUBSET Conns
      BY DEF Open
    <3> QED
      BY <1>2, <2>1, <3>2, <3>3 DEF Bcast, AtOne, Start
  <2>2. ASSUME Check PROVE bcast' \in Bcast /\ fault' \in BOOLEAN /\ AtOne'
    <3>1. PICK at \in {"idle", "check", "send", "next"} :
            at = IF bcast.lw \in Resource THEN "send" ELSE "next"
      OBVIOUS
    <3>2. bcast' = [bcast EXCEPT !.at = at] /\ fault' \in {FALSE, Freed(bcast.lw)}
      BY <2>2, <3>1 DEF Check
    <3>3. Freed(bcast.lw) \in BOOLEAN
      BY DEF Freed
    <3>4. bcast' \in Bcast /\ bcast'.lw = bcast.lw
      BY <1>2, <3>2 DEF Bcast
    <3>5. bcast.lw # Null
      BY <1>1, <2>2 DEF Check, AtOne
    <3> QED
      BY <3>2, <3>3, <3>4, <3>5 DEF AtOne
  <2>3. ASSUME Send PROVE bcast' \in Bcast /\ fault' \in BOOLEAN /\ AtOne'
    <3>1. bcast.at = "send" /\ bcast.lw # Null
      BY <1>1, <2>3 DEF Send, AtOne
    <3>2. PICK at \in {"idle", "check", "send", "next"}, R \in SUBSET Conns :
            at = "next" /\ R = bcast.reached \cup {bcast.lw}
      BY <1>3, <3>1
    <3>3. bcast' = [bcast EXCEPT !.at = at, !.reached = R]
          /\ fault' \in {FALSE, Freed(bcast.lw)}
      BY <2>3, <3>2 DEF Send
    <3>4. Freed(bcast.lw) \in BOOLEAN
      BY DEF Freed
    <3>5. bcast' \in Bcast /\ bcast'.lw = bcast.lw
      BY <1>2, <3>3 DEF Bcast
    <3> QED
      BY <3>1, <3>3, <3>4, <3>5 DEF AtOne
  <2>4. ASSUME GoOn PROVE bcast' \in Bcast /\ fault' \in BOOLEAN /\ AtOne'
    <3>1. bcast.lw \in Conns
      BY <1>1, <1>3, <2>4 DEF GoOn, AtOne
    <3>2. PICK at \in {"idle", "check", "send", "next"}, lw \in Conns \cup {Null} :
            /\ lw = next[bcast.lw] /\ at = IF lw = Null THEN "idle" ELSE "check"
      BY <1>2, <3>1
    <3>3. bcast' = [bcast EXCEPT !.lw = lw, !.at = at]
          /\ fault' \in {FALSE, Freed(bcast.lw)}
      BY <2>4, <3>2 DEF GoOn, Walk
    <3>4. Freed(bcast.lw) \in BOOLEAN
      BY DEF Freed
    <3>5. bcast' \in Bcast /\ bcast'.lw = lw /\ bcast'.at = at
      BY <1>2, <3>3 DEF Bcast
    <3> QED
      BY <3>2, <3>3, <3>4, <3>5 DEF AtOne
  <2> QED
    BY <2>1, <2>2, <2>3, <2>4 DEF Broadcaster
<1>5. TypeOK'
  BY <1>1, <1>4 DEF TypeOK
<1>6. SegOpen' /\ Pongs'
  BY <1>1 DEF SegOpen, Pongs
<1> QED
  BY <1>4, <1>5, <1>6 DEF Basics

-----------------------------------------------------------------------------
(* The bytes of a frame.                                                    *)

MaskLen(f) == IF f.masked THEN 4 ELSE 0
Size(f) == 2 + f.ext + MaskLen(f) + f.len

\* The byte at place j of a frame, and the place of a byte.
ByteOf(f, j) ==
  IF j = 1 THEN [k |-> "flags", f |-> f, n |-> 0]
  ELSE IF j = 2 THEN [k |-> "len0", f |-> f, n |-> 0]
  ELSE IF j <= 2 + f.ext THEN [k |-> "ext", f |-> f, n |-> j - 3]
  ELSE IF j <= 2 + f.ext + MaskLen(f) THEN [k |-> "mask", f |-> f, n |-> j - 3 - f.ext]
  ELSE [k |-> "data", f |-> f, n |-> j - 3 - f.ext - MaskLen(f)]

Place(b) ==
  IF b.k = "flags" THEN 1
  ELSE IF b.k = "len0" THEN 2
  ELSE IF b.k = "ext" THEN 3 + b.n
  ELSE IF b.k = "mask" THEN 3 + b.f.ext + b.n
  ELSE 3 + b.f.ext + MaskLen(b.f) + b.n

LEMMA FrameSize ==
  ASSUME NEW f \in Frame
  PROVE  /\ f.ext \in {0, 2, 8} /\ f.len \in 0 .. 255 /\ f.masked \in BOOLEAN
         /\ MaskLen(f) \in {0, 4} /\ Size(f) \in Nat /\ Size(f) >= 2
         /\ Size(f) = 2 + f.ext + MaskLen(f) + f.len
<1>1. f.ext \in {0, 2, 8} /\ f.len \in 0 .. 255 /\ f.masked \in BOOLEAN
  BY DEF Frame
<1>2. MaskLen(f) \in {0, 4}
  BY DEF MaskLen
<1> QED
  BY <1>1, <1>2 DEF Size

LEMMA ByteIs ==
  ASSUME NEW f, NEW e \in Nat, NEW m \in Nat, e = f.ext, m = MaskLen(f), NEW j \in Int
  PROVE  /\ j \in 3 .. 2 + e => ByteOf(f, j) = [k |-> "ext", f |-> f, n |-> j - 3]
         /\ j \in 3 + e .. 2 + e + m => ByteOf(f, j) = [k |-> "mask", f |-> f, n |-> (j - 3) - e]
         /\ j > 2 + e + m => ByteOf(f, j) = [k |-> "data", f |-> f, n |-> ((j - 3) - e) - m]
<1>1. ByteOf(f, j) =
        IF j = 1 THEN [k |-> "flags", f |-> f, n |-> 0]
        ELSE IF j = 2 THEN [k |-> "len0", f |-> f, n |-> 0]
        ELSE IF j <= 2 + e THEN [k |-> "ext", f |-> f, n |-> j - 3]
        ELSE IF j <= 2 + e + m THEN [k |-> "mask", f |-> f, n |-> (j - 3) - e]
        ELSE [k |-> "data", f |-> f, n |-> ((j - 3) - e) - m]
  BY DEF ByteOf
<1>2. ASSUME j \in 3 .. 2 + e PROVE j # 1 /\ j # 2 /\ j <= 2 + e
  BY <1>2
<1>3. ASSUME j \in 3 + e .. 2 + e + m
      PROVE  j # 1 /\ j # 2 /\ ~(j <= 2 + e) /\ j <= 2 + e + m
  BY <1>3
<1>4. ASSUME j > 2 + e + m
      PROVE  j # 1 /\ j # 2 /\ ~(j <= 2 + e) /\ ~(j <= 2 + e + m)
  BY <1>4
<1> QED
  BY <1>1, <1>2, <1>3, <1>4

\* p is n bytes of one part of a frame, u is s and t one after the other.
IsPart(p, f, k, n) ==
  /\ p \in Seq(Byte) /\ Len(p) = n
  /\ \A i \in 1 .. n : p[i] = [k |-> k, f |-> f, n |-> i - 1]
IsJoin(u, s, t) ==
  /\ u \in Seq(Byte) /\ Len(u) = Len(s) + Len(t)
  /\ \A i \in 1 .. Len(s) + Len(t) : u[i] = IF i <= Len(s) THEN s[i] ELSE t[i - Len(s)]

LEMMA PartIs ==
  ASSUME NEW f \in Frame, NEW k \in {"flags", "len0", "ext", "mask", "data"},
         NEW n \in 0 .. 256
  PROVE  IsPart(Part(f, k, n), f, k, n)
<1> DEFINE t(i) == [k |-> k, f |-> f, n |-> i - 1]
<1>1. \A i \in 1 .. n : t(i) \in Byte
  <2>1. TAKE i \in 1 .. n
  <2>2. PICK j \in 0 .. 255 : j = i - 1
    OBVIOUS
  <2>3. t(i) = [k |-> k, f |-> f, n |-> j]
    BY <2>2
  <2> QED
    BY <2>3 DEF Byte
<1>2. Part(f, k, n) = [i \in 1 .. n |-> t(i)]
  BY DEF Part
<1> HIDE DEF t
<1>3. /\ Part(f, k, n) \in Seq(Byte) /\ Len(Part(f, k, n)) = n
      /\ \A i \in 1 .. n : Part(f, k, n)[i] = t(i)
  BY <1>1, <1>2
<1> QED
  BY <1>3 DEF t, IsPart

LEMMA JoinIs ==
  ASSUME NEW s \in Seq(Byte), NEW t \in Seq(Byte)
  PROVE  IsJoin(s \o t, s, t)
<1>1. /\ s \o t \in Seq(Byte)
      /\ Len(s \o t) = Len(s) + Len(t)
      /\ \A i \in 1 .. Len(s) + Len(t) :
           (s \o t)[i] = IF i <= Len(s) THEN s[i] ELSE t[i - Len(s)]
  BY Joined, Zenon
<1> QED
  BY <1>1, Zenon DEF IsJoin

\* The parts of a frame have as many bytes as the frame says.
LEMMA PartSizes ==
  ASSUME NEW f \in Frame
  PROVE  \E e \in 0 .. 8, m \in 0 .. 4, l \in 0 .. 255 :
           /\ e = f.ext /\ m = MaskLen(f) /\ l = f.len
           /\ Size(f) = 2 + e + m + l
<1>1. f.ext \in 0 .. 8 /\ MaskLen(f) \in 0 .. 4 /\ f.len \in 0 .. 255
  BY FrameSize
<1>2. Size(f) = 2 + f.ext + MaskLen(f) + f.len
  BY FrameSize
<1> QED
  BY <1>1, <1>2

LEMMA BytesAre ==
  ASSUME NEW f \in Frame
  PROVE  /\ Bytes(f) \in Seq(Byte) /\ Len(Bytes(f)) = Size(f)
         /\ \A j \in 1 .. Size(f) : Bytes(f)[j] = ByteOf(f, j)
<1>1. PICK e \in 0 .. 8, m \in 0 .. 4, l \in 0 .. 255 :
        /\ e = f.ext /\ m = MaskLen(f) /\ l = f.len
        /\ Size(f) = 2 + e + m + l
  BY PartSizes
<1>2. PICK p1 : p1 = Part(f, "flags", 1) /\ IsPart(p1, f, "flags", 1)
  BY PartIs
<1>3. PICK p2 : p2 = Part(f, "len0", 1) /\ IsPart(p2, f, "len0", 1)
  BY PartIs
<1>4. PICK p3 : p3 = Part(f, "ext", e) /\ IsPart(p3, f, "ext", e)
  <2>1. e \in 0 .. 256
    OBVIOUS
  <2> QED
    BY <2>1, PartIs
<1>5. PICK p4 : p4 = Part(f, "mask", m) /\ IsPart(p4, f, "mask", m)
  <2>1. m \in 0 .. 256
    OBVIOUS
  <2> QED
    BY <2>1, PartIs
<1>6. PICK p5 : p5 = Part(f, "data", l) /\ IsPart(p5, f, "data", l)
  <2>1. l \in 0 .. 256
    OBVIOUS
  <2> QED
    BY <2>1, PartIs
<1>7. PICK s2 : s2 = p1 \o p2 /\ IsJoin(s2, p1, p2)
  <2>1. p1 \in Seq(Byte) /\ p2 \in Seq(Byte)
    BY <1>2, <1>3 DEF IsPart
  <2> QED
    BY <2>1, JoinIs, Zenon
<1>8. PICK s3 : s3 = s2 \o p3 /\ IsJoin(s3, s2, p3)
  <2>1. s2 \in Seq(Byte) /\ p3 \in Seq(Byte)
    BY <1>4, <1>7 DEF IsPart, IsJoin
  <2> QED
    BY <2>1, JoinIs, Zenon
<1>9. PICK s4 : s4 = s3 \o p4 /\ IsJoin(s4, s3, p4)
  <2>1. s3 \in Seq(Byte) /\ p4 \in Seq(Byte)
    BY <1>5, <1>8 DEF IsPart, IsJoin
  <2> QED
    BY <2>1, JoinIs, Zenon
<1>10. PICK s5 : s5 = s4 \o p5 /\ IsJoin(s5, s4, p5)
  <2>1. s4 \in Seq(Byte) /\ p5 \in Seq(Byte)
    BY <1>6, <1>9 DEF IsPart, IsJoin
  <2> QED
    BY <2>1, JoinIs, Zenon
<1>20. Len(p1) = 1 /\ Len(p2) = 1 /\ Len(p3) = e /\ Len(p4) = m /\ Len(p5) = l
  BY <1>2, <1>3, <1>4, <1>5, <1>6 DEF IsPart
<1>21. Len(s2) = 2 /\ \A i \in 1 .. 2 : s2[i] = IF i <= 1 THEN p1[i] ELSE p2[i - 1]
  BY <1>7, <1>20 DEF IsJoin
<1>22. Len(s3) = 2 + e /\ \A i \in 1 .. 2 + e : s3[i] = IF i <= 2 THEN s2[i] ELSE p3[i - 2]
  BY <1>8, <1>20, <1>21 DEF IsJoin
<1>23. /\ Len(s4) = 2 + e + m
       /\ \A i \in 1 .. 2 + e + m : s4[i] = IF i <= 2 + e THEN s3[i] ELSE p4[i - (2 + e)]
  BY <1>9, <1>20, <1>22 DEF IsJoin
<1>24. /\ Len(s5) = 2 + e + m + l
       /\ \A i \in 1 .. 2 + e + m + l :
            s5[i] = IF i <= 2 + e + m THEN s4[i] ELSE p5[i - (2 + e + m)]
  BY <1>10, <1>20, <1>23 DEF IsJoin
<1>11. Bytes(f) = s5
  <2>1. Bytes(f) = (((Part(f, "flags", 1) \o Part(f, "len0", 1)) \o Part(f, "ext", e))
                    \o Part(f, "mask", m)) \o Part(f, "data", l)
    BY <1>1 DEF Bytes, MaskLen
  <2> QED
    BY <1>2, <1>3, <1>4, <1>5, <1>6, <1>7, <1>8, <1>9, <1>10, <2>1
<1>12. ASSUME NEW j \in 1 .. 2 + e + m + l PROVE s5[j] = ByteOf(f, j)
  <2>1. CASE j = 1
    <3>1. s5[j] = p1[1]
      BY <1>21, <1>22, <1>23, <1>24, <2>1
    <3>2. p1[1] = [k |-> "flags", f |-> f, n |-> 1 - 1]
      BY <1>2 DEF IsPart
    <3> QED
      BY <2>1, <3>1, <3>2 DEF ByteOf
  <2>2. CASE j = 2
    <3>1. s5[j] = p2[1]
      BY <1>21, <1>22, <1>23, <1>24, <2>2
    <3>2. p2[1] = [k |-> "len0", f |-> f, n |-> 1 - 1]
      BY <1>3 DEF IsPart
    <3> QED
      BY <2>2, <3>1, <3>2 DEF ByteOf
  <2>3. CASE j \in 3 .. 2 + e
    <3>1. s5[j] = p3[j - 2] /\ j - 2 \in 1 .. e
      BY <1>22, <1>23, <1>24, <2>3
    <3>2. p3[j - 2] = [k |-> "ext", f |-> f, n |-> (j - 2) - 1]
      BY <1>4, <3>1 DEF IsPart
    <3>3. (j - 2) - 1 = j - 3
      OBVIOUS
    <3>4. ByteOf(f, j) = [k |-> "ext", f |-> f, n |-> j - 3]
      BY <1>1, <2>3 DEF ByteOf
    <3> QED
      BY <3>1, <3>2, <3>3, <3>4
  <2>4. CASE j \in 3 + e .. 2 + e + m
    <3>1. s5[j] = p4[j - (2 + e)] /\ j - (2 + e) \in 1 .. m
      BY <1>23, <1>24, <2>4
    <3>2. p4[j - (2 + e)] = [k |-> "mask", f |-> f, n |-> (j - (2 + e)) - 1]
      BY <1>5, <3>1 DEF IsPart
    <3>3. (j - (2 + e)) - 1 = (j - 3) - e
      OBVIOUS
    <3>4. ByteOf(f, j) = [k |-> "mask", f |-> f, n |-> (j - 3) - e]
      BY <1>1, <2>4, ByteIs
    <3> QED
      BY <3>1, <3>2, <3>3, <3>4
  <2>5. CASE j > 2 + e + m
    <3>5. j - (2 + e + m) \in 1 .. l /\ ~(j <= 2 + e + m)
      BY <2>5
    <3>6. s5[j] = IF j <= 2 + e + m THEN s4[j] ELSE p5[j - (2 + e + m)]
      BY <1>24
    <3>1. s5[j] = p5[j - (2 + e + m)] /\ j - (2 + e + m) \in 1 .. l
      BY <3>5, <3>6
    <3>2. p5[j - (2 + e + m)] = [k |-> "data", f |-> f, n |-> (j - (2 + e + m)) - 1]
      BY <1>6, <3>1 DEF IsPart
    <3>3. (j - (2 + e + m)) - 1 = ((j - 3) - e) - m
      OBVIOUS
    <3>4. ByteOf(f, j) = [k |-> "data", f |-> f, n |-> ((j - 3) - e) - m]
      BY <1>1, <2>5, ByteIs
    <3> QED
      BY <3>1, <3>2, <3>3, <3>4
  <2> QED
    BY <2>1, <2>2, <2>3, <2>4, <2>5
<1> QED
  BY <1>1, <1>10, <1>11, <1>12, <1>24 DEF IsJoin

\* A byte knows its frame and its place.
LEMMA PlaceIs ==
  ASSUME NEW f \in Frame, NEW j \in 1 .. Size(f)
  PROVE  ByteOf(f, j).f = f /\ Place(ByteOf(f, j)) = j
<1>1. PICK e \in 0 .. 8, m \in 0 .. 4, l \in 0 .. 255 :
        /\ e = f.ext /\ m = MaskLen(f) /\ l = f.len
        /\ Size(f) = 2 + e + m + l
  BY PartSizes
<1>2. CASE j = 1
  BY <1>2 DEF ByteOf, Place
<1>3. CASE j = 2
  BY <1>3 DEF ByteOf, Place
<1>4. CASE j \in 3 .. 2 + e
  <2>1. ByteOf(f, j) = [k |-> "ext", f |-> f, n |-> j - 3]
    BY <1>1, <1>4 DEF ByteOf
  <2>2. ByteOf(f, j).f = f /\ Place(ByteOf(f, j)) = 3 + (j - 3)
    BY <2>1 DEF Place
  <2> QED
    BY <2>2
<1>5. CASE j \in 3 + e .. 2 + e + m
  <2>1. ByteOf(f, j) = [k |-> "mask", f |-> f, n |-> (j - 3) - e]
    BY <1>1, <1>5, ByteIs
  <2>2. ByteOf(f, j).f = f /\ Place(ByteOf(f, j)) = 3 + e + ((j - 3) - e)
    BY <1>1, <2>1 DEF Place
  <2> QED
    BY <2>2
<1>6. CASE j > 2 + e + m
  <2>1. ByteOf(f, j) = [k |-> "data", f |-> f, n |-> ((j - 3) - e) - m]
    BY <1>1, <1>6, ByteIs
  <2>2. ByteOf(f, j).f = f /\ Place(ByteOf(f, j)) = 3 + e + m + (((j - 3) - e) - m)
    BY <1>1, <2>1 DEF Place
  <2> QED
    BY <2>2
<1> QED
  BY <1>2, <1>3, <1>4, <1>5, <1>6
-----------------------------------------------------------------------------
(* Every step keeps the types and what a pong owes.                         *)

LEMMA BasicsStart == Init => Basics
<1> SUFFICES ASSUME Init
             PROVE  Basics
  OBVIOUS
<1>1. /\ conn = [c \in Conns |-> "none"] /\ llStart = Null
      /\ next = [c \in Conns |-> Null] /\ priv = [c \in Conns |-> FreshPriv]
      /\ in = [c \in Conns |-> <<>>] /\ seg = NoSeg /\ owed = [c \in Conns |-> 0]
      /\ bcast = [at |-> "idle", lw |-> Null, must |-> {}, reached |-> {}, walks |-> 0]
      /\ frames = 0 /\ fault = FALSE
  BY DEF Init
<1>2. priv \in [Conns -> Priv]
  BY <1>1, FreshType
<1>3. in \in [Conns -> Seq(Byte)]
  <2>1. <<>> \in Seq(Byte)
    BY EmptySeq
  <2> QED
    BY <1>1, <2>1
<1>4. seg \in [c : Conns \cup {Null}, header : BOOLEAN] /\ seg.c = Null
  <2>1. PICK no \in BOOLEAN : no = FALSE
    BY Zenon
  <2> QED
    BY <1>1, <2>1 DEF NoSeg
<1>5. bcast \in Bcast /\ bcast.at = "idle"
  BY <1>1, WebsocketAssumption DEF Bcast
<1>6. frames \in 0 .. MaxFrames /\ fault \in BOOLEAN
  <2>1. frames \in 0 .. MaxFrames
    BY <1>1, WebsocketAssumption
  <2>2. fault \in BOOLEAN
    BY <1>1, Zenon
  <2> QED
    BY <2>1, <2>2
<1>7. conn \in [Conns -> {"none", "open", "done", "gone"}] /\ owed \in [Conns -> Nat]
      /\ next \in [Conns -> Conns \cup {Null}]
  BY <1>1
<1>8. TypeOK
  BY <1>1, <1>2, <1>3, <1>4, <1>5, <1>6, <1>7 DEF TypeOK
<1>9. Pongs
  <2>1. ASSUME NEW c \in Conns PROVE PongOf(priv[c], owed[c])
    BY <1>1, FreshPong
  <2> QED
    BY <2>1, PongsAre
<1> QED
  BY <1>4, <1>5, <1>8, <1>9 DEF Basics, SegOpen, AtOne

LEMMA BasicsStep == Basics /\ [Next]_vars => Basics'
<1> SUFFICES ASSUME Basics, [Next]_vars
             PROVE  Basics'
  OBVIOUS
<1>1. ASSUME NEW c \in Conns, Connect(c) PROVE Basics'
  BY <1>1, ConnectKeeps
<1>2. ASSUME NEW c \in Conns, Disconnect(c) PROVE Basics'
  BY <1>2, DisconnectKeeps
<1>3. ASSUME NEW c \in Conns, Recv(c) PROVE Basics'
  BY <1>3, RecvKeeps
<1>4. ASSUME NEW c \in Conns, seg.c = c, Header(c) PROVE Basics'
  BY <1>4, HeaderKeeps
<1>5. ASSUME EndRecv PROVE Basics'
  BY <1>5, EndRecvKeeps
<1>6. ASSUME NEW c \in Conns, seg.c = c, NEW sl \in 0 .. Len(in[c]), Payload(c, sl) PROVE Basics'
  BY <1>6, PayloadKeeps
<1>7. ASSUME NEW c \in Talkers, NEW f \in Frames, SendFrame(c, f) PROVE Basics'
  <2>1. c \in Conns /\ f \in Frame
    BY WebsocketAssumption
  <2>2. Bytes(f) \in Seq(Byte)
    BY <2>1, BytesAre
  <2> QED
    BY <1>7, <2>1, <2>2, SendFrameKeeps
<1>8. ASSUME Broadcaster PROVE Basics'
  BY <1>8, BroadcasterKeeps
<1>9. CASE UNCHANGED vars
  BY <1>9 DEF vars, Basics, TypeOK, SegOpen, Pongs, AtOne
<1> QED
  BY <1>1, <1>2, <1>3, <1>4, <1>5, <1>6, <1>7, <1>8, <1>9 DEF Next, Server, Client

-----------------------------------------------------------------------------
(* The list. q lists the elements of S in the order of the pointers nx.     *)

LinkedBy(q, n, S, start, nx) ==
  /\ q \in [1 .. n -> S]
  /\ \A i, j \in 1 .. n : q[i] = q[j] => i = j
  /\ \A x \in S : \E i \in 1 .. n : q[i] = x
  /\ start = IF n = 0 THEN Null ELSE q[1]
  /\ \A i \in 1 .. n : nx[q[i]] = IF i = n THEN Null ELSE q[i + 1]

LEMMA NothingLinked ==
  ASSUME NEW n \in Nat, NEW q, NEW S, S \subseteq Conns, NEW start, NEW nx,
         LinkedBy(q, n, S, start, nx)
  PROVE  /\ start = Null <=> n = 0
         /\ n = 0 <=> S = {}
<1>1. Null \notin Conns
  BY WebsocketAssumption
<1>2. n # 0 => q[1] \in S
  <2>1. n # 0 => 1 \in 1 .. n
    OBVIOUS
  <2> QED
    BY <2>1 DEF LinkedBy
<1>3. n = 0 => S = {}
  BY DEF LinkedBy
<1> QED
  BY <1>1, <1>2, <1>3 DEF LinkedBy

LEMMA LinkFirst ==
  ASSUME NEW c \in Conns, NEW nx, nx[c] = Null
  PROVE  LinkedBy([i \in 1 .. 1 |-> c], 1, {c}, c, nx)
BY DEF LinkedBy

\* The new one behind the last one.
LEMMA LinkLast ==
  ASSUME NEW n \in Nat, n # 0, NEW q, NEW S, S \subseteq Conns, NEW start,
         NEW nx \in [Conns -> Conns \cup {Null}], NEW c \in Conns \ S, nx[c] = Null,
         LinkedBy(q, n, S, start, nx)
  PROVE  LinkedBy([i \in 1 .. n + 1 |-> IF i = n + 1 THEN c ELSE q[i]], n + 1, S \cup {c}, start,
                  [l \in Conns |-> IF l \in S /\ nx[l] = Null THEN c ELSE nx[l]])
<1> DEFINE r == [i \in 1 .. n + 1 |-> IF i = n + 1 THEN c ELSE q[i]]
           ny == [l \in Conns |-> IF l \in S /\ nx[l] = Null THEN c ELSE nx[l]]
<1>1. /\ q \in [1 .. n -> S]
      /\ \A i, j \in 1 .. n : q[i] = q[j] => i = j
      /\ \A x \in S : \E i \in 1 .. n : q[i] = x
      /\ start = q[1]
      /\ \A i \in 1 .. n : nx[q[i]] = IF i = n THEN Null ELSE q[i + 1]
  BY DEF LinkedBy
<1>2. Null \notin Conns
  BY WebsocketAssumption
<1>3. /\ \A i \in 1 .. n : r[i] = q[i] /\ r[i] \in S /\ r[i] # c
      /\ r[n + 1] = c
      /\ r \in [1 .. n + 1 -> S \cup {c}]
  BY <1>1
<1> HIDE DEF r
<1>4. ASSUME NEW i \in 1 .. n + 1, NEW j \in 1 .. n + 1, r[i] = r[j] PROVE i = j
  <2>1. i \in 1 .. n \/ i = n + 1
    OBVIOUS
  <2>2. j \in 1 .. n \/ j = n + 1
    OBVIOUS
  <2> QED
    BY <1>1, <1>3, <1>4, <2>1, <2>2
<1>5. ASSUME NEW x \in S \cup {c} PROVE \E i \in 1 .. n + 1 : r[i] = x
  <2>1. CASE x = c
    BY <1>3, <2>1
  <2>2. CASE x \in S
    <3>1. PICK i \in 1 .. n : q[i] = x
      BY <1>1, <2>2
    <3>2. i \in 1 .. n + 1 /\ r[i] = x
      BY <1>3, <3>1
    <3> QED
      BY <3>2
  <2> QED
    BY <2>1, <2>2
<1>6. start = r[1]
  BY <1>1, <1>3
<1>7. ASSUME NEW i \in 1 .. n + 1
      PROVE  ny[r[i]] = IF i = n + 1 THEN Null ELSE r[i + 1]
  <2>1. CASE i = n + 1
    BY <1>3, <2>1
  <2>2. CASE i = n
    <3>1. i \in 1 .. n /\ r[i] = q[i] /\ q[i] \in S /\ nx[q[i]] = Null /\ r[i + 1] = c /\ i # n + 1
      BY <1>1, <1>3, <2>2
    <3> QED
      BY <3>1
  <2>3. CASE i \in 1 .. n - 1
    <3>1. i \in 1 .. n /\ i + 1 \in 1 .. n /\ i # n /\ i # n + 1
      BY <2>3
    <3>2. r[i] = q[i] /\ q[i] \in S /\ nx[q[i]] = q[i + 1] /\ r[i + 1] = q[i + 1] /\ q[i + 1] \in S
      BY <1>1, <1>3, <3>1
    <3> QED
      BY <1>2, <3>1, <3>2
  <2> QED
    BY <2>1, <2>2, <2>3
<1> HIDE DEF ny
<1>8. LinkedBy(r, n + 1, S \cup {c}, start, ny)
  BY <1>3, <1>4, <1>5, <1>6, <1>7 DEF LinkedBy
<1> QED
  BY <1>8 DEF r, ny

\* What unlinking c from the list of S does.
FreedIn(S, c, start, nx, st, ny) ==
  /\ st = IF start = c THEN nx[c] ELSE start
  /\ ny = [l \in Conns |-> IF start # c /\ l \in S /\ nx[l] = c THEN nx[c] ELSE nx[l]]

\* The list without its element at place k.
LEMMA LinkLess ==
  ASSUME NEW n \in Nat, NEW q, NEW S, S \subseteq Conns, NEW start,
         NEW nx \in [Conns -> Conns \cup {Null}], LinkedBy(q, n, S, start, nx),
         NEW k \in 1 .. n, NEW st, NEW ny, FreedIn(S, q[k], start, nx, st, ny)
  PROVE  \E r : LinkedBy(r, n - 1, S \ {q[k]}, st, ny)
<1> DEFINE r == [i \in 1 .. n - 1 |-> IF i < k THEN q[i] ELSE q[i + 1]]
<1>0. /\ st = IF start = q[k] THEN nx[q[k]] ELSE start
      /\ \A l \in Conns : ny[l] = IF start # q[k] /\ l \in S /\ nx[l] = q[k]
                                  THEN nx[q[k]] ELSE nx[l]
  BY DEF FreedIn
<1>1. /\ q \in [1 .. n -> S]
      /\ \A i, j \in 1 .. n : q[i] = q[j] => i = j
      /\ \A x \in S : \E i \in 1 .. n : q[i] = x
      /\ start = q[1]
      /\ \A i \in 1 .. n : nx[q[i]] = IF i = n THEN Null ELSE q[i + 1]
  BY DEF LinkedBy
<1>2. Null \notin S
  BY WebsocketAssumption
<1>3. start = q[k] <=> k = 1
  BY <1>1
<1>4. /\ \A i \in 1 .. n - 1 : i < k => r[i] = q[i]
      /\ \A i \in 1 .. n - 1 : ~(i < k) => r[i] = q[i + 1]
  OBVIOUS
<1>5. r \in [1 .. n - 1 -> S \ {q[k]}]
  <2>1. ASSUME NEW i \in 1 .. n - 1 PROVE r[i] \in S \ {q[k]}
    <3>1. i \in 1 .. n /\ i + 1 \in 1 .. n
      OBVIOUS
    <3>2. CASE i < k
      <4>1. i # k
        BY <3>2
      <4> QED
        BY <1>1, <1>4, <3>1, <3>2, <4>1
    <3>3. CASE ~(i < k)
      <4>1. i + 1 # k
        BY <3>3
      <4> QED
        BY <1>1, <1>4, <3>1, <3>3, <4>1
    <3> QED
      BY <3>2, <3>3
  <2> QED
    BY <2>1
<1> HIDE DEF r
<1>6. ASSUME NEW i \in 1 .. n - 1, NEW j \in 1 .. n - 1, r[i] = r[j] PROVE i = j
  <2>1. PICK a \in 1 .. n : a = (IF i < k THEN i ELSE i + 1) /\ r[i] = q[a]
    BY <1>4
  <2>2. PICK b \in 1 .. n : b = (IF j < k THEN j ELSE j + 1) /\ r[j] = q[b]
    BY <1>4
  <2>3. q[a] = q[b]
    BY <1>6, <2>1, <2>2
  <2>4. a = b
    BY <1>1, <2>3
  <2> QED
    BY <2>1, <2>2, <2>4
<1>7. ASSUME NEW x \in S \ {q[k]} PROVE \E i \in 1 .. n - 1 : r[i] = x
  <2>1. PICK a \in 1 .. n : q[a] = x
    BY <1>1
  <2>2. a # k
    BY <2>1
  <2>3. CASE a < k
    <3>1. a \in 1 .. n - 1
      BY <2>3
    <3> QED
      BY <1>4, <2>1, <2>3, <3>1
  <2>4. CASE a > k
    <3>1. PICK i \in 1 .. n - 1 : a = i + 1 /\ ~(i < k)
      <4>1. a - 1 \in 1 .. n - 1 /\ ~(a - 1 < k) /\ a = (a - 1) + 1
        BY <2>4
      <4> QED
        BY <4>1
    <3> QED
      BY <1>4, <2>1, <3>1
  <2> QED
    BY <2>2, <2>3, <2>4
<1>8. st = IF n - 1 = 0 THEN Null ELSE r[1]
  <2>1. CASE n = 1
    <3>1. k = 1
      BY <2>1
    <3> QED
      BY <1>0, <1>1, <1>3, <2>1, <3>1
  <2>2. CASE n > 1 /\ k = 1
    <3>1. 1 \in 1 .. n - 1 /\ 1 \in 1 .. n /\ ~(1 < k) /\ 1 # n
      BY <2>2
    <3>2. r[1] = q[2] /\ nx[q[1]] = q[2]
      BY <1>1, <1>4, <3>1
    <3> QED
      BY <1>0, <1>3, <2>2, <3>2
  <2>3. CASE n > 1 /\ k # 1
    <3>1. 1 \in 1 .. n - 1 /\ 1 < k
      BY <2>3
    <3> QED
      BY <1>0, <1>1, <1>3, <1>4, <2>3, <3>1
  <2> QED
    BY <2>1, <2>2, <2>3
<1>9. ASSUME NEW i \in 1 .. n - 1
      PROVE  ny[r[i]] = IF i = n - 1 THEN Null ELSE r[i + 1]
  <2>1. PICK a \in 1 .. n : a = (IF i < k THEN i ELSE i + 1) /\ r[i] = q[a]
    BY <1>4
  <2>2. q[a] \in S /\ q[a] \in Conns /\ q[k] \in S
    BY <1>1
  <2>3. nx[q[a]] = IF a = n THEN Null ELSE q[a + 1]
    BY <1>1
  <2>4. CASE a + 1 = k
    <3>1. i + 1 = k /\ a = i /\ start # q[k] /\ a # n
      BY <1>3, <2>1, <2>4
    <3>2. nx[q[a]] = q[k]
      BY <2>3, <2>4, <3>1
    <3>3. ny[q[a]] = nx[q[k]]
      BY <1>0, <2>2, <3>1, <3>2
    <3>4. nx[q[k]] = IF k = n THEN Null ELSE q[k + 1]
      BY <1>1
    <3>5. i # n - 1 => i + 1 \in 1 .. n - 1 /\ ~(i + 1 < k) /\ (i + 1) + 1 = k + 1
      BY <3>1
    <3>6. i # n - 1 => r[i + 1] = q[k + 1]
      BY <1>4, <3>5
    <3>7. (k = n) <=> (i = n - 1)
      BY <3>1
    <3> QED
      BY <2>1, <3>3, <3>4, <3>6, <3>7
  <2>5. CASE a + 1 # k
    <3>1. nx[q[a]] # q[k]
      <4>1. CASE a = n
        BY <1>2, <2>2, <2>3, <4>1
      <4>2. CASE a # n
        <5>1. a + 1 \in 1 .. n
          BY <4>2
        <5> QED
          BY <1>1, <2>3, <2>5, <4>2, <5>1
      <4> QED
        BY <4>1, <4>2
    <3>2. ny[q[a]] = nx[q[a]]
      BY <1>0, <2>2, <3>1
    <3>3. CASE i = n - 1
      <4>1. a = n
        BY <2>1, <2>5, <3>3
      <4> QED
        BY <2>1, <2>3, <3>2, <3>3, <4>1
    <3>4. CASE i # n - 1
      <4>1. i + 1 \in 1 .. n - 1 /\ a # n
        BY <2>1, <3>4
      <4>2. r[i + 1] = q[a + 1]
        <5>1. CASE i < k
          <6>1. a = i /\ i + 1 < k
            BY <2>1, <2>5, <5>1
          <6> QED
            BY <1>4, <4>1, <6>1
        <5>2. CASE ~(i < k)
          <6>1. a = i + 1 /\ ~(i + 1 < k)
            BY <2>1, <5>2
          <6> QED
            BY <1>4, <4>1, <6>1
        <5> QED
          BY <5>1, <5>2
      <4> QED
        BY <2>1, <2>3, <3>2, <3>4, <4>1, <4>2
    <3> QED
      BY <3>3, <3>4
  <2> QED
    BY <2>4, <2>5
<1>10. LinkedBy(r, n - 1, S \ {q[k]}, st, ny)
  BY <1>5, <1>6, <1>7, <1>8, <1>9 DEF LinkedBy
<1> QED
  BY <1>10

LEMMA LinkFree ==
  ASSUME NEW n \in Nat, NEW q, NEW S, S \subseteq Conns, NEW start,
         NEW nx \in [Conns -> Conns \cup {Null}], LinkedBy(q, n, S, start, nx),
         NEW c \in S, NEW st, NEW ny, FreedIn(S, c, start, nx, st, ny)
  PROVE  \E m \in Nat : \E r : LinkedBy(r, m, S \ {c}, st, ny)
<1>1. PICK k \in 1 .. n : q[k] = c
  BY DEF LinkedBy
<1>2. FreedIn(S, q[k], start, nx, st, ny)
  BY <1>1
<1>3. \E r : LinkedBy(r, n - 1, S \ {q[k]}, st, ny)
  BY <1>2, LinkLess, Zenon
<1>4. n - 1 \in Nat
  BY <1>1
<1> QED
  BY <1>1, <1>3, <1>4

\* Whoever follows the pointers nx stays in R.
Closed(R, nx) == \A x \in R : nx[x] \in R \cup {Null}

\* Whoever follows them from the start meets all of S.
Reached(S, start, nx) ==
  \A R \in SUBSET Conns : Closed(R, nx) /\ (start = Null \/ start \in R) => S \subseteq R

Unused == \A c \in Conns : conn[c] = "none" => next[c] = Null

Chained == \E n \in Nat : \E q : LinkedBy(q, n, Open, llStart, next)

Lists == Unused /\ Chained /\ Reached(Open, llStart, next)

LEMMA OpenIs == Open \subseteq Conns /\ Open' \subseteq Conns
BY DEF Open

\* A set that is closed once a pointer at the end leads to a new websocket was closed
\* before.
LEMMA ClosedBeforeAppend ==
  ASSUME NEW nx, NEW S, NEW c \in Conns, NEW R \in SUBSET Conns,
         Closed(R, [l \in Conns |-> IF l \in S /\ nx[l] = Null THEN c ELSE nx[l]])
  PROVE  Closed(R, nx)
BY DEF Closed

\* And what it was before one is unlinked.
Bypassed(c, nx, ny) == \A x \in Conns : ny[x] = nx[x] \/ (nx[x] = c /\ ny[x] = nx[c])
Widened(Q, R, c, nx) ==
  /\ Q \subseteq Conns /\ Closed(Q, nx) /\ R \subseteq Q /\ Q \subseteq R \cup {c}
  /\ nx[c] \in R \cup {Null} => c \in Q
LEMMA ClosedBeforeFree ==
  ASSUME NEW nx, NEW ny, NEW c \in Conns, NEW R, R \subseteq Conns, Closed(R, ny),
         Bypassed(c, nx, ny)
  PROVE  \E Q : Widened(Q, R, c, nx)
<1> USE DEF Bypassed, Widened
<1>1. CASE nx[c] \in R \cup {Null}
  <2>1. Closed(R \cup {c}, nx)
    BY <1>1 DEF Closed
  <2>2. R \cup {c} \subseteq Conns
    OBVIOUS
  <2> QED
    BY <2>1, <2>2
<1>2. CASE ~(nx[c] \in R \cup {Null})
  <2>1. Closed(R, nx)
    BY <1>2 DEF Closed
  <2> QED
    BY <1>2, <2>1
<1> QED
  BY <1>1, <1>2

LEMMA ConnectLists ==
  ASSUME Basics, Lists, NEW c \in Conns, Connect(c)
  PROVE  Lists'
<1>1. /\ conn[c] = "none" /\ conn' = [conn EXCEPT ![c] = "open"]
      /\ llStart = Null => llStart' = c /\ next' = next
      /\ llStart # Null =>
           /\ next' = [l \in Conns |-> IF l \in Open /\ next[l] = Null THEN c ELSE next[l]]
           /\ llStart' = llStart
  BY DEF Connect
<1>2. /\ conn \in [Conns -> {"none", "open", "done", "gone"}]
      /\ next \in [Conns -> Conns \cup {Null}] /\ llStart \in Conns \cup {Null}
  BY DEF Basics, TypeOK
<1>3. Unused /\ Chained /\ Reached(Open, llStart, next)
  BY DEF Lists
<1>4. Open' = Open \cup {c} /\ c \in Conns \ Open
  BY <1>1, <1>2 DEF Open
<1>5. next[c] = Null
  BY <1>1, <1>3 DEF Unused
<1>6a. PICK n \in Nat : \E q : LinkedBy(q, n, Open, llStart, next)
  BY <1>3 DEF Chained
<1>6. PICK q : LinkedBy(q, n, Open, llStart, next)
  BY <1>6a
<1>7. (llStart = Null <=> n = 0) /\ (n = 0 <=> Open = {})
  BY <1>6, NothingLinked, OpenIs
<1>8. Unused'
  <2>1. ASSUME NEW d \in Conns, conn'[d] = "none" PROVE next'[d] = Null
    <3>1. conn[d] = "none" /\ d # c /\ d \notin Open
      BY <1>1, <1>2, <2>1 DEF Open
    <3>2. next[d] = Null
      BY <1>3, <3>1 DEF Unused
    <3> QED
      BY <1>1, <3>1, <3>2
  <2> QED
    BY <2>1 DEF Unused
<1>9. CASE llStart = Null
  <2>1. Open' = {c} /\ llStart' = c /\ next' = next
    BY <1>1, <1>4, <1>7, <1>9
  <2>2. LinkedBy([i \in 1 .. 1 |-> c], 1, {c}, c, next)
    BY <1>5, LinkFirst
  <2>3. LinkedBy([i \in 1 .. 1 |-> c], 1, Open', llStart', next') /\ 1 \in Nat
    BY <2>1, <2>2
  <2>4. Chained'
    BY <2>3 DEF Chained
  <2>5. Reached(Open', llStart', next')
    BY <1>2, <2>1, WebsocketAssumption DEF Reached
  <2>6. Reached(Open, llStart, next)'
    BY <2>5 DEF Reached, Closed
  <2> QED
    BY <1>8, <2>4, <2>6 DEF Lists
<1>10. CASE llStart # Null
  <2>1. n # 0 /\ llStart' = llStart
    BY <1>1, <1>7, <1>10
  <2>2. LinkedBy([i \in 1 .. n + 1 |-> IF i = n + 1 THEN c ELSE q[i]], n + 1, Open \cup {c}, llStart,
                 [l \in Conns |-> IF l \in Open /\ next[l] = Null THEN c ELSE next[l]])
    BY <1>2, <1>4, <1>5, <1>6, <2>1, LinkLast, OpenIs
  <2>3. LinkedBy([i \in 1 .. n + 1 |-> IF i = n + 1 THEN c ELSE q[i]], n + 1, Open', llStart', next')
    BY <1>1, <1>4, <1>10, <2>2
  <2>4. n + 1 \in Nat
    OBVIOUS
  <2>5. Chained'
    BY <2>3, <2>4 DEF Chained
  <2>6. ASSUME NEW R \in SUBSET Conns, Closed(R, next'), llStart' = Null \/ llStart' \in R
        PROVE  Open' \subseteq R
    <3>1. Closed(R, next)
      BY <1>1, <1>10, <2>6, ClosedBeforeAppend
    <3>2. Open \subseteq R
      BY <1>3, <2>1, <2>6, <3>1 DEF Reached
    <3>3. n \in 1 .. n /\ q[n] \in Open /\ next[q[n]] = Null
      BY <1>6, <2>1 DEF LinkedBy
    <3>4. next'[q[n]] = c
      BY <1>1, <1>10, <3>3, OpenIs
    <3>5. c \in R
      BY <2>6, <3>2, <3>3, <3>4, WebsocketAssumption DEF Closed
    <3> QED
      BY <1>4, <3>2, <3>5
  <2>7. Reached(Open, llStart, next)'
    BY <2>6 DEF Reached, Closed
  <2> QED
    BY <1>8, <2>5, <2>7 DEF Lists
<1> QED
  BY <1>9, <1>10

\* A websocket that is open is unlinked.
LEMMA FreeLists ==
  ASSUME Basics, Lists, NEW c \in Open, websockFree(c), NEW to \in {"done", "gone"},
         conn' = [conn EXCEPT ![c] = to]
  PROVE  Lists'
<1>1. /\ conn \in [Conns -> {"none", "open", "done", "gone"}]
      /\ next \in [Conns -> Conns \cup {Null}] /\ llStart \in Conns \cup {Null}
  BY DEF Basics, TypeOK
<1>2. Unused /\ Chained /\ Reached(Open, llStart, next)
  BY DEF Lists
<1>3. c \in Conns /\ Open' = Open \ {c}
  BY <1>1 DEF Open
<1>4. /\ llStart' = IF llStart = c THEN next[c] ELSE llStart
      /\ next' = [l \in Conns |-> IF llStart # c /\ l \in Open /\ next[l] = c
                                  THEN next[c] ELSE next[l]]
  BY DEF websockFree
<1>5. Unused'
  <2>1. ASSUME NEW d \in Conns, conn'[d] = "none" PROVE next'[d] = Null
    <3>1. conn[d] = "none" /\ d \notin Open
      BY <1>1, <2>1 DEF Open
    <3>2. next[d] = Null
      BY <1>2, <3>1 DEF Unused
    <3> QED
      BY <1>4, <3>1, <3>2
  <2> QED
    BY <2>1 DEF Unused
<1>6a. PICK n \in Nat : \E q : LinkedBy(q, n, Open, llStart, next)
  BY <1>2 DEF Chained
<1>6. PICK q : LinkedBy(q, n, Open, llStart, next)
  BY <1>6a
<1>7a. PICK m \in Nat : \E r : LinkedBy(r, m, Open \ {c}, llStart', next')
  <2>1. Open \subseteq Conns
    BY OpenIs
  <2>2. FreedIn(Open, c, llStart, next, llStart', next')
    BY <1>4 DEF FreedIn
  <2> QED
    BY <1>1, <1>6, <2>1, <2>2, LinkFree, Zenon
<1>7. PICK r : LinkedBy(r, m, Open \ {c}, llStart', next')
  BY <1>7a
<1>8. LinkedBy(r, m, Open', llStart', next')
  BY <1>3, <1>7
<1>9. Chained'
  BY <1>8 DEF Chained
<1>11. ASSUME NEW R \in SUBSET Conns, Closed(R, next'), llStart' = Null \/ llStart' \in R
       PROVE  Open' \subseteq R
  <2>1. Bypassed(c, next, next') /\ R \subseteq Conns /\ c \in Conns
    BY <1>3, <1>4 DEF Bypassed
  <2>2. PICK Q : Widened(Q, R, c, next)
    BY <1>11, <2>1, ClosedBeforeFree, Zenon
  <2>3. llStart = Null \/ llStart \in Q
    BY <1>4, <1>11, <2>2 DEF Widened
  <2>4. Open \subseteq Q
    BY <1>2, <2>2, <2>3 DEF Reached, Widened
  <2> QED
    BY <1>3, <2>2, <2>4 DEF Widened
<1>12. Reached(Open, llStart, next)'
  BY <1>11 DEF Reached, Closed
<1> QED
  BY <1>5, <1>9, <1>12 DEF Lists

\* A connection that is no websocket any more.
LEMMA GoneLists ==
  ASSUME Basics, Lists, NEW c \in Conns, conn[c] = "done", conn' = [conn EXCEPT ![c] = "gone"],
         llStart' = llStart, next' = next
  PROVE  Lists'
<1>1. conn \in [Conns -> {"none", "open", "done", "gone"}]
  BY DEF Basics, TypeOK
<1>2. Open' = Open /\ \A d \in Conns : conn'[d] = "none" => conn[d] = "none"
  BY <1>1 DEF Open
<1>3. Unused'
  BY <1>2 DEF Lists, Unused
<1>4. Chained'
  <2>1a. PICK n \in Nat : \E q : LinkedBy(q, n, Open, llStart, next)
    BY DEF Lists, Chained
  <2>1. PICK q : LinkedBy(q, n, Open, llStart, next)
    BY <2>1a
  <2>2. LinkedBy(q, n, Open', llStart', next')
    BY <1>2, <2>1
  <2> QED
    BY <2>2 DEF Chained
<1>5. Reached(Open', llStart', next')
  BY <1>2 DEF Lists
<1>6. Reached(Open, llStart, next)'
  BY <1>5 DEF Reached, Closed
<1> QED
  BY <1>3, <1>4, <1>6 DEF Lists

LEMMA SameLists ==
  ASSUME Lists, conn' = conn, llStart' = llStart, next' = next
  PROVE  Lists'
<1>1. Open' = Open
  BY DEF Open
<1>2. Unused'
  BY DEF Lists, Unused
<1>3. Chained'
  <2>1a. PICK n \in Nat : \E q : LinkedBy(q, n, Open, llStart, next)
    BY DEF Lists, Chained
  <2>1. PICK q : LinkedBy(q, n, Open, llStart, next)
    BY <2>1a
  <2>2. LinkedBy(q, n, Open', llStart', next')
    BY <1>1, <2>1
  <2> QED
    BY <2>2 DEF Chained
<1>4. Reached(Open', llStart', next')
  BY <1>1 DEF Lists
<1>5. Reached(Open, llStart, next)'
  BY <1>4 DEF Reached, Closed
<1> QED
  BY <1>2, <1>3, <1>5 DEF Lists

\* The websockets that can change the list: those that are freed are open.
LEMMA ListsStep == Basics /\ Lists /\ [Next]_vars => Lists'
<1> SUFFICES ASSUME Basics, Lists, [Next]_vars
             PROVE  Lists'
  OBVIOUS
<1>1. ASSUME NEW c \in Conns, Connect(c) PROVE Lists'
  BY <1>1, ConnectLists
<1>2. ASSUME NEW c \in Conns, Disconnect(c) PROVE Lists'
  <2>1. conn' = [conn EXCEPT ![c] = "gone"]
    BY <1>2 DEF Disconnect
  <2>2. CASE conn[c] = "open"
    <3>1. websockFree(c) /\ c \in Open
      BY <1>2, <2>2 DEF Disconnect, Open
    <3> QED
      BY <2>1, <3>1, FreeLists
  <2>3. CASE conn[c] # "open"
    <3>1. conn[c] = "done" /\ llStart' = llStart /\ next' = next
      BY <1>2, <2>3 DEF Disconnect
    <3> QED
      BY <2>1, <3>1, GoneLists
  <2> QED
    BY <2>2, <2>3
<1>3. ASSUME NEW c \in Conns, Recv(c) PROVE Lists'
  BY <1>3, SameLists DEF Recv
<1>4. ASSUME NEW c \in Conns, seg.c = c, Header(c) PROVE Lists'
  BY <1>4, SameLists DEF Header
<1>5. ASSUME EndRecv PROVE Lists'
  BY <1>5, SameLists DEF EndRecv
<1>6. ASSUME NEW c \in Conns, seg.c = c, NEW sl \in 0 .. Len(in[c]), Payload(c, sl) PROVE Lists'
  <2>1. CASE Done(c)
    <3>1. websockFree(c) /\ conn' = [conn EXCEPT ![c] = "done"]
      BY <2>1 DEF Done
    <3>2. c \in Open
      BY <1>6, WebsocketAssumption DEF Basics, SegOpen, Open
    <3> QED
      BY <3>1, <3>2, FreeLists
  <2>2. CASE ~Done(c)
    <3>1. conn' = conn /\ llStart' = llStart /\ next' = next
      BY <1>6, <2>2 DEF Payload
    <3> QED
      BY <3>1, SameLists
  <2> QED
    BY <2>1, <2>2
<1>7. ASSUME NEW c \in Talkers, NEW f \in Frames, SendFrame(c, f) PROVE Lists'
  BY <1>7, SameLists DEF SendFrame
<1>8. ASSUME Broadcaster PROVE Lists'
  BY <1>8, SameLists DEF Broadcaster, Start, Check, Send, GoOn
<1>9. CASE UNCHANGED vars
  BY <1>9, SameLists DEF vars
<1> QED
  BY <1>1, <1>2, <1>3, <1>4, <1>5, <1>6, <1>7, <1>8, <1>9 DEF Next, Server, Client

LEMMA ListsStart == Init => Lists
<1> SUFFICES ASSUME Init
             PROVE  Lists
  OBVIOUS
<1>1. /\ conn = [c \in Conns |-> "none"] /\ llStart = Null /\ next = [c \in Conns |-> Null]
      /\ Open = {}
  BY DEF Init, Open
<1>2. Unused
  BY <1>1 DEF Unused
<1>3. Chained
  <2>1. 1 .. 0 = {}
    OBVIOUS
  <2>2. [i \in {} |-> Null] \in [{} -> {}]
    OBVIOUS
  <2>3. LinkedBy([i \in {} |-> Null], 0, Open, llStart, next)
    BY <1>1, <2>1, <2>2 DEF LinkedBy
  <2> QED
    BY <2>3 DEF Chained
<1>4. Reached(Open, llStart, next)
  BY <1>1 DEF Reached
<1> QED
  BY <1>2, <1>3, <1>4 DEF Lists

-----------------------------------------------------------------------------
(* The broadcast.                                                           *)

\* What the broadcaster still has to send to lies ahead of it, whichever websockets,
\* even its own, are freed.
Walks ==
  /\ bcast.must \subseteq Open \cap Resource
  /\ bcast.at = "idle" => bcast.must \subseteq bcast.reached
  /\ bcast.at = "next" => bcast.lw \in bcast.reached \/ bcast.lw \notin Resource
  /\ bcast.at # "idle" => Reached(bcast.must \ bcast.reached, bcast.lw, next)

LEMMA AheadAppend ==
  ASSUME NEW S, NEW lw, NEW nx, Reached(S, lw, nx), NEW T, NEW c \in Conns
  PROVE  Reached(S, lw, [l \in Conns |-> IF l \in T /\ nx[l] = Null THEN c ELSE nx[l]])
<1>1. ASSUME NEW R \in SUBSET Conns,
             Closed(R, [l \in Conns |-> IF l \in T /\ nx[l] = Null THEN c ELSE nx[l]]),
             lw = Null \/ lw \in R
      PROVE  S \subseteq R
  <2>1. Closed(R, nx)
    BY <1>1, ClosedBeforeAppend
  <2> QED
    BY <1>1, <2>1 DEF Reached
<1> QED
  BY <1>1 DEF Reached

LEMMA AheadFree ==
  ASSUME NEW S, NEW lw, NEW nx, Reached(S, lw, nx), NEW c \in Conns, NEW ny,
         Bypassed(c, nx, ny)
  PROVE  Reached(S \ {c}, lw, ny)
<1>1. ASSUME NEW R \in SUBSET Conns, Closed(R, ny), lw = Null \/ lw \in R
      PROVE  S \ {c} \subseteq R
  <2>1. R \subseteq Conns
    OBVIOUS
  <2>2. PICK Q : Widened(Q, R, c, nx)
    BY <1>1, <2>1, ClosedBeforeFree, Zenon
  <2>3. Q \in SUBSET Conns /\ Closed(Q, nx) /\ (lw = Null \/ lw \in Q) /\ Q \subseteq R \cup {c}
    BY <1>1, <2>2 DEF Widened
  <2>4. S \subseteq Q
    BY <2>3 DEF Reached
  <2> QED
    BY <2>3, <2>4
<1> QED
  BY <1>1 DEF Reached

LEMMA ConnectWalks ==
  ASSUME Basics, Walks, NEW c \in Conns, Connect(c)
  PROVE  Walks'
<1>1. /\ conn[c] = "none" /\ conn' = [conn EXCEPT ![c] = "open"] /\ bcast' = bcast
      /\ next' = next
         \/ next' = [l \in Conns |-> IF l \in Open /\ next[l] = Null THEN c ELSE next[l]]
  BY DEF Connect
<1>2. Open \subseteq Open'
  BY <1>1 DEF Open, Basics, TypeOK
<1>3. bcast.at # "idle" => Reached(bcast.must \ bcast.reached, bcast.lw, next')
  BY <1>1, AheadAppend DEF Walks
<1>4. (bcast.at # "idle" => Reached(bcast.must \ bcast.reached, bcast.lw, next))'
  BY <1>1, <1>3 DEF Reached, Closed
<1> QED
  BY <1>1, <1>2, <1>4 DEF Walks

\* A websocket that is freed, or gone, need not be reached.
LEMMA LossWalks ==
  ASSUME Basics, Walks, NEW c \in Conns, NEW to \in {"done", "gone"},
         conn' = [conn EXCEPT ![c] = to], websockFree(c) \/ next' = next,
         bcast' = [bcast EXCEPT !.must = @ \ {c}]
  PROVE  Walks'
<1>1. /\ bcast'.must = bcast.must \ {c}
      /\ bcast'.at = bcast.at /\ bcast'.lw = bcast.lw /\ bcast'.reached = bcast.reached
  BY LessMust DEF Basics
<1>2. Open \ {c} \subseteq Open'
  BY DEF Open, Basics, TypeOK
<1>3. Bypassed(c, next, next')
  BY DEF Bypassed, websockFree
<1>4. bcast.at # "idle" => Reached((bcast.must \ bcast.reached) \ {c}, bcast.lw, next')
  BY <1>3, AheadFree DEF Walks
<1>5. (bcast.must \ bcast.reached) \ {c} = bcast'.must \ bcast'.reached
  BY <1>1
<1>6. (bcast.at # "idle" => Reached(bcast.must \ bcast.reached, bcast.lw, next))'
  BY <1>1, <1>4, <1>5 DEF Reached, Closed
<1> QED
  BY <1>1, <1>2, <1>6 DEF Walks

LEMMA SameWalks ==
  ASSUME Walks, conn' = conn, next' = next, bcast' = bcast
  PROVE  Walks'
<1>1. Open' = Open
  BY DEF Open
<1>2. (bcast.at # "idle" => Reached(bcast.must \ bcast.reached, bcast.lw, next))'
  BY DEF Walks, Reached, Closed
<1> QED
  BY <1>1, <1>2 DEF Walks

LEMMA BroadcasterWalks ==
  ASSUME Basics, Lists, Walks, Broadcaster
  PROVE  Walks'
<1>1. conn' = conn /\ next' = next /\ Open' = Open
  BY DEF Broadcaster, Start, Check, Send, GoOn, Open
<1>2. bcast \in Bcast /\ (bcast.at # "idle" => bcast.lw \in Conns)
  BY DEF Basics, TypeOK, AtOne, Bcast
<1>3. ASSUME bcast'.must \subseteq Open \cap Resource,
             bcast'.at = "idle" => bcast'.must \subseteq bcast'.reached,
             bcast'.at = "next" => bcast'.lw \in bcast'.reached \/ bcast'.lw \notin Resource,
             bcast'.at # "idle" => Reached(bcast'.must \ bcast'.reached, bcast'.lw, next)
      PROVE  Walks'
  <2>1. (bcast.at # "idle" => Reached(bcast.must \ bcast.reached, bcast.lw, next))'
    BY <1>1, <1>3 DEF Reached, Closed
  <2> QED
    BY <1>1, <1>3, <2>1 DEF Walks
<1>4. CASE Start
  <2>1. /\ bcast'.at = "check" /\ bcast'.lw = llStart /\ bcast'.must = Open \cap Resource
        /\ bcast'.reached = {}
    BY <1>4 DEF Start
  <2>2. Reached(Open \cap Resource, llStart, next)
    BY DEF Lists, Reached
  <2>3. bcast'.must \ bcast'.reached = Open \cap Resource
    BY <2>1
  <2> QED
    BY <1>3, <2>1, <2>2, <2>3
<1>5. CASE Check
  <2>1. PICK at : at = IF bcast.lw \in Resource THEN "send" ELSE "next"
    OBVIOUS
  <2>2. bcast.at # "idle" /\ bcast' = [bcast EXCEPT !.at = at]
    BY <1>5, <2>1 DEF Check
  <2>3. /\ bcast'.at = at /\ bcast'.lw = bcast.lw /\ bcast'.must = bcast.must
        /\ bcast'.reached = bcast.reached
    BY <1>2, <2>2 DEF Bcast
  <2> QED
    BY <1>3, <2>1, <2>2, <2>3 DEF Walks
<1>6. CASE Send
  <2>1. PICK S : S = bcast.reached \cup {bcast.lw}
    OBVIOUS
  <2>2. bcast.at # "idle" /\ bcast' = [bcast EXCEPT !.at = "next", !.reached = S]
    BY <1>6, <2>1 DEF Send
  <2>3. /\ bcast'.at = "next" /\ bcast'.lw = bcast.lw /\ bcast'.must = bcast.must
        /\ bcast'.reached = S
    BY <1>2, <2>2 DEF Bcast
  <2>4. Reached(bcast.must \ S, bcast.lw, next)
    BY <2>1, <2>2 DEF Walks, Reached
  <2> QED
    BY <1>3, <2>1, <2>3, <2>4 DEF Walks
<1>7. CASE GoOn
  <2>1. PICK lw, at : lw = next[bcast.lw] /\ at = IF lw = Null THEN "idle" ELSE "check"
    OBVIOUS
  <2>2. bcast.at = "next" /\ bcast' = [bcast EXCEPT !.lw = lw, !.at = at]
    BY <1>7, <2>1 DEF GoOn, Walk
  <2>3. /\ bcast'.at = at /\ bcast'.lw = lw /\ bcast'.must = bcast.must
        /\ bcast'.reached = bcast.reached
    BY <1>2, <2>2 DEF Bcast
  <2>4. bcast.lw \in Conns /\ bcast.lw \notin bcast.must \ bcast.reached
    BY <1>2, <2>2 DEF Walks
  <2>5. ASSUME NEW R \in SUBSET Conns, Closed(R, next), lw = Null \/ lw \in R
        PROVE  bcast.must \ bcast.reached \subseteq R
    <3>1. Closed(R \cup {bcast.lw}, next) /\ R \cup {bcast.lw} \in SUBSET Conns
      BY <2>1, <2>4, <2>5 DEF Closed
    <3>2. bcast.must \ bcast.reached \subseteq R \cup {bcast.lw}
      BY <2>2, <3>1 DEF Walks, Reached
    <3> QED
      BY <2>4, <3>2
  <2>6. Reached(bcast.must \ bcast.reached, lw, next)
    BY <2>5 DEF Reached
  <2>7. lw = Null => bcast.must \subseteq bcast.reached
    <3>1. Closed({}, next) /\ {} \in SUBSET Conns
      BY DEF Closed
    <3> QED
      BY <2>5, <3>1
  <2> QED
    BY <1>3, <2>1, <2>3, <2>6, <2>7 DEF Walks
<1> QED
  BY <1>4, <1>5, <1>6, <1>7 DEF Broadcaster

LEMMA WalksStep == Basics /\ Lists /\ Walks /\ [Next]_vars => Walks'
<1> SUFFICES ASSUME Basics, Lists, Walks, [Next]_vars
             PROVE  Walks'
  OBVIOUS
<1>1. ASSUME NEW c \in Conns, Connect(c) PROVE Walks'
  BY <1>1, ConnectWalks
<1>2. ASSUME NEW c \in Conns, Disconnect(c) PROVE Walks'
  BY <1>2, LossWalks DEF Disconnect
<1>3. ASSUME NEW c \in Conns, Recv(c) PROVE Walks'
  BY <1>3, SameWalks DEF Recv
<1>4. ASSUME NEW c \in Conns, seg.c = c, Header(c) PROVE Walks'
  BY <1>4, SameWalks DEF Header
<1>5. ASSUME EndRecv PROVE Walks'
  BY <1>5, SameWalks DEF EndRecv
<1>6. ASSUME NEW c \in Conns, seg.c = c, NEW sl \in 0 .. Len(in[c]), Payload(c, sl) PROVE Walks'
  <2>1. CASE Done(c)
    BY <2>1, LossWalks DEF Done
  <2>2. CASE ~Done(c)
    BY <1>6, <2>2, SameWalks DEF Payload
  <2> QED
    BY <2>1, <2>2
<1>7. ASSUME NEW c \in Talkers, NEW f \in Frames, SendFrame(c, f) PROVE Walks'
  BY <1>7, SameWalks DEF SendFrame
<1>8. ASSUME Broadcaster PROVE Walks'
  BY <1>8, BroadcasterWalks
<1>9. CASE UNCHANGED vars
  BY <1>9, SameWalks DEF vars
<1> QED
  BY <1>1, <1>2, <1>3, <1>4, <1>5, <1>6, <1>7, <1>8, <1>9 DEF Next, Server, Client

LEMMA WalksStart == Init => Walks
BY DEF Init, Walks

-----------------------------------------------------------------------------
(* Streams of whole frames, of whose first the beginning may have been read. *)

\* What comes after the byte at i, which is at place j of f: the rest of f, then another
\* frame.
FollowedBy(s, i, f, j) ==
  /\ i + (Size(f) - j) <= Len(s)
  /\ \A m \in 1 .. Size(f) - j : s[i + m] = ByteOf(f, j + m)
  /\ i + (Size(f) - j) < Len(s) => Place(s[i + (Size(f) - j) + 1]) = 1

WholeAt(s, i) ==
  \E f \in Frame : \E j \in 1 .. Size(f) : s[i] = ByteOf(f, j) /\ FollowedBy(s, i, f, j)

Whole(s) == \A i \in 1 .. Len(s) : WholeAt(s, i)

\* t is s without its first n bytes.
IsLeft(t, s, n) ==
  /\ t \in Seq(Byte) /\ Len(t) = Len(s) - n
  /\ \A i \in 1 .. Len(s) - n : t[i] = s[n + i]

\* The next byte of s is that at place j of f, or, when f is over, the first of another.
Expect(s, f, j) ==
  IF j <= Size(f) THEN s # <<>> /\ s[1] = ByteOf(f, j) ELSE s # <<>> => Place(s[1]) = 1

LEMMA WholeBytes ==
  ASSUME NEW f \in Frame
  PROVE  Whole(Bytes(f)) /\ Place(Bytes(f)[1]) = 1
<1>1. PICK z \in Nat : z = Size(f) /\ z >= 1
  BY FrameSize
<1>2. PICK s : s = Bytes(f)
  OBVIOUS
<1>3. Len(s) = z /\ \A j \in 1 .. z : s[j] = ByteOf(f, j)
  BY <1>1, <1>2, BytesAre
<1>4. ASSUME NEW i \in 1 .. Len(s) PROVE WholeAt(s, i)
  <2>1. i \in 1 .. Size(f) /\ s[i] = ByteOf(f, i)
    BY <1>1, <1>3
  <2>2. \A m \in 1 .. z - i : s[i + m] = ByteOf(f, i + m)
    <3>1. TAKE m \in 1 .. z - i
    <3>2. i + m \in 1 .. z
      BY <1>3
    <3> QED
      BY <1>3, <3>2
  <2>3. i + (z - i) <= Len(s) /\ ~(i + (z - i) < Len(s))
    BY <1>3
  <2>4. FollowedBy(s, i, f, i)
    BY <1>1, <2>2, <2>3 DEF FollowedBy
  <2> QED
    BY <2>1, <2>4 DEF WholeAt
<1>5. Place(s[1]) = 1
  <2>1. 1 \in 1 .. Size(f) /\ s[1] = ByteOf(f, 1)
    BY <1>1, <1>3
  <2> QED
    BY <2>1, PlaceIs
<1> QED
  BY <1>2, <1>4, <1>5 DEF Whole

LEMMA WholeLeft ==
  ASSUME NEW s \in Seq(Byte), Whole(s), NEW n \in 0 .. Len(s), NEW t, IsLeft(t, s, n)
  PROVE  Whole(t)
<1>1. PICK l \in Nat : l = Len(s)
  BY LenProperties
<1>2. Len(t) = l - n /\ \A i \in 1 .. l - n : t[i] = s[n + i]
  BY <1>1 DEF IsLeft
<1>3. n \in 0 .. l
  BY <1>1
<1>4. ASSUME NEW i \in 1 .. l - n PROVE WholeAt(t, i)
  <2>1. n + i \in 1 .. l
    BY <1>3
  <2>2a. PICK f \in Frame : \E j \in 1 .. Size(f) : s[n + i] = ByteOf(f, j) /\ FollowedBy(s, n + i, f, j)
    BY <1>1, <2>1 DEF Whole, WholeAt
  <2>2. PICK j \in 1 .. Size(f) : s[n + i] = ByteOf(f, j) /\ FollowedBy(s, n + i, f, j)
    BY <2>2a
  <2>3. PICK z \in Nat : z = Size(f)
    BY FrameSize
  <2>4. j \in 1 .. z
    BY <2>3
  <2>5. /\ (n + i) + (z - j) <= l
        /\ \A m \in 1 .. z - j : s[(n + i) + m] = ByteOf(f, j + m)
        /\ (n + i) + (z - j) < l => Place(s[(n + i) + (z - j) + 1]) = 1
    BY <1>1, <2>2, <2>3 DEF FollowedBy
  <2>6. i + (z - j) <= l - n
    BY <1>3, <2>4, <2>5
  <2>7. ASSUME NEW m \in 1 .. z - j PROVE t[i + m] = ByteOf(f, j + m)
    <3>1. i + m \in 1 .. l - n /\ n + (i + m) = (n + i) + m
      BY <1>3, <2>4, <2>6
    <3> QED
      BY <1>2, <2>5, <3>1
  <2>8. ASSUME i + (z - j) < l - n PROVE Place(t[i + (z - j) + 1]) = 1
    <3>1. /\ i + (z - j) + 1 \in 1 .. l - n /\ (n + i) + (z - j) < l
          /\ n + (i + (z - j) + 1) = (n + i) + (z - j) + 1
      BY <1>3, <2>4, <2>8
    <3> QED
      BY <1>2, <2>5, <3>1
  <2>9. FollowedBy(t, i, f, j)
    BY <1>2, <2>3, <2>6, <2>7, <2>8 DEF FollowedBy
  <2>10. t[i] = ByteOf(f, j)
    BY <1>2, <2>2
  <2> QED
    BY <2>9, <2>10 DEF WholeAt
<1> QED
  BY <1>2, <1>4 DEF Whole

LEMMA WholeJoin ==
  ASSUME NEW s \in Seq(Byte), NEW t \in Seq(Byte), Whole(s), Whole(t), Len(t) > 0,
         Place(t[1]) = 1, NEW u, IsJoin(u, s, t)
  PROVE  Whole(u)
<1>1. PICK l \in Nat, k \in Nat : l = Len(s) /\ k = Len(t)
  BY LenProperties
<1>2. /\ Len(u) = l + k
      /\ \A i \in 1 .. l + k : u[i] = IF i <= l THEN s[i] ELSE t[i - l]
  BY <1>1 DEF IsJoin
<1>3. /\ \A i \in 1 .. l : u[i] = s[i]
      /\ \A i \in 1 .. k : u[l + i] = t[i]
  <2>1. ASSUME NEW i \in 1 .. l PROVE u[i] = s[i]
    <3>1. i \in 1 .. l + k /\ i <= l
      OBVIOUS
    <3> QED
      BY <1>2, <3>1
  <2>2. ASSUME NEW i \in 1 .. k PROVE u[l + i] = t[i]
    <3>1. l + i \in 1 .. l + k /\ ~(l + i <= l) /\ (l + i) - l = i
      OBVIOUS
    <3> QED
      BY <1>2, <3>1
  <2> QED
    BY <2>1, <2>2
<1>4. ASSUME NEW i \in 1 .. l PROVE WholeAt(u, i)
  <2>1a. PICK f \in Frame : \E j \in 1 .. Size(f) : s[i] = ByteOf(f, j) /\ FollowedBy(s, i, f, j)
    BY <1>1 DEF Whole, WholeAt
  <2>1. PICK j \in 1 .. Size(f) : s[i] = ByteOf(f, j) /\ FollowedBy(s, i, f, j)
    BY <2>1a
  <2>2. PICK z \in Nat : z = Size(f)
    BY FrameSize
  <2>3. j \in 1 .. z
    BY <2>2
  <2>4. /\ i + (z - j) <= l
        /\ \A m \in 1 .. z - j : s[i + m] = ByteOf(f, j + m)
        /\ i + (z - j) < l => Place(s[i + (z - j) + 1]) = 1
    BY <1>1, <2>1, <2>2 DEF FollowedBy
  <2>5. i + (z - j) <= l + k
    BY <2>3, <2>4
  <2>6. ASSUME NEW m \in 1 .. z - j PROVE u[i + m] = ByteOf(f, j + m)
    <3>1. i + m \in 1 .. l
      BY <2>3, <2>4
    <3> QED
      BY <1>3, <2>4, <3>1
  <2>7. Place(u[i + (z - j) + 1]) = 1
    <3>1. CASE i + (z - j) < l
      <4>1. i + (z - j) + 1 \in 1 .. l
        BY <2>3, <3>1
      <4> QED
        BY <1>3, <2>4, <3>1, <4>1
    <3>2. CASE ~(i + (z - j) < l)
      <4>1. i + (z - j) + 1 = l + 1 /\ 1 \in 1 .. k
        BY <1>1, <2>3, <2>4, <3>2
      <4> QED
        BY <1>3, <4>1
    <3> QED
      BY <3>1, <3>2
  <2>8. FollowedBy(u, i, f, j)
    BY <1>2, <2>2, <2>5, <2>6, <2>7 DEF FollowedBy
  <2> QED
    BY <1>3, <2>1, <2>8 DEF WholeAt
<1>5. ASSUME NEW i \in 1 .. k PROVE WholeAt(u, l + i)
  <2>1a. PICK f \in Frame : \E j \in 1 .. Size(f) : t[i] = ByteOf(f, j) /\ FollowedBy(t, i, f, j)
    BY <1>1 DEF Whole, WholeAt
  <2>1. PICK j \in 1 .. Size(f) : t[i] = ByteOf(f, j) /\ FollowedBy(t, i, f, j)
    BY <2>1a
  <2>2. PICK z \in Nat : z = Size(f)
    BY FrameSize
  <2>3. j \in 1 .. z
    BY <2>2
  <2>4. /\ i + (z - j) <= k
        /\ \A m \in 1 .. z - j : t[i + m] = ByteOf(f, j + m)
        /\ i + (z - j) < k => Place(t[i + (z - j) + 1]) = 1
    BY <1>1, <2>1, <2>2 DEF FollowedBy
  <2>5. (l + i) + (z - j) <= l + k
    BY <2>3, <2>4
  <2>6. ASSUME NEW m \in 1 .. z - j PROVE u[(l + i) + m] = ByteOf(f, j + m)
    <3>1. i + m \in 1 .. k /\ l + (i + m) = (l + i) + m
      BY <2>3, <2>4
    <3> QED
      BY <1>3, <2>4, <3>1
  <2>7. ASSUME (l + i) + (z - j) < l + k PROVE Place(u[(l + i) + (z - j) + 1]) = 1
    <3>1. /\ i + (z - j) < k /\ i + (z - j) + 1 \in 1 .. k
          /\ l + (i + (z - j) + 1) = (l + i) + (z - j) + 1
      BY <2>3, <2>7
    <3> QED
      BY <1>3, <2>4, <3>1
  <2>8. FollowedBy(u, l + i, f, j)
    BY <1>2, <2>2, <2>5, <2>6, <2>7 DEF FollowedBy
  <2> QED
    BY <1>3, <2>1, <2>8 DEF WholeAt
<1>6. ASSUME NEW i \in 1 .. l + k PROVE WholeAt(u, i)
  <2>1. CASE i <= l
    BY <1>4, <2>1
  <2>2. CASE i > l
    <3>1. PICK h \in 1 .. k : i = l + h
      <4>1. i - l \in 1 .. k /\ i = l + (i - l)
        BY <2>2
      <4> QED
        BY <4>1
    <3> QED
      BY <1>5, <3>1
  <2> QED
    BY <2>1, <2>2
<1> QED
  BY <1>2, <1>6 DEF Whole

\* The first byte of a stream that is not empty.
LEMMA FirstByte ==
  ASSUME NEW s \in Seq(Byte), Whole(s), s # <<>>, Place(s[1]) = 1
  PROVE  \E f \in Frame : s[1] = ByteOf(f, 1)
<1>1. 1 \in 1 .. Len(s)
  BY EmptySeq
<1>2a. PICK f \in Frame : \E j \in 1 .. Size(f) : s[1] = ByteOf(f, j)
  BY <1>1 DEF Whole, WholeAt
<1>2. PICK j \in 1 .. Size(f) : s[1] = ByteOf(f, j)
  BY <1>2a
<1>3. j = 1
  BY <1>2, PlaceIs
<1> QED
  BY <1>2, <1>3

\* What comes when n bytes of the frame more are read.
LEMMA ExpectNext ==
  ASSUME NEW s \in Seq(Byte), Whole(s), NEW f \in Frame, NEW j \in 1 .. Size(f),
         s # <<>>, s[1] = ByteOf(f, j), NEW n \in 1 .. Len(s), n <= (Size(f) + 1) - j,
         NEW t, IsLeft(t, s, n)
  PROVE  Expect(t, f, j + n)
<1>1. PICK l \in Nat, z \in Nat : l = Len(s) /\ z = Size(f)
  BY LenProperties, FrameSize
<1>2. n \in 1 .. l /\ j \in 1 .. z /\ n <= (z + 1) - j
  BY <1>1
<1>3. Len(t) = l - n /\ t \in Seq(Byte) /\ \A i \in 1 .. l - n : t[i] = s[n + i]
  BY <1>1 DEF IsLeft
<1>4. FollowedBy(s, 1, f, j)
  <2>1. 1 \in 1 .. Len(s)
    BY <1>1, <1>2
  <2>2a. PICK g \in Frame : \E i \in 1 .. Size(g) : s[1] = ByteOf(g, i) /\ FollowedBy(s, 1, g, i)
    BY <2>1 DEF Whole, WholeAt
  <2>2. PICK i \in 1 .. Size(g) : s[1] = ByteOf(g, i) /\ FollowedBy(s, 1, g, i)
    BY <2>2a
  <2>3. g = f
    BY <2>2, PlaceIs
  <2>4. i = j
    <3>1. i \in 1 .. Size(f) /\ ByteOf(f, i) = ByteOf(f, j)
      BY <2>2, <2>3
    <3>2. Place(ByteOf(f, i)) = i /\ Place(ByteOf(f, j)) = j
      BY <3>1, PlaceIs
    <3> QED
      BY <3>1, <3>2
  <2> QED
    BY <2>2, <2>3, <2>4
<1>5. /\ 1 + (z - j) <= l
      /\ \A m \in 1 .. z - j : s[1 + m] = ByteOf(f, j + m)
      /\ 1 + (z - j) < l => Place(s[1 + (z - j) + 1]) = 1
  BY <1>1, <1>4 DEF FollowedBy
<1>6. CASE j + n <= z
  <2>1. n \in 1 .. z - j /\ 1 \in 1 .. l - n
    BY <1>2, <1>5, <1>6
  <2>2. t[1] = s[n + 1] /\ s[1 + n] = ByteOf(f, j + n) /\ 1 + n = n + 1
    BY <1>3, <1>5, <2>1
  <2>3. t # <<>>
    BY <1>3, <2>1, EmptySeq
  <2> QED
    BY <1>1, <1>6, <2>2, <2>3 DEF Expect
<1>7. CASE ~(j + n <= z)
  <2>1. n = 1 + (z - j)
    BY <1>2, <1>7
  <2>2. ASSUME t # <<>> PROVE Place(t[1]) = 1
    <3>1. Len(t) # 0
      BY <1>3, <2>2, EmptySeq
    <3>2. 1 \in 1 .. l - n /\ 1 + (z - j) < l /\ n + 1 = 1 + (z - j) + 1
      BY <1>2, <1>3, <2>1, <3>1
    <3> QED
      BY <1>3, <1>5, <3>2
  <2> QED
    BY <1>1, <1>7, <2>2 DEF Expect
<1> QED
  BY <1>6, <1>7


LEMMA ExpectAhead ==
  ASSUME NEW s \in Seq(Byte), Whole(s), NEW f \in Frame, NEW j \in 1 .. Size(f) + 1,
         Expect(s, f, j), NEW n \in 0 .. Len(s), n <= (Size(f) + 1) - j,
         NEW t, IsLeft(t, s, n)
  PROVE  Expect(t, f, j + n)
<1>1. PICK l \in Nat, z \in Nat : l = Len(s) /\ z = Size(f)
  BY LenProperties, FrameSize
<1>2. CASE n = 0
  <2>1. t \in Seq(Byte) /\ Len(t) = l /\ \A i \in 1 .. l : t[i] = s[i]
    BY <1>1, <1>2 DEF IsLeft
  <2>2. t = s
    BY <1>1, <2>1, SeqEqual
  <2>3. j + n = j
    BY <1>1, <1>2
  <2> QED
    BY <2>2, <2>3
<1>3. CASE n # 0
  <2>1. n \in 1 .. Len(s) /\ j \in 1 .. Size(f)
    BY <1>1, <1>3
  <2>2. s # <<>> /\ s[1] = ByteOf(f, j)
    BY <2>1 DEF Expect
  <2> QED
    BY <2>1, <2>2, ExpectNext
<1> QED
  BY <1>2, <1>3

-----------------------------------------------------------------------------
(* The parser knows where it is in the stream.                              *)

MaskHas(p, f, n) ==
  f.masked => \A i \in 0 .. n - 1 : p.mask[i] = [k |-> "mask", f |-> f, n |-> i]

InLen0(p, s, f) == p.status = 1 /\ p.maskCtr = 0 /\ Expect(s, f, 2)

InExt(p, s, f) ==
  /\ p.status \in 2 .. 9 /\ p.status - 2 < f.ext
  /\ p.maskCtr = 0 /\ p.len8.f = f /\ p.len = 0
  /\ Expect(s, f, p.status + 1)

InMask(p, s, f) ==
  /\ p.status \in 10 .. 13 /\ f.masked
  /\ p.maskCtr = 0 /\ p.len = f.len /\ MaskHas(p, f, p.status - 10)
  /\ Expect(s, f, (p.status - 7) + f.ext)

InData(p, s, f) ==
  /\ p.status = 14 /\ p.len <= f.len
  /\ p.maskCtr = f.len - p.len /\ MaskHas(p, f, 4)
  /\ Expect(s, f, (Size(f) + 1) - p.len)

\* What is read next is the beginning of a frame, or what of the frame was read is what
\* the parser has.
InStep(p, s) ==
  /\ Whole(s)
  /\ \/ p.status = 0 /\ (s # <<>> => Place(s[1]) = 1)
     \/ \E f \in Frame : InLen0(p, s, f) \/ InExt(p, s, f) \/ InMask(p, s, f) \/ InData(p, s, f)

\* What a byte of the head does to the parser.
LEMMA ReadsFlags ==
  ASSUME NEW p \in Priv, NEW b \in Byte, p.status = 0
  PROVE  HeaderByte(p, b).status = 1 /\ HeaderByte(p, b).maskCtr = 0
<1>1. HeaderByte(p, b) =
        [p EXCEPT !.maskCtr = 0, !.frameCont = FALSE, !.flags = b, !.status = 1]
  BY DEF HeaderByte, FrameFlags, ST_FLAGS, ST_LEN0
<1> QED
  BY <1>1 DEF Priv

LEMMA ReadsLen0 ==
  ASSUME NEW p \in Priv, NEW b \in Byte, p.status = 1, NEW q, q = HeaderByte(p, b)
  PROVE  /\ q.maskCtr = p.maskCtr
         /\ b.f.ext > 0 => q.status = 2 /\ q.len8 = b /\ q.len = 0
         /\ ~(b.f.ext > 0) => /\ q.status = IF b.f.masked THEN 10 ELSE 14
                              /\ q.len = b.f.len
<1>1. PICK l : l = [p EXCEPT !.len8 = b]
  OBVIOUS
<1>2. b \in Kept
  BY DEF Kept
<1>3. l \in Priv /\ l.len8 = b /\ l.maskCtr = p.maskCtr
  BY <1>1, <1>2 DEF Priv
<1>4. q = IF b.f.ext > 0 THEN [l EXCEPT !.len = 0, !.status = 2]
                         ELSE [l EXCEPT !.len = b.f.len, !.status = AfterLen(l)]
  BY <1>1 DEF HeaderByte, FrameLen, ST_FLAGS, ST_LEN0, ST_LEN1
<1>5. CASE b.f.ext > 0
  <2>1. q = [l EXCEPT !.len = 0, !.status = 2]
    BY <1>4, <1>5
  <2> QED
    BY <1>3, <1>5, <2>1 DEF Priv
<1>6. CASE ~(b.f.ext > 0)
  <2>1. PICK n, st : n = b.f.len /\ st = IF b.f.masked THEN 10 ELSE 14
    OBVIOUS
  <2>2. AfterLen(l) = st
    BY <1>3, <2>1 DEF AfterLen, ST_MASK1, ST_PAYLOAD
  <2>3. q = [l EXCEPT !.len = n, !.status = st]
    BY <1>4, <1>6, <2>1, <2>2
  <2>4. q.len = n /\ q.status = st /\ q.maskCtr = l.maskCtr
    BY <1>3, <2>3 DEF Priv
  <2> QED
    BY <1>3, <1>6, <2>1, <2>4
<1> QED
  BY <1>5, <1>6

LEMMA ReadsExt ==
  ASSUME NEW p \in Priv, NEW b \in Byte, p.status \in 2 .. 9, NEW q, q = HeaderByte(p, b)
  PROVE  /\ q.maskCtr = p.maskCtr /\ q.len8 = p.len8
         /\ q.len = 256 * p.len + ExtByte(b)
         /\ q.status = IF LenEnds(p) THEN AfterLen(p) ELSE p.status + 1
<1>1. PICK n, st : /\ n = 256 * p.len + ExtByte(b)
                   /\ st = IF LenEnds(p) THEN AfterLen(p) ELSE p.status + 1
  OBVIOUS
<1>2. q = [p EXCEPT !.len = n, !.status = st]
  BY <1>1 DEF HeaderByte, ST_FLAGS, ST_LEN0, ST_LEN8
<1>3. q.maskCtr = p.maskCtr /\ q.len8 = p.len8 /\ q.len = n /\ q.status = st
  BY <1>2 DEF Priv
<1> QED
  BY <1>1, <1>3

LEMMA ReadsMask ==
  ASSUME NEW p \in Priv, NEW b \in Byte, NEW j \in 0 .. 3, p.status = 10 + j,
         NEW q, q = HeaderByte(p, b)
  PROVE  /\ q.maskCtr = p.maskCtr /\ q.len = p.len /\ q.status = p.status + 1
         /\ \A i \in 0 .. 3 : q.mask[i] = IF i = j THEN b ELSE p.mask[i]
<1>1. p.status - 10 = j /\ p.status # 0 /\ p.status # 1 /\ ~(p.status <= 9)
  OBVIOUS
<1>2. PICK m, st : m = [p.mask EXCEPT ![j] = b] /\ st = p.status + 1
  OBVIOUS
<1>2a. HeaderByte(p, b) = [p EXCEPT !.mask[p.status - 10] = b, !.status = @ + 1]
  BY <1>1 DEF HeaderByte, ST_FLAGS, ST_LEN0, ST_LEN8, ST_MASK1
<1>2b. HeaderByte(p, b) = [p EXCEPT !.mask[j] = b, !.status = @ + 1]
  BY <1>1, <1>2a
<1>3. \A i \in 0 .. 3 : m[i] = IF i = j THEN b ELSE p.mask[i]
  BY <1>2 DEF Priv
<1>4. q = [p EXCEPT !.mask = m, !.status = st]
  BY <1>2, <1>2b
<1>5. q.maskCtr = p.maskCtr /\ q.len = p.len /\ q.mask = m /\ q.status = st
  BY <1>4 DEF Priv
<1> QED
  BY <1>2, <1>3, <1>5

LEMMA ReadsData ==
  ASSUME NEW p \in Priv, NEW sl \in Nat, NEW q, q = Taken(p, sl)
  PROVE  /\ q.maskCtr = (p.maskCtr + sl) % 256 /\ q.mask = p.mask
         /\ p.len = sl => q.status = 0
         /\ p.len # sl => q.status = p.status /\ q.len = p.len - sl
<1>1. PICK m, n : m = (p.maskCtr + sl) % 256 /\ n = p.len - sl
  OBVIOUS
<1>2. CASE p.len = sl
  <2>1. q = [p EXCEPT !.len = 0, !.maskCtr = m, !.status = 0]
    BY <1>1, <1>2 DEF Taken, ST_FLAGS
  <2>2. q.maskCtr = m /\ q.mask = p.mask /\ q.status = 0
    BY <2>1 DEF Priv
  <2> QED
    BY <1>1, <1>2, <2>2
<1>3. CASE p.len # sl
  <2>1. q = [p EXCEPT !.len = n, !.maskCtr = m, !.frameCont = TRUE]
    BY <1>1, <1>3 DEF Taken
  <2>2. q.maskCtr = m /\ q.mask = p.mask /\ q.status = p.status /\ q.len = n
    BY <2>1 DEF Priv
  <2> QED
    BY <1>1, <1>3, <2>2
<1> QED
  BY <1>2, <1>3

\* The parser stays in step: at the first byte of a frame,
LEMMA FlagsInStep ==
  ASSUME NEW p \in Priv, NEW s \in Seq(Byte), Whole(s), s # <<>>, Place(s[1]) = 1,
         p.status = 0, NEW b \in Byte, b = s[1], NEW t, IsLeft(t, s, 1),
         NEW q, q = HeaderByte(p, b)
  PROVE  \E f \in Frame : InLen0(q, t, f)
<1>1. PICK f \in Frame : s[1] = ByteOf(f, 1)
  BY FirstByte
<1>2. 1 \in 1 .. Len(s)
  BY EmptySeq
<1>3. 1 \in 1 .. Size(f) /\ 1 <= (Size(f) + 1) - 1
  BY FrameSize
<1>4. Expect(t, f, 1 + 1)
  BY <1>1, <1>2, <1>3, ExpectNext
<1>5. q.status = 1 /\ q.maskCtr = 0
  BY ReadsFlags
<1> QED
  BY <1>4, <1>5 DEF InLen0

\* The byte that comes is the one that is expected, and after it the next of the frame.
LEMMA Reading ==
  ASSUME NEW s \in Seq(Byte), Whole(s), NEW f \in Frame, NEW j \in 1 .. Size(f),
         Expect(s, f, j), NEW t, IsLeft(t, s, 1)
  PROVE  s[1] = ByteOf(f, j) /\ Expect(t, f, j + 1)
<1>1. j \in Nat /\ Size(f) \in Nat /\ j <= Size(f)
  BY FrameSize
<1>2. s # <<>> /\ s[1] = ByteOf(f, j)
  BY <1>1 DEF Expect
<1>3. 1 \in 1 .. Len(s) /\ 1 <= (Size(f) + 1) - j
  BY <1>1, <1>2, EmptySeq
<1> QED
  BY <1>2, <1>3, ExpectNext

\* at the length,
LEMMA Len0InStep ==
  ASSUME NEW p \in Priv, NEW s \in Seq(Byte), Whole(s), NEW f \in Frame, InLen0(p, s, f),
         NEW b \in Byte, b = s[1], NEW t, IsLeft(t, s, 1), NEW q, q = HeaderByte(p, b)
  PROVE  InExt(q, t, f) \/ InMask(q, t, f) \/ InData(q, t, f)
<1>1. PICK e \in 0 .. 8, m \in 0 .. 4, l \in 0 .. 255 :
        /\ e = f.ext /\ m = MaskLen(f) /\ l = f.len
        /\ Size(f) = 2 + e + m + l
  BY PartSizes
<1>2. 2 \in 1 .. Size(f)
  BY FrameSize
<1>3. p.status = 1 /\ p.maskCtr = 0 /\ Expect(s, f, 2)
  BY DEF InLen0
<1>4. b = ByteOf(f, 2) /\ Expect(t, f, 2 + 1)
  BY <1>2, <1>3, Reading
<1>5. b.f = f
  BY <1>2, <1>4, PlaceIs
<1>6. /\ q.maskCtr = 0
      /\ e > 0 => q.status = 2 /\ q.len8 = b /\ q.len = 0
      /\ ~(e > 0) => /\ q.status = IF f.masked THEN 10 ELSE 14
                     /\ q.len = l
  BY <1>1, <1>3, <1>5, ReadsLen0
<1>7. CASE e > 0
  <2>1. q.status = 2 /\ q.maskCtr = 0 /\ q.len8.f = f /\ q.len = 0
    BY <1>5, <1>6, <1>7
  <2>2. q.status \in 2 .. 9 /\ q.status - 2 < f.ext /\ q.status + 1 = 2 + 1
    BY <1>1, <1>7, <2>1
  <2> QED
    BY <1>4, <2>1, <2>2 DEF InExt
<1>8. CASE ~(e > 0) /\ f.masked
  <2>1. q.status = 10 /\ q.maskCtr = 0 /\ q.len = f.len
    BY <1>1, <1>6, <1>8
  <2>2. q.status \in 10 .. 13 /\ (q.status - 7) + f.ext = 2 + 1
    <3>1. f.ext = 0
      BY <1>1, <1>8
    <3> QED
      BY <2>1, <3>1
  <2>3. MaskHas(q, f, q.status - 10)
    BY <2>1 DEF MaskHas
  <2> QED
    BY <1>4, <1>8, <2>1, <2>2, <2>3 DEF InMask
<1>9. CASE ~(e > 0) /\ ~f.masked
  <2>1. q.status = 14 /\ q.maskCtr = 0 /\ q.len = l
    BY <1>6, <1>9
  <2>2. m = 0 /\ e = 0
    BY <1>1, <1>9 DEF MaskLen
  <2>3. q.len <= f.len /\ q.maskCtr = f.len - q.len /\ (Size(f) + 1) - q.len = 2 + 1
    BY <1>1, <2>1, <2>2
  <2>4. MaskHas(q, f, 4)
    BY <1>9 DEF MaskHas
  <2> QED
    BY <1>4, <2>1, <2>3, <2>4 DEF InData
<1> QED
  BY <1>7, <1>8, <1>9

\* in an extended length,
LEMMA ExtInStep ==
  ASSUME NEW p \in Priv, NEW s \in Seq(Byte), Whole(s), NEW f \in Frame, InExt(p, s, f),
         NEW b \in Byte, b = s[1], NEW t, IsLeft(t, s, 1), NEW q, q = HeaderByte(p, b)
  PROVE  InExt(q, t, f) \/ InMask(q, t, f) \/ InData(q, t, f)
<1>1. PICK e \in 0 .. 8, m \in 0 .. 4, l \in 0 .. 255 :
        /\ e = f.ext /\ m = MaskLen(f) /\ l = f.len
        /\ Size(f) = 2 + e + m + l
  BY PartSizes
<1>2. e \in {0, 2, 8}
  BY <1>1, FrameSize
<1>3. /\ p.status \in 2 .. 9 /\ p.maskCtr = 0 /\ p.len8.f = f /\ p.len = 0
      /\ p.status - 2 < f.ext /\ Expect(s, f, p.status + 1)
  BY DEF InExt
<1>4. PICK st \in 2 .. 9 : st = p.status
  BY <1>3
<1>5. st - 2 < e
  BY <1>1, <1>3, <1>4
<1>6. st + 1 \in 1 .. Size(f) /\ st + 1 \in 3 .. 2 + e
  <2>0. PICK z \in Nat : z = 2 + e + m + l
    OBVIOUS
  <2>1. z = Size(f)
    BY <1>1, <2>0
  <2>2. st + 1 \in 1 .. z /\ st + 1 \in 3 .. 2 + e
    BY <1>5, <2>0
  <2> QED
    BY <2>1, <2>2
<1>7. b = ByteOf(f, st + 1) /\ Expect(t, f, (st + 1) + 1)
  <2>1. Expect(s, f, st + 1)
    BY <1>3, <1>4
  <2> QED
    BY <1>6, <2>1, Reading
<1>8. b = [k |-> "ext", f |-> f, n |-> (st + 1) - 3]
  BY <1>1, <1>6, <1>7 DEF ByteOf
<1>9. LenEnds(p) <=> st = 1 + e
  <2>1. LenEnds(p) <=> (e = 2 /\ st = 3) \/ st = 9
    BY <1>1, <1>3, <1>4 DEF LenEnds, ST_LEN2, ST_LEN8
  <2> QED
    BY <1>2, <1>5, <2>1
<1>10. ExtByte(b) = IF st = 1 + e THEN l ELSE 0
  <2>1. b.k = "ext" /\ b.n = (st + 1) - 3 /\ b.f = f
    BY <1>8
  <2>2. ExtByte(b) = IF (st + 1) - 3 = e - 1 THEN l ELSE 0
    BY <1>1, <2>1 DEF ExtByte
  <2> QED
    BY <2>2
<1>11. AfterLen(p) = IF f.masked THEN 10 ELSE 14
  BY <1>3 DEF AfterLen, ST_MASK1, ST_PAYLOAD
<1>12. /\ q.maskCtr = p.maskCtr /\ q.len8 = p.len8
       /\ q.len = 256 * p.len + ExtByte(b)
       /\ q.status = IF LenEnds(p) THEN AfterLen(p) ELSE p.status + 1
  BY <1>3, ReadsExt
<1>13. q.maskCtr = 0 /\ q.len8.f = f
  BY <1>3, <1>12
<1>14. q.len = IF st = 1 + e THEN l ELSE 0
  BY <1>3, <1>10, <1>12
<1>15. CASE st # 1 + e
  <2>1. q.status = st + 1 /\ q.len = 0
    BY <1>4, <1>9, <1>12, <1>14, <1>15
  <2>2. q.status \in 2 .. 9 /\ q.status - 2 < f.ext /\ q.status + 1 = (st + 1) + 1
    <3>1. st + 1 \in 2 .. 9 /\ (st + 1) - 2 < e
      BY <1>2, <1>5, <1>15
    <3> QED
      BY <1>1, <2>1, <3>1
  <2> QED
    BY <1>7, <1>13, <2>1, <2>2 DEF InExt
<1>16. CASE st = 1 + e /\ f.masked
  <2>1. q.status = 10 /\ q.len = f.len
    BY <1>1, <1>9, <1>11, <1>12, <1>14, <1>16
  <2>2. q.status \in 10 .. 13 /\ (q.status - 7) + f.ext = (st + 1) + 1
    BY <1>1, <1>16, <2>1
  <2>3. MaskHas(q, f, q.status - 10)
    BY <2>1 DEF MaskHas
  <2> QED
    BY <1>7, <1>13, <1>16, <2>1, <2>2, <2>3 DEF InMask
<1>17. CASE st = 1 + e /\ ~f.masked
  <2>1. q.status = 14 /\ q.len = l
    BY <1>9, <1>11, <1>12, <1>14, <1>17
  <2>2. m = 0
    BY <1>1, <1>17 DEF MaskLen
  <2>3. q.len <= f.len /\ q.maskCtr = f.len - q.len /\ (Size(f) + 1) - q.len = (st + 1) + 1
    <3>1. l <= l /\ l - l = 0 /\ ((2 + e + m + l) + 1) - l = (st + 1) + 1
      BY <1>17, <2>2
    <3>2. q.len = l /\ f.len = l /\ q.maskCtr = 0
      BY <1>1, <1>13, <2>1
    <3>3. Size(f) = 2 + e + m + l
      BY <1>1
    <3>4. q.len <= f.len /\ q.maskCtr = f.len - q.len
      BY <3>1, <3>2
    <3>5. (Size(f) + 1) - q.len = (st + 1) + 1
      BY <3>1, <3>2, <3>3, Zenon
    <3> QED
      BY <3>4, <3>5
  <2>4. MaskHas(q, f, 4)
    BY <1>17 DEF MaskHas
  <2> QED
    BY <1>7, <2>1, <2>3, <2>4 DEF InData
<1> QED
  BY <1>15, <1>16, <1>17

\* in the mask,
LEMMA MaskInStep ==
  ASSUME NEW p \in Priv, NEW s \in Seq(Byte), Whole(s), NEW f \in Frame, InMask(p, s, f),
         NEW b \in Byte, b = s[1], NEW t, IsLeft(t, s, 1), NEW q, q = HeaderByte(p, b)
  PROVE  InMask(q, t, f) \/ InData(q, t, f)
<1>1. PICK e \in 0 .. 8, m \in 0 .. 4, l \in 0 .. 255 :
        /\ e = f.ext /\ m = MaskLen(f) /\ l = f.len
        /\ Size(f) = 2 + e + m + l
  BY PartSizes
<1>2. /\ p.status \in 10 .. 13 /\ f.masked /\ p.maskCtr = 0 /\ p.len = f.len
      /\ MaskHas(p, f, p.status - 10) /\ Expect(s, f, (p.status - 7) + f.ext)
  BY DEF InMask
<1>3. m = 4
  BY <1>1, <1>2 DEF MaskLen
<1>4. PICK i \in 0 .. 3 : i = p.status - 10
  <2>1. p.status - 10 \in 0 .. 3
    BY <1>2
  <2> QED
    BY <2>1
<1>5. p.status = 10 + i
  <2>1. p.status \in 10 .. 13
    BY <1>2
  <2> QED
    BY <1>4, <2>1
<1>6. PICK j \in Nat : j = 3 + e + i
  OBVIOUS
<1>6a. j \in 1 .. Size(f)
  <2>0. PICK z \in Nat : z = 2 + e + m + l
    OBVIOUS
  <2>1. z = Size(f)
    BY <1>1, <2>0
  <2>2. j \in 1 .. z
    BY <1>3, <1>6, <2>0
  <2> QED
    BY <2>1, <2>2
<1>6b. Expect(s, f, j)
  <2>1. ((10 + i) - 7) + e = j
    BY <1>6
  <2>2. (p.status - 7) + f.ext = ((10 + i) - 7) + e
    BY <1>1, <1>5, Zenon
  <2> QED
    BY <1>2, <2>1, <2>2
<1>7. b = ByteOf(f, j) /\ Expect(t, f, j + 1)
  BY <1>6a, <1>6b, Reading
<1>8. b = [k |-> "mask", f |-> f, n |-> i]
  <2>1. j \in 3 + e .. 2 + e + m
    BY <1>3, <1>6
  <2>2. ByteOf(f, j) = [k |-> "mask", f |-> f, n |-> (j - 3) - e]
    <3>1. e \in Nat /\ m \in Nat /\ j \in Int /\ e = f.ext /\ m = MaskLen(f)
      BY <1>1
    <3> QED
      BY <2>1, <3>1, ByteIs
  <2>3. (j - 3) - e = i
    BY <1>6
  <2> QED
    BY <1>7, <2>2, <2>3
<1>9. /\ q.maskCtr = p.maskCtr /\ q.len = p.len /\ q.status = p.status + 1
      /\ \A h \in 0 .. 3 : q.mask[h] = IF h = i THEN b ELSE p.mask[h]
  BY <1>5, ReadsMask
<1>10. q.maskCtr = 0 /\ q.len = f.len /\ q.status = 11 + i
  BY <1>2, <1>5, <1>9
<1>11. MaskHas(q, f, i + 1)
  <2>1. \A h \in 0 .. i - 1 : p.mask[h] = [k |-> "mask", f |-> f, n |-> h]
    BY <1>2, <1>4 DEF MaskHas
  <2>2. ASSUME NEW h \in 0 .. (i + 1) - 1
        PROVE  q.mask[h] = [k |-> "mask", f |-> f, n |-> h]
    <3>1. h \in 0 .. 3 /\ (h = i \/ h \in 0 .. i - 1)
      OBVIOUS
    <3>2. CASE h = i
      BY <1>8, <1>9, <3>1, <3>2
    <3>3. CASE h # i
      <4>1. q.mask[h] = p.mask[h]
        BY <1>9, <3>1, <3>3
      <4> QED
        BY <2>1, <3>1, <3>3, <4>1
    <3> QED
      BY <3>2, <3>3
  <2> QED
    BY <2>2 DEF MaskHas
<1>12. CASE i < 3
  <2>1. /\ q.status \in 10 .. 13 /\ q.status - 10 = i + 1
        /\ (q.status - 7) + f.ext = j + 1
    <3>1. /\ 11 + i \in 10 .. 13 /\ (11 + i) - 10 = i + 1
          /\ ((11 + i) - 7) + e = j + 1
      BY <1>6, <1>12
    <3> QED
      BY <1>1, <1>10, <3>1
  <2> QED
    BY <1>2, <1>7, <1>10, <1>11, <2>1 DEF InMask
<1>13. CASE i = 3
  <2>1. /\ q.status = 14 /\ i + 1 = 4 /\ q.len <= f.len /\ q.maskCtr = f.len - q.len
        /\ (Size(f) + 1) - q.len = j + 1
    <3>1. q.len = l /\ q.maskCtr = 0 /\ q.status = 14 /\ i + 1 = 4
      BY <1>1, <1>10, <1>13
    <3>2. PICK z \in Nat : z = 2 + e + m + l
      OBVIOUS
    <3>3. (z + 1) - l = j + 1 /\ l <= l /\ 0 = l - l
      BY <1>3, <1>6, <1>13, <3>2
    <3>4. z = Size(f)
      BY <1>1, <3>2
    <3> QED
      BY <1>1, <3>1, <3>3, <3>4
  <2> QED
    BY <1>7, <1>11, <2>1 DEF InData
<1> QED
  BY <1>12, <1>13

\* and in the payload.
LEMMA DataInStep ==
  ASSUME NEW p \in Priv, NEW s \in Seq(Byte), Whole(s), NEW f \in Frame, InData(p, s, f),
         NEW n \in 0 .. Len(s), n <= p.len, NEW t, IsLeft(t, s, n), NEW q, q = Taken(p, n)
  PROVE  \/ q.status = 0 /\ (t # <<>> => Place(t[1]) = 1)
         \/ InData(q, t, f)
<1>1. PICK z \in Nat, l \in 0 .. 255 : z = Size(f) /\ l = f.len /\ l <= z
  <2>1. PICK e \in 0 .. 8, m \in 0 .. 4, l \in 0 .. 255 :
          /\ e = f.ext /\ m = MaskLen(f) /\ l = f.len
          /\ Size(f) = 2 + e + m + l
    BY PartSizes
  <2>2. PICK z \in Nat : z = 2 + e + m + l
    OBVIOUS
  <2>3. z = Size(f)
    BY <2>1, <2>2
  <2>4. l <= z
    BY <2>2
  <2> QED
    BY <2>1, <2>3, <2>4
<1>2. /\ p.status = 14 /\ p.len <= l /\ p.maskCtr = l - p.len /\ MaskHas(p, f, 4)
      /\ Expect(s, f, (Size(f) + 1) - p.len)
  BY <1>1 DEF InData
<1>3. PICK r \in Nat : r = p.len
  BY DEF Priv
<1>4. n \in Nat /\ n <= r /\ r <= l /\ p.maskCtr = l - r
  <2>1. Len(s) \in Nat
    BY LenProperties
  <2> QED
    BY <1>2, <1>3, <2>1
<1>5. Expect(t, f, ((z + 1) - r) + n)
  <2>1. (z + 1) - r \in 1 .. Size(f) + 1 /\ n <= (Size(f) + 1) - ((z + 1) - r)
    BY <1>1, <1>4
  <2>2. Expect(s, f, (z + 1) - r)
    BY <1>1, <1>2, <1>3
  <2> QED
    BY <2>1, <2>2, ExpectAhead
<1>6. /\ q.maskCtr = (p.maskCtr + n) % 256 /\ q.mask = p.mask
      /\ p.len = n => q.status = 0
      /\ p.len # n => q.status = p.status /\ q.len = p.len - n
  <2>1. n \in Nat
    BY <1>4
  <2> QED
    BY <2>1, ReadsData
<1>7. CASE r = n
  <2>1. q.status = 0 /\ ((z + 1) - r) + n = z + 1
    BY <1>1, <1>3, <1>4, <1>6, <1>7
  <2>2. ~(z + 1 <= Size(f))
    BY <1>1
  <2> QED
    BY <1>5, <2>1, <2>2 DEF Expect
<1>8. CASE r # n
  <2>1. q.status = 14 /\ q.len = r - n
    BY <1>2, <1>3, <1>6, <1>8
  <2>2. q.maskCtr = (l - r) + n
    <3>1. (l - r) + n \in 0 .. 255
      <4>1. l \in 0 .. 255 /\ l \in Nat /\ r \in Nat /\ n \in Nat /\ n <= r /\ r <= l
        BY <1>4
      <4> QED
        BY <4>1
    <3>2. q.maskCtr = ((l - r) + n) % 256
      BY <1>4, <1>6
    <3> QED
      BY <3>1, <3>2
  <2>3. /\ q.len <= f.len /\ q.maskCtr = f.len - q.len
        /\ (Size(f) + 1) - q.len = ((z + 1) - r) + n
    <3>1. r - n <= l /\ (l - r) + n = l - (r - n) /\ (z + 1) - (r - n) = ((z + 1) - r) + n
      <4>1. z \in Nat /\ l \in Nat /\ r \in Nat /\ n \in Nat /\ n <= r /\ r <= l
        BY <1>4
      <4> QED
        BY <4>1
    <3> QED
      BY <1>1, <2>1, <2>2, <3>1
  <2>4. MaskHas(q, f, 4)
    BY <1>2, <1>6 DEF MaskHas
  <2> QED
    BY <1>5, <2>1, <2>3, <2>4 DEF InData
<1> QED
  BY <1>7, <1>8

LEMMA HeaderInStep ==
  ASSUME NEW p \in Priv, NEW s \in Seq(Byte), s # <<>>, InStep(p, s), p.status # 14,
         NEW t, IsLeft(t, s, 1)
  PROVE  InStep(HeaderByte(p, s[1]), t)
<1>1. Whole(s) /\ 1 \in 1 .. Len(s) /\ 1 \in 0 .. Len(s)
  BY EmptySeq DEF InStep
<1>2. Whole(t)
  BY <1>1, WholeLeft
<1>3a. PICK b \in Byte : b = s[1]
  <2>1. s[1] \in Byte
    BY <1>1, ElementOfSeq
  <2> QED
    BY <2>1
<1>3. PICK q : b = s[1] /\ q = HeaderByte(p, b)
  BY <1>3a
<1>4. CASE p.status = 0 /\ (s # <<>> => Place(s[1]) = 1)
  <2>1. \E f \in Frame : InLen0(q, t, f)
    BY <1>1, <1>3, <1>4, FlagsInStep
  <2> QED
    BY <1>2, <1>3, <2>1 DEF InStep
<1>5. ASSUME NEW f \in Frame, InLen0(p, s, f)
      PROVE  InStep(q, t)
  BY <1>1, <1>2, <1>3, <1>5, Len0InStep, Zenon DEF InStep
<1>6. ASSUME NEW f \in Frame, InExt(p, s, f)
      PROVE  InStep(q, t)
  BY <1>1, <1>2, <1>3, <1>6, ExtInStep, Zenon DEF InStep
<1>7. ASSUME NEW f \in Frame, InMask(p, s, f)
      PROVE  InStep(q, t)
  BY <1>1, <1>2, <1>3, <1>7, MaskInStep, Zenon DEF InStep
<1>8. ASSUME NEW f \in Frame, InData(p, s, f)
      PROVE  FALSE
  BY <1>8 DEF InData
<1> QED
  BY <1>3, <1>4, <1>5, <1>6, <1>7, <1>8, Zenon DEF InStep

LEMMA PayloadInStep ==
  ASSUME NEW p \in Priv, NEW s \in Seq(Byte), InStep(p, s), p.status = 14,
         NEW n \in 0 .. Len(s), n <= p.len, NEW t, IsLeft(t, s, n)
  PROVE  InStep(Taken(p, n), t)
<1>1. Whole(s)
  BY DEF InStep
<1>2. Whole(t)
  BY <1>1, WholeLeft
<1>3. PICK q : q = Taken(p, n)
  OBVIOUS
<1>4. PICK f \in Frame : InData(p, s, f)
  <2>1. PICK f \in Frame : InLen0(p, s, f) \/ InExt(p, s, f) \/ InMask(p, s, f) \/ InData(p, s, f)
    BY DEF InStep
  <2>2. ~InLen0(p, s, f) /\ ~InExt(p, s, f) /\ ~InMask(p, s, f)
    BY DEF InLen0, InExt, InMask
  <2> QED
    BY <2>1, <2>2
<1>5. (q.status = 0 /\ (t # <<>> => Place(t[1]) = 1)) \/ InData(q, t, f)
  BY <1>1, <1>3, <1>4, DataInStep, Zenon
<1> QED
  BY <1>2, <1>3, <1>5, Zenon DEF InStep

\* A frame that is sent comes after what is there.
LEMMA JoinStarts ==
  ASSUME NEW s \in Seq(Byte), NEW t \in Seq(Byte), Len(t) > 0, Place(t[1]) = 1,
         NEW u, IsJoin(u, s, t)
  PROVE  u # <<>> /\ (s = <<>> => Place(u[1]) = 1) /\ (s # <<>> => u[1] = s[1])
<1>1. PICK l \in Nat, k \in Nat : l = Len(s) /\ k = Len(t)
  BY LenProperties
<1>2. /\ Len(u) = l + k /\ u \in Seq(Byte)
      /\ \A i \in 1 .. l + k : u[i] = IF i <= l THEN s[i] ELSE t[i - l]
  BY <1>1 DEF IsJoin
<1>3. 1 \in 1 .. l + k /\ k > 0
  BY <1>1
<1>4. u # <<>>
  BY <1>2, <1>3, EmptySeq
<1>5. ASSUME s = <<>> PROVE Place(u[1]) = 1
  <2>1. l = 0
    BY <1>1, <1>5, EmptySeq
  <2>2. ~(1 <= l) /\ 1 - l = 1
    BY <2>1
  <2> QED
    BY <1>2, <1>3, <2>2
<1>6. ASSUME s # <<>> PROVE u[1] = s[1]
  <2>1. l # 0
    BY <1>1, <1>6, EmptySeq
  <2>2. 1 <= l
    BY <2>1
  <2> QED
    BY <1>2, <1>3, <2>2
<1> QED
  BY <1>4, <1>5, <1>6

LEMMA SentInStep ==
  ASSUME NEW p \in Priv, NEW s \in Seq(Byte), InStep(p, s), NEW g \in Frame
  PROVE  InStep(p, s \o Bytes(g))
<1>1. PICK t \in Seq(Byte) : t = Bytes(g) /\ Len(t) > 0
  <2>1. Bytes(g) \in Seq(Byte) /\ Len(Bytes(g)) = Size(g) /\ Size(g) \in Nat /\ Size(g) >= 2
    BY BytesAre, FrameSize
  <2> QED
    BY <2>1
<1>2. Whole(t) /\ Place(t[1]) = 1
  BY <1>1, WholeBytes
<1>3. PICK u : u = s \o t
  OBVIOUS
<1>4. IsJoin(u, s, t)
  BY <1>3, JoinIs
<1>5. Whole(u)
  BY <1>1, <1>2, <1>4, WholeJoin DEF InStep
<1>6a. u # <<>> /\ (s = <<>> => Place(u[1]) = 1) /\ (s # <<>> => u[1] = s[1])
  BY <1>1, <1>2, <1>4, JoinStarts
<1>6. ASSUME NEW f, NEW j, Expect(s, f, j)
      PROVE  Expect(u, f, j)
  BY <1>6, <1>6a, Zenon DEF Expect
<1>7. CASE p.status = 0 /\ (s # <<>> => Place(s[1]) = 1)
  BY <1>1, <1>3, <1>5, <1>6a, <1>7, Zenon DEF InStep
<1>8. ASSUME NEW f \in Frame, InLen0(p, s, f) \/ InExt(p, s, f) \/ InMask(p, s, f) \/ InData(p, s, f)
      PROVE  InLen0(p, u, f) \/ InExt(p, u, f) \/ InMask(p, u, f) \/ InData(p, u, f)
  BY <1>6, <1>8, Zenon DEF InLen0, InExt, InMask, InData
<1> QED
  BY <1>1, <1>3, <1>5, <1>7, <1>8, Zenon DEF InStep

LEMMA FreshInStep == InStep(FreshPriv, <<>>)
<1>1. FreshPriv.status = 0
  BY FreshType
<1>2. Whole(<<>>)
  BY DEF Whole
<1> QED
  BY <1>1, <1>2 DEF InStep

StreamOf(k, p, s) ==
  /\ k = "none" => p = FreshPriv /\ s = <<>>
  /\ k = "open" => InStep(p, s)

Streams == \A c \in Conns : StreamOf(conn[c], priv[c], in[c])

LEMMA StreamsStay ==
  ASSUME Streams, NEW c \in Conns,
         \A d \in Conns : d # c => /\ conn'[d] = conn[d] /\ priv'[d] = priv[d] /\ in'[d] = in[d],
         StreamOf(conn'[c], priv'[c], in'[c])
  PROVE  Streams'
<1>1. ASSUME NEW d \in Conns
      PROVE  StreamOf(conn'[d], priv'[d], in'[d])
  <2>1. CASE d = c
    BY <2>1
  <2>2. CASE d # c
    BY <2>2, Zenon DEF Streams
  <2> QED
    BY <2>1, <2>2
<1>2. Streams' <=> \A d \in Conns : StreamOf(conn'[d], priv'[d], in'[d])
  BY DEF Streams, StreamOf, InStep
<1> QED
  BY <1>1, <1>2, Zenon

LEMMA TailLeft ==
  ASSUME NEW s \in Seq(Byte), s # <<>>
  PROVE  Head(s) = s[1] /\ IsLeft(Tail(s), s, 1)
<1>1. /\ Head(s) = s[1] /\ Tail(s) \in Seq(Byte) /\ Len(Tail(s)) = Len(s) - 1
      /\ \A i \in 1 .. Len(Tail(s)) : Tail(s)[i] = s[i + 1]
  BY HeadTailProperties
<1>2. \A i \in 1 .. Len(s) - 1 : Tail(s)[i] = s[1 + i]
  BY <1>1
<1> QED
  BY <1>1, <1>2 DEF IsLeft

\* Where a frame is waited for, one begins.
LEMMA StartsFrame ==
  ASSUME NEW p, NEW s \in Seq(Byte), InStep(p, s), p.status = 0, s # <<>>
  PROVE  s[1].k = "flags"
<1>1. Whole(s) /\ Place(s[1]) = 1
  BY DEF InStep, InLen0, InExt, InMask, InData
<1>2. PICK f \in Frame : s[1] = ByteOf(f, 1)
  BY <1>1, FirstByte
<1> QED
  BY <1>2 DEF ByteOf

\* In the payload the parser knows which byte of it is next.
LEMMA KnowsPayload ==
  ASSUME NEW p \in Priv, NEW s \in Seq(Byte), InStep(p, s), p.status = 14, p.len > 0,
         s # <<>>
  PROVE  /\ s[1].k = "data" /\ s[1].f.len - s[1].n = p.len
         /\ s[1].f.masked => /\ p.mask[p.maskCtr % 4].k = "mask"
                             /\ p.mask[p.maskCtr % 4].f = s[1].f
                             /\ p.mask[p.maskCtr % 4].n = s[1].n % 4
<1>1. PICK f \in Frame : InData(p, s, f)
  <2>1. PICK f \in Frame : InLen0(p, s, f) \/ InExt(p, s, f) \/ InMask(p, s, f) \/ InData(p, s, f)
    BY DEF InStep
  <2>2. ~InLen0(p, s, f) /\ ~InExt(p, s, f) /\ ~InMask(p, s, f)
    BY DEF InLen0, InExt, InMask
  <2> QED
    BY <2>1, <2>2
<1>2. /\ p.len <= f.len /\ p.maskCtr = f.len - p.len /\ MaskHas(p, f, 4)
      /\ Expect(s, f, (Size(f) + 1) - p.len)
  BY <1>1 DEF InData
<1>3. PICK e \in 0 .. 8, m \in 0 .. 4, l \in 0 .. 255 :
        /\ e = f.ext /\ m = MaskLen(f) /\ l = f.len
        /\ Size(f) = 2 + e + m + l
  BY PartSizes
<1>4. PICK r \in Nat : r = p.len
  BY DEF Priv
<1>5. r <= l /\ r > 0 /\ p.maskCtr = l - r
  BY <1>2, <1>3, <1>4
<1>6. PICK j \in Nat : j = (3 + e + m + l) - r
  <2>1. (3 + e + m + l) - r \in Nat
    BY <1>5
  <2> QED
    BY <2>1
<1>7. (Size(f) + 1) - p.len = j /\ j <= Size(f)
  <2>1. PICK z \in Nat : z = 2 + e + m + l
    OBVIOUS
  <2>2. (z + 1) - r = j /\ j <= z
    BY <1>5, <1>6, <2>1
  <2>3. z = Size(f)
    BY <1>3, <2>1
  <2> QED
    BY <1>4, <2>2, <2>3
<1>8. s[1] = ByteOf(f, j)
  BY <1>2, <1>7 DEF Expect
<1>9. j > 2 + e + m /\ ((j - 3) - e) - m = l - r /\ j \in Int
  BY <1>5, <1>6
<1>10. s[1] = [k |-> "data", f |-> f, n |-> l - r]
  <2>1. e \in Nat /\ m \in Nat /\ e = f.ext /\ m = MaskLen(f)
    BY <1>3
  <2>2. ByteOf(f, j) = [k |-> "data", f |-> f, n |-> ((j - 3) - e) - m]
    <3>1. j > 2 + e + m /\ j \in Int
      BY <1>9
    <3> QED
      BY <2>1, <3>1, ByteIs
  <2>3. ((j - 3) - e) - m = l - r
    BY <1>9
  <2> QED
    BY <1>8, <2>2, <2>3
<1>11. s[1].k = "data" /\ s[1].f = f /\ s[1].n = l - r
  BY <1>10
<1>12. s[1].f.len - s[1].n = p.len
  <2>1. l - (l - r) = r
    BY <1>5
  <2> QED
    BY <1>3, <1>4, <1>11, <2>1
<1>13. ASSUME f.masked
       PROVE  p.mask[p.maskCtr % 4] = [k |-> "mask", f |-> f, n |-> (l - r) % 4]
  <2>1. (l - r) % 4 \in 0 .. 4 - 1
    BY <1>5
  <2>2. \A i \in 0 .. 4 - 1 : p.mask[i] = [k |-> "mask", f |-> f, n |-> i]
    BY <1>2, <1>13 DEF MaskHas
  <2> QED
    BY <1>5, <2>1, <2>2
<1> QED
  BY <1>11, <1>12, <1>13

\* A list of all elements of a set, each of them once, is as long as the set is large.
LEMMA InOrder ==
  ASSUME NEW n \in Nat, NEW q, NEW S, NEW start, NEW nx, LinkedBy(q, n, S, start, nx)
  PROVE  Cardinality(S) = n
<1>1. /\ q \in [1 .. n -> S]
      /\ \A i, j \in 1 .. n : q[i] = q[j] => i = j
      /\ \A x \in S : \E i \in 1 .. n : q[i] = x
  BY DEF LinkedBy
<1>2. q \in Bijection(1 .. n, S)
  BY <1>1 DEF Bijection, Injection, Surjection, IsInjective
<1>3. ExistsBijection(1 .. n, S)
  BY <1>2 DEF ExistsBijection
<1> QED
  BY <1>3, FS_CountingElements

\* The steps of the program. Only Header and Payload read, and only of an open websocket.
LEMMA StreamsStep == Basics /\ Streams /\ [Next]_vars => Streams'
<1> SUFFICES ASSUME Basics, Streams, [Next]_vars
             PROVE  Streams'
  OBVIOUS
<1>1. /\ conn \in [Conns -> {"none", "open", "done", "gone"}]
      /\ priv \in [Conns -> Priv] /\ in \in [Conns -> Seq(Byte)]
  BY DEF Basics, TypeOK
<1>2. ASSUME conn' = conn, priv' = priv, in' = in PROVE Streams'
  <2>1. Streams' <=> \A d \in Conns : StreamOf(conn'[d], priv'[d], in'[d])
    BY DEF Streams, StreamOf, InStep
  <2> QED
    BY <1>2, <2>1 DEF Streams
<1>3. ASSUME NEW c \in Conns, Connect(c) PROVE Streams'
  <2>1. conn[c] = "none" /\ conn' = [conn EXCEPT ![c] = "open"] /\ priv' = priv /\ in' = in
    BY <1>3 DEF Connect
  <2>2. priv[c] = FreshPriv /\ in[c] = <<>>
    BY <2>1 DEF Streams, StreamOf
  <2>3. StreamOf("open", FreshPriv, <<>>)
    BY FreshInStep DEF StreamOf
  <2>4. StreamOf(conn'[c], priv'[c], in'[c])
    BY <1>1, <2>1, <2>2, <2>3
  <2>5. \A d \in Conns : d # c => conn'[d] = conn[d] /\ priv'[d] = priv[d] /\ in'[d] = in[d]
    BY <1>1, <2>1
  <2> QED
    BY <2>4, <2>5, StreamsStay, Zenon
<1>4. ASSUME NEW c \in Conns, NEW k \in {"done", "gone"}, conn' = [conn EXCEPT ![c] = k],
             \A d \in Conns : d # c => priv'[d] = priv[d] /\ in'[d] = in[d]
      PROVE  Streams'
  <2>1. conn'[c] = k /\ \A d \in Conns : d # c => conn'[d] = conn[d]
    BY <1>1, <1>4
  <2>2. StreamOf(conn'[c], priv'[c], in'[c])
    BY <2>1 DEF StreamOf
  <2> QED
    BY <1>4, <2>1, <2>2, StreamsStay, Zenon
<1>5. ASSUME NEW c \in Conns, Disconnect(c) PROVE Streams'
  <2>1. /\ conn' = [conn EXCEPT ![c] = "gone"] /\ in' = [in EXCEPT ![c] = <<>>]
        /\ priv' = [priv EXCEPT ![c] = FreshPriv]
    BY <1>5 DEF Disconnect
  <2>2. \A d \in Conns : d # c => priv'[d] = priv[d] /\ in'[d] = in[d]
    BY <1>1, <2>1
  <2> QED
    BY <1>4, <2>1, <2>2
<1>6. ASSUME NEW c \in Conns, Done(c) PROVE Streams'
  <2>1. PICK rest \in 0 .. Len(in[c]) :
          /\ conn' = [conn EXCEPT ![c] = "done"]
          /\ in' = [in EXCEPT ![c] = SubSeq(@, rest + 1, Len(@))]
          /\ priv' = [priv EXCEPT ![c] = FreshPriv]
    BY <1>6 DEF Done
  <2>2. PICK s : s = SubSeq(in[c], rest + 1, Len(in[c]))
    OBVIOUS
  <2>3. in' = [in EXCEPT ![c] = s]
    BY <2>1, <2>2
  <2>4. \A d \in Conns : d # c => priv'[d] = priv[d] /\ in'[d] = in[d]
    BY <1>1, <2>1, <2>3
  <2> QED
    BY <1>4, <2>1, <2>4
<1>7. ASSUME NEW c \in Conns, NEW p, NEW s, conn' = conn, priv' = [priv EXCEPT ![c] = p],
             in' = [in EXCEPT ![c] = s], conn[c] = "open", InStep(p, s)
      PROVE  Streams'
  <2>1. \A d \in Conns : d # c => conn'[d] = conn[d] /\ priv'[d] = priv[d] /\ in'[d] = in[d]
    BY <1>1, <1>7
  <2>2. conn'[c] = "open" /\ priv'[c] = p /\ in'[c] = s
    BY <1>1, <1>7
  <2>3. StreamOf("open", p, s)
    BY <1>7 DEF StreamOf
  <2>4. StreamOf(conn'[c], priv'[c], in'[c])
    BY <2>2, <2>3
  <2> QED
    BY <2>1, <2>4, StreamsStay, Zenon
<1>8. ASSUME NEW c \in Conns, conn[c] = "open"
      PROVE  priv[c] \in Priv /\ in[c] \in Seq(Byte) /\ InStep(priv[c], in[c])
  BY <1>1, <1>8 DEF Streams, StreamOf
<1>9. ASSUME NEW c \in Conns, seg.c = c PROVE conn[c] = "open"
  BY <1>9, WebsocketAssumption DEF Basics, SegOpen
<1>10. ASSUME NEW c \in Conns, seg.c = c, Header(c) PROVE Streams'
  <2>1. /\ in[c] # <<>> /\ priv[c].status # 14 /\ conn' = conn
        /\ priv' = [priv EXCEPT ![c] = HeaderByte(priv[c], Head(in[c]))]
        /\ in' = [in EXCEPT ![c] = Tail(in[c])]
    BY <1>10 DEF Header, ST_PAYLOAD
  <2>2. conn[c] = "open" /\ priv[c] \in Priv /\ in[c] \in Seq(Byte) /\ InStep(priv[c], in[c])
    BY <1>8, <1>9, <1>10
  <2>3. PICK p \in Priv, s \in Seq(Byte) : p = priv[c] /\ s = in[c]
    BY <2>2
  <2>4. Head(s) = s[1] /\ IsLeft(Tail(s), s, 1)
    BY <2>1, <2>3, TailLeft
  <2>5. InStep(HeaderByte(p, s[1]), Tail(s))
    BY <2>1, <2>2, <2>3, <2>4, HeaderInStep
  <2>6. InStep(HeaderByte(priv[c], Head(in[c])), Tail(in[c]))
    BY <2>3, <2>4, <2>5
  <2> QED
    BY <1>7, <2>1, <2>2, <2>6
<1>11. ASSUME NEW c \in Conns, seg.c = c, NEW sl \in 0 .. Len(in[c]), Payload(c, sl)
       PROVE  Streams'
  <2>1. CASE Done(c)
    BY <1>6, <2>1
  <2>2. CASE ~Done(c)
    <3>1. /\ priv[c].status = 14 /\ sl <= priv[c].len /\ conn' = conn
          /\ priv' = [priv EXCEPT ![c] = Taken(priv[c], sl)]
          /\ in' = [in EXCEPT ![c] = SubSeq(in[c], sl + 1, Len(in[c]))]
      BY <1>11, <2>2 DEF Payload, ST_PAYLOAD
    <3>2. conn[c] = "open" /\ priv[c] \in Priv /\ in[c] \in Seq(Byte) /\ InStep(priv[c], in[c])
      BY <1>8, <1>9, <1>11
    <3>3. PICK t : t = SubSeq(in[c], sl + 1, Len(in[c]))
      OBVIOUS
    <3>4. IsLeft(t, in[c], sl)
      BY <3>2, <3>3, LeftType DEF IsLeft
    <3>5. InStep(Taken(priv[c], sl), t)
      BY <3>1, <3>2, <3>4, PayloadInStep
    <3>6. in' = [in EXCEPT ![c] = t]
      BY <3>1, <3>3
    <3> QED
      BY <1>7, <3>1, <3>2, <3>5, <3>6
  <2> QED
    BY <2>1, <2>2
<1>12. ASSUME NEW c \in Talkers, NEW f \in Frames, SendFrame(c, f) PROVE Streams'
  <2>1. c \in Conns /\ f \in Frame
    BY WebsocketAssumption
  <2>2. /\ conn[c] = "open" /\ conn' = conn /\ priv' = priv
        /\ in' = [in EXCEPT ![c] = in[c] \o Bytes(f)]
    BY <1>12 DEF SendFrame
  <2>3. priv' = [priv EXCEPT ![c] = priv[c]]
    BY <1>1, <2>1, <2>2
  <2>4. InStep(priv[c], in[c] \o Bytes(f))
    BY <1>8, <2>1, <2>2, SentInStep
  <2> QED
    BY <1>7, <2>1, <2>2, <2>3, <2>4
<1>13. CASE UNCHANGED vars
  BY <1>2, <1>13 DEF vars
<1>14. ASSUME NEW c \in Conns, Recv(c) PROVE Streams'
  BY <1>2, <1>14 DEF Recv
<1>15. ASSUME EndRecv PROVE Streams'
  BY <1>2, <1>15 DEF EndRecv
<1>16. ASSUME Broadcaster PROVE Streams'
  BY <1>2, <1>16 DEF Broadcaster, Start, Check, Send, GoOn
<1> QED
  BY <1>3, <1>5, <1>10, <1>11, <1>12, <1>13, <1>14, <1>15, <1>16 DEF Next, Server, Client

LEMMA StreamsStart == Init => Streams
BY DEF Init, Streams, StreamOf

-----------------------------------------------------------------------------
(* What the runs check, in general.                                         *)

LEMMA BasicsHold == Spec => []Basics
BY BasicsStart, BasicsStep, PTL DEF Spec

LEMMA ListsHold == Spec => []Lists
BY BasicsHold, ListsStart, ListsStep, PTL DEF Spec

LEMMA WalksHold == Spec => []Walks
BY BasicsHold, ListsHold, WalksStart, WalksStep, PTL DEF Spec

LEMMA StreamsHold == Spec => []Streams
BY BasicsHold, StreamsStart, StreamsStep, PTL DEF Spec

\* Every variable has its type, whatever the frames and however many websockets: the
\* parser's state, the list and what the broadcaster is at. (cgiwebsocket.c)
THEOREM WebsocketTypes == Spec => []TypeOK
<1>1. Basics => TypeOK
  BY DEF Basics
<1> QED
  BY <1>1, BasicsHold, PTL

\* However many websockets come and go, and in whatever order, the list has every open
\* one once and no freed one. (cgiWebsocket, websockFree)
THEOREM ListStaysWhole == Spec => []ListIsExact
<1>1. ASSUME Lists
      PROVE  ListIsExact
  <2>1a. PICK n \in Nat : \E q : LinkedBy(q, n, Open, llStart, next)
    BY <1>1 DEF Lists, Chained
  <2>1. PICK q : LinkedBy(q, n, Open, llStart, next)
    BY <2>1a
  <2>2. Open \subseteq Conns
    BY DEF Open
  <2>3. (llStart = Null <=> n = 0) /\ (n = 0 <=> Open = {})
    BY <2>1, <2>2, NothingLinked
  <2>4. /\ q \in [1 .. n -> Open]
        /\ \A i, j \in 1 .. n : q[i] = q[j] => i = j
        /\ \A x \in Open : \E i \in 1 .. n : q[i] = x
        /\ llStart = IF n = 0 THEN Null ELSE q[1]
        /\ \A i \in 1 .. n : next[q[i]] = IF i = n THEN Null ELSE q[i + 1]
    BY <2>1 DEF LinkedBy
  <2>5. Cardinality(Open) = n
    BY <2>1, InOrder
  <2>6. q \in Orders(Open) /\ DOMAIN q = 1 .. Cardinality(Open)
    BY <2>4, <2>5 DEF Orders
  <2>7. CASE Open = {}
    BY <2>3, <2>7 DEF ListIsExact
  <2>8. CASE Open # {}
    <3>1. llStart = q[1]
      BY <2>3, <2>4, <2>8
    <3>2. \A i \in DOMAIN q : next[q[i]] = IF i = Cardinality(Open) THEN Null ELSE q[i + 1]
      BY <2>4, <2>5, <2>6
    <3> QED
      BY <2>6, <2>8, <3>1, <3>2, Zenon DEF ListIsExact
  <2> QED
    BY <2>7, <2>8
<1> QED
  BY <1>1, ListsHold, PTL

\* A ping of any length up to what the code accepts, in whatever pieces it comes, is
\* answered by one pong whose head announces what is sent. (cgiWebSocketRecv)
THEOREM PongsAreWhole == Spec => []PongIsComplete
<1>1. Basics => PongIsComplete
  BY DEF Basics, Pongs, PongIsComplete, Open
<1> QED
  BY <1>1, BasicsHold, PTL

\* A broadcast reaches every websocket of its resource that is open all the time,
\* whichever others come and go and however often the walk and the callbacks of the
\* server task take turns. (cgiWebsockBroadcast, websockFree)
THEOREM EveryoneIsReached == Spec => []BroadcastReachesAll
<1>1. Walks => BroadcastReachesAll
  BY DEF Walks, BroadcastReachesAll
<1> QED
  BY <1>1, WalksHold, PTL

\* For every frame a client may send, with or without a mask, with a length of any form,
\* and wherever the segments end: the parser waits for the byte that comes next, knows how
\* much of the payload is left and has the mask that belongs to it. (cgiWebSocketRecv)
THEOREM ParserStaysInStep == Spec => []ParserInStep
<1>1. ASSUME Basics, Streams, NEW c \in Open
      PROVE  LET p == priv[c]
                 rest == in[c]
             IN /\ p.status = ST_FLAGS => rest = <<>> \/ Head(rest).k = "flags"
                /\ p.status = ST_PAYLOAD /\ p.len > 0 /\ rest # <<>> =>
                     LET b == Head(rest)
                     IN /\ b.k = "data" /\ b.f.len - b.n = p.len
                        /\ b.f.masked =>
                             LET m == p.mask[p.maskCtr % 4]
                             IN m.k = "mask" /\ m.f = b.f /\ m.n = b.n % 4
  <2>1. /\ c \in Conns /\ priv[c] \in Priv /\ in[c] \in Seq(Byte)
        /\ InStep(priv[c], in[c])
    BY <1>1 DEF Basics, TypeOK, Streams, StreamOf, Open
  <2>2. PICK p \in Priv, s \in Seq(Byte) : p = priv[c] /\ s = in[c]
    BY <2>1
  <2>3. ASSUME s # <<>> PROVE Head(s) = s[1]
    OBVIOUS
  <2>4. ASSUME p.status = 0, s # <<>> PROVE s[1].k = "flags"
    BY <2>1, <2>2, <2>4, StartsFrame
  <2>5. ASSUME p.status = 14, p.len > 0, s # <<>>
        PROVE  /\ s[1].k = "data" /\ s[1].f.len - s[1].n = p.len
               /\ s[1].f.masked => /\ p.mask[p.maskCtr % 4].k = "mask"
                                   /\ p.mask[p.maskCtr % 4].f = s[1].f
                                   /\ p.mask[p.maskCtr % 4].n = s[1].n % 4
    BY <2>1, <2>2, <2>5, KnowsPayload
  <2> QED
    BY <2>2, <2>3, <2>4, <2>5 DEF ST_FLAGS, ST_PAYLOAD
<1>2. Basics /\ Streams => ParserInStep
  BY <1>1, Zenon DEF ParserInStep
<1> QED
  BY <1>2, BasicsHold, StreamsHold, PTL
=============================================================================
