--------------------------- MODULE WifiScanProofs ---------------------------
(***************************************************************************)
(* What holds of the list of access points for every number of clients,    *)
(* every size of the list and every number of access points a scan finds.  *)
(***************************************************************************)
EXTENDS WifiScan, Integers, SequenceTheorems, FiniteSetTheorems, TLAPS

\* A sequence of one element.
LEMMA Single ==
  ASSUME NEW S, NEW x \in S
  PROVE  \E s \in Seq(S) : s = <<x>> /\ Len(s) = 1 /\ s[1] = x
<1>1. <<x>> \in Seq(S) /\ Len(<<x>>) = 1 /\ <<x>>[1] = x
  OBVIOUS
<1> QED
  BY <1>1, Zenon

\* What stands where in two sequences one after the other.
LEMMA Joined ==
  ASSUME NEW S, NEW s \in Seq(S), NEW t \in Seq(S)
  PROVE  /\ s \o t \in Seq(S)
         /\ Len(s \o t) = Len(s) + Len(t)
         /\ \A i \in 1 .. Len(s) + Len(t) :
              (s \o t)[i] = IF i <= Len(s) THEN s[i] ELSE t[i - Len(s)]
BY ConcatProperties, Zenon

LEMMA OneAndOne ==
  ASSUME NEW S, NEW x \in S, NEW y \in S
  PROVE  \A n : n = <<x>> \o <<y>> => n \in Seq(S) /\ Len(n) = 2 /\ n[1] = x /\ n[2] = y
<1>1. PICK s \in Seq(S) : s = <<x>> /\ Len(s) = 1 /\ s[1] = x
  BY Single
<1>2. PICK t \in Seq(S) : t = <<y>> /\ Len(t) = 1 /\ t[1] = y
  BY Single
<1>3. /\ s \o t \in Seq(S)
      /\ Len(s \o t) = Len(s) + Len(t)
      /\ \A i \in 1 .. Len(s) + Len(t) :
           (s \o t)[i] = IF i <= Len(s) THEN s[i] ELSE t[i - Len(s)]
  BY Joined, Zenon
<1>4. TAKE n
<1>5. HAVE n = <<x>> \o <<y>>
<1>6. n = s \o t
  BY <1>1, <1>2, <1>5
<1>7.  n \in Seq(S) /\ Len(n) = 2 /\ n[1] = s[1] /\ n[2] = t[1]
  BY <1>1, <1>2, <1>3, <1>6
<1> QED
  BY <1>1, <1>2, <1>7

LEMMA OneMore ==
  ASSUME NEW S, NEW s \in Seq(S), NEW x \in S
  PROVE  \A n : n = s \o <<x>> =>
           /\ n \in Seq(S) /\ Len(n) = Len(s) + 1
           /\ n[Len(s) + 1] = x
           /\ \A i \in 1 .. Len(s) : n[i] = s[i]
BY SMT

\* A record as the driver reports it, and a piece of the text a client is sent.
Record == Nat \X Nat
Entry == [record : Record, sep : {"", ","}]
Piece == {"APs", "]", "inProgress"} \cup Entry

Call == [phase : {"none", "call", "more", "done"}, gone : BOOLEAN, pos : Nat,
         body : Seq(Piece)]

Types ==
  /\ scanresult \in Nat \cup {None}
  /\ ap_scan_state \in {0, 1}
  /\ aps \in Seq(Record)
  /\ scans \in Nat
  /\ driver \in [buf : Nat \cup {None}, todo : Seq(Record)]
  /\ found \in Seq(Seq(Record)) /\ Len(found) = scans
  /\ calls \in [Conns -> Call]
  /\ overtaken \subseteq Conns
  /\ blocks \in Int

InCall == {c \in Conns : calls[c].phase = "call"}

\* The driver has a buffer only while a scan is under way, and that is the one that
\* is allocated. The server task is in one call at most, which holds the text buffer,
\* and there is a scan result as long as it lasts.
Memory ==
  /\ scanresult # None => scanresult = scans
  /\ scanresult = None => ap_scan_state = 0
  /\ driver.buf # None => driver.buf = scanresult /\ ap_scan_state = 1
  /\ driver.buf = None => driver.todo = <<>>
  /\ ApNum <= MaxAps
  /\ \A c, d \in InCall : c = d
  /\ InCall # {} => scanresult # None
  /\ blocks = (IF InCall = {} THEN 0 ELSE 1) + (IF scanresult = None THEN 0 ELSE 1)

\* The buffer has the first records of what the scan finds, as many as were reported and
\* fit; the driver has the rest.
Buffer ==
  scanresult # None =>
    /\ scans > 0
    /\ Len(driver.todo) <= Len(found[scans])
    /\ \E m \in Nat :
         /\ m + Len(driver.todo) = Len(found[scans])
         /\ \A k \in 1 .. Len(driver.todo) : driver.todo[k] = found[scans][m + k]
         /\ ApNum = (IF m < MaxAps THEN m ELSE MaxAps)
         /\ \A k \in 1 .. ApNum : aps[k] = found[scans][k]

\* A client in the middle of its list has had the first pos entries of the buffer, which
\* stays what it is.
EntryAt(k) == [record |-> aps[k], sep |-> IF k = ApNum THEN "" ELSE ","]

InMiddle(call) ==
  /\ call.phase = "none" => ~call.gone
  /\ call.phase = "more" => call.pos > 0
  /\ call.pos = 0 => call.body = <<>>
  /\ call.pos > 0 =>
       /\ scanresult # None /\ ap_scan_state = 0 /\ call.phase # "none"
       /\ call.pos <= ApNum
       /\ Len(call.body) = call.pos + 1
       /\ call.body[1] = "APs"
       /\ \A k \in 1 .. call.pos : call.body[k + 1] = EntryAt(k)

Middle ==
  \A c \in Conns \ overtaken : calls[c].phase # "done" => InMiddle(calls[c])

-----------------------------------------------------------------------------
(* Types.                                                                   *)

\* What the calls leave: one of them is in its new phase, with text that is longer by
\* some pieces or not at all.
LEMMA SentIsText ==
  ASSUME Types, NEW c \in Conns, NEW pieces \in Seq(Piece)
  PROVE  Sent(calls[c], pieces) \in Seq(Piece)
<1>1. calls[c].body \in Seq(Piece)
  BY DEF Types, Call
<1> QED
  BY <1>1, ConcatProperties DEF Sent

LEMMA DoneIsTyped ==
  ASSUME Types, NEW c \in Conns, NEW pieces \in Seq(Piece), Done(c, pieces)
  PROVE  /\ calls' \in [Conns -> Call]
         /\ calls'[c].phase = "done"
         /\ calls'[c] = [phase |-> "done", gone |-> calls[c].gone, pos |-> calls[c].pos,
                         body |-> Sent(calls[c], pieces)]
         /\ \A d \in Conns \ {c} : calls'[d] = calls[d]
<1> DEFINE b == Sent(calls[c], pieces)
<1>1. b \in Seq(Piece)
  BY SentIsText
<1>2. calls' = [calls EXCEPT ![c].phase = "done", ![c].body = b]
  BY DEF Done
<1> HIDE DEF b
<1>3. /\ calls'[c] = [phase |-> "done", gone |-> calls[c].gone, pos |-> calls[c].pos,
                      body |-> b]
      /\ \A d \in Conns \ {c} : calls'[d] = calls[d]
  BY <1>2 DEF Types, Call
<1>4. calls'[c] \in Call
  BY <1>1, <1>3 DEF Types, Call
<1>5. calls' \in [Conns -> Call]
  BY <1>2, <1>3, <1>4 DEF Types
<1>6. calls'[c].phase = "done"
  BY <1>3
<1> QED
  BY <1>3, <1>5, <1>6 DEF b

\* A call that begins changes its phase and whether its connection is gone.
LEMMA CallBegins ==
  ASSUME Types, NEW c \in Conns, ScanCallBegins(c)
  PROVE  \E aborted \in BOOLEAN :
           /\ Called(c, aborted)
           /\ calls' \in [Conns -> Call]
           /\ calls'[c].phase = "call"
           /\ calls'[c] = [phase |-> "call", gone |-> aborted, pos |-> calls[c].pos,
                           body |-> calls[c].body]
           /\ \A d \in Conns \ {c} : calls'[d] = calls[d]
<1>1. PICK aborted \in BOOLEAN :
        /\ Called(c, aborted)
        /\ calls' = [calls EXCEPT ![c].phase = "call", ![c].gone = aborted]
  BY DEF ScanCallBegins
<1>2. calls[c] \in Call
  BY DEF Types
<1>3. /\ calls'[c] = [phase |-> "call", gone |-> aborted, pos |-> calls[c].pos,
                      body |-> calls[c].body]
      /\ \A d \in Conns \ {c} : calls'[d] = calls[d]
  BY <1>1, <1>2 DEF Types, Call
<1>4. calls'[c] \in Call
  BY <1>2, <1>3 DEF Call
<1>5. calls' \in [Conns -> Call]
  BY <1>1, <1>3, <1>4 DEF Types
<1>6. calls'[c].phase = "call"
  BY <1>3
<1> QED
  BY <1>1, <1>3, <1>5, <1>6

LEMMA PiecesAreText ==
  ASSUME Types, NEW pos \in Nat
  PROVE  /\ Opening(pos) \in Seq(Piece)
         /\ Opening(pos) \o <<"]">> \in Seq(Piece)
         /\ <<"inProgress">> \in Seq(Piece)
         /\ Listing(pos) =>
              Opening(pos) \o <<[record |-> aps[pos + 1], sep |-> Separator(pos)]>> \in Seq(Piece)
<1>1. Opening(pos) \in Seq(Piece) /\ <<"]">> \in Seq(Piece) /\ <<"inProgress">> \in Seq(Piece)
  <2>1. "APs" \in Piece /\ "]" \in Piece /\ "inProgress" \in Piece
    BY DEF Piece
  <2> QED
    BY <2>1 DEF Opening
<1>2. ASSUME Listing(pos)
      PROVE  <<[record |-> aps[pos + 1], sep |-> Separator(pos)]>> \in Seq(Piece)
  <2>1. aps[pos + 1] \in Record
    BY <1>2, ElementOfSeq DEF Types, Listing, ApNum
  <2>2. Separator(pos) \in {"", ","}
    BY DEF Separator
  <2>3. [record |-> aps[pos + 1], sep |-> Separator(pos)] \in Piece
    BY <2>1, <2>2 DEF Piece, Entry
  <2> QED
    BY <2>3
<1> QED
  BY <1>1, <1>2, ConcatProperties

\* A call that sends an entry.
LEMMA ApIsSent ==
  ASSUME Types, NEW c \in Conns, SendAp(c)
  PROVE  \E b \in Seq(Piece) :
           /\ b = Sent(calls[c], Opening(calls[c].pos)
                      \o <<[record |-> aps[calls[c].pos + 1], sep |-> Separator(calls[c].pos)]>>)
           /\ calls' \in [Conns -> Call]
           /\ calls'[c].phase # "call"
           /\ calls'[c] = [phase |-> IF calls[c].gone THEN "done" ELSE "more",
                           gone |-> calls[c].gone,
                           pos |-> IF calls[c].gone THEN calls[c].pos ELSE calls[c].pos + 1,
                           body |-> b]
           /\ \A d \in Conns \ {c} : calls'[d] = calls[d]
<1> DEFINE b == Sent(calls[c], Opening(calls[c].pos)
                  \o <<[record |-> aps[calls[c].pos + 1], sep |-> Separator(calls[c].pos)]>>)
<1>1. calls[c].pos \in Nat /\ Listing(calls[c].pos) /\ calls[c] \in Call
  BY DEF SendAp, Types, Call
<1>2. b \in Seq(Piece)
  BY <1>1, PiecesAreText, SentIsText
<1>3. calls' = [calls EXCEPT ![c].phase = IF calls[c].gone THEN "done" ELSE "more",
                             ![c].pos = IF calls[c].gone THEN @ ELSE @ + 1,
                             ![c].body = b]
  BY DEF SendAp
<1> HIDE DEF b
<1>4. /\ calls'[c] = [phase |-> IF calls[c].gone THEN "done" ELSE "more",
                           gone |-> calls[c].gone,
                           pos |-> IF calls[c].gone THEN calls[c].pos ELSE calls[c].pos + 1,
                           body |-> b]
      /\ \A d \in Conns \ {c} : calls'[d] = calls[d]
  BY <1>1, <1>3 DEF Types, Call
<1>5. calls'[c] \in Call
  BY <1>1, <1>2, <1>4 DEF Call
<1>6. calls' \in [Conns -> Call]
  BY <1>3, <1>4, <1>5 DEF Types
<1>7. calls'[c].phase # "call"
  BY <1>4
<1> QED
  BY <1>2, <1>4, <1>6, <1>7 DEF b

LEMMA ScanStarts ==
  ASSUME Types, StartScan
  PROVE  /\ scanresult' = scans + 1 /\ scans' = scans + 1
         /\ ap_scan_state' = 1 /\ aps' = <<>>
         /\ found' \in Seq(Seq(Record)) /\ Len(found') = scans'
         /\ \A k \in 1 .. scans : found'[k] = found[k]
         /\ driver' \in [buf : Nat \cup {None}, todo : Seq(Record)]
         /\ \/ driver'.buf = scans' /\ driver'.todo = found'[scans']
            \/ driver'.buf = None /\ driver'.todo = <<>> /\ found'[scans'] = <<>>
<1>1. scanresult' = scans + 1 /\ scans' = scans + 1 /\ ap_scan_state' = 1 /\ aps' = <<>>
  BY DEF StartScan
<1>2. \E f \in Seq(Record) :
        /\ found' = Append(found, f)
        /\ \/ driver' = [buf |-> scans', todo |-> found'[scans']]
           \/ driver' = Idle /\ f = <<>>
  <2>1. CASE \E n \in 0 .. MaxFound :
               /\ found' = Append(found, [k \in 1 .. n |-> <<scans', k>>])
               /\ driver' = [buf |-> scans', todo |-> found'[scans']]
    <3>1. PICK n \in 0 .. MaxFound :
               /\ found' = Append(found, [k \in 1 .. n |-> <<scans', k>>])
               /\ driver' = [buf |-> scans', todo |-> found'[scans']]
      BY <2>1
    <3>2. n \in Nat
      BY ApsAssumption
    <3>3. [k \in 1 .. n |-> <<scans', k>>] \in [1 .. n -> Record]
      BY <3>2, <1>1 DEF Types, Record
    <3>4. [k \in 1 .. n |-> <<scans', k>>] \in Seq(Record)
      BY <3>2, <3>3, SeqDef
    <3> QED
      BY <3>1, <3>4
  <2>2. CASE found' = Append(found, <<>>) /\ driver' = Idle
    BY <2>2, EmptySeq
  <2> QED
    BY <2>1, <2>2 DEF StartScan
<1>3. PICK f \in Seq(Record) :
        /\ found' = Append(found, f)
        /\ \/ driver' = [buf |-> scans', todo |-> found'[scans']]
           \/ driver' = Idle /\ f = <<>>
  BY <1>2
<1>4. /\ found' \in Seq(Seq(Record)) /\ Len(found') = scans'
      /\ \A k \in 1 .. scans : found'[k] = found[k]
      /\ found'[scans'] = f
  BY <1>1, <1>3, AppendProperties DEF Types
<1> QED
  BY <1>1, <1>3, <1>4 DEF Types, Idle

LEMMA StoredIsList ==
  ASSUME Types, driver.todo # <<>>
  PROVE  /\ Stored(Head(driver.todo)) \in Seq(Record)
         /\ Head(driver.todo) \in Record /\ Head(driver.todo) = driver.todo[1]
         /\ Tail(driver.todo) \in Seq(Record)
         /\ Len(driver.todo) > 0 /\ Len(Tail(driver.todo)) = Len(driver.todo) - 1
         /\ \A k \in 1 .. Len(driver.todo) - 1 : Tail(driver.todo)[k] = driver.todo[k + 1]
<1>1. driver.todo \in Seq(Record)
  BY DEF Types
<1>2. /\ Head(driver.todo) \in Record /\ Head(driver.todo) = driver.todo[1]
      /\ Tail(driver.todo) \in Seq(Record)
      /\ Len(driver.todo) > 0 /\ Len(Tail(driver.todo)) = Len(driver.todo) - 1
      /\ \A k \in 1 .. Len(driver.todo) - 1 : Tail(driver.todo)[k] = driver.todo[k + 1]
  BY <1>1, HeadTailProperties, EmptySeq, LenProperties
<1>3. Stored(Head(driver.todo)) \in Seq(Record)
  BY <1>2, AppendProperties DEF Stored, Types
<1> QED
  BY <1>2, <1>3

LEMMA InitTypes == Init => Types
BY EmptySeq DEF Init, Types, Call, Idle

LEMMA NextTypes == Types /\ [Next]_vars => Types'
<1> SUFFICES ASSUME Types, [Next]_vars PROVE Types'
  OBVIOUS
<1>1. CASE ScanFound
  <2>1. driver' = [driver EXCEPT !.todo = Tail(@)] /\ aps' = Stored(Head(driver.todo))
    BY <1>1 DEF ScanFound
  <2>2. driver' \in [buf : Nat \cup {None}, todo : Seq(Record)] /\ aps' \in Seq(Record)
    BY <1>1, <2>1, StoredIsList DEF ScanFound, Types
  <2> QED
    BY <1>1, <2>2 DEF ScanFound, Types
<1>2. CASE ScanComplete
  BY <1>2 DEF ScanComplete, Types, AfterScan, Idle
<1>3. ASSUME NEW c \in Conns, ScanCallBegins(c) PROVE Types'
  <2>1. calls' \in [Conns -> Call]
    BY <1>3, CallBegins
  <2>2. CASE scanresult = None
    <3>1. StartScan /\ blocks' = blocks + 2 /\ overtaken' = overtaken
      BY <1>3, <2>2 DEF ScanCallBegins
    <3>2. scans + 1 \in Nat /\ blocks + 2 \in Int /\ <<>> \in Seq(Record)
      BY EmptySeq DEF Types
    <3>3. /\ scanresult' = scans + 1 /\ scans' = scans + 1
          /\ ap_scan_state' = 1 /\ aps' = <<>>
          /\ found' \in Seq(Seq(Record)) /\ Len(found') = scans'
          /\ driver' \in [buf : Nat \cup {None}, todo : Seq(Record)]
      BY <3>1, ScanStarts
    <3> QED
      BY <2>1, <3>1, <3>2, <3>3 DEF Types
  <2>3. CASE scanresult # None
    BY <1>3, <2>1, <2>3 DEF ScanCallBegins, Types, scanVars
  <2> QED
    BY <2>2, <2>3
<1>4. ASSUME NEW c \in Conns, ScanNoMemory(c) PROVE Types'
  <2>1. calls' \in [Conns -> Call]
    <3>1. Done(c, <<>>) /\ <<>> \in Seq(Piece)
      BY <1>4, EmptySeq DEF ScanNoMemory
    <3> QED
      BY <3>1, DoneIsTyped, Zenon
  <2> QED
    BY <1>4, <2>1 DEF ScanNoMemory, Types, scanVars
<1>5. ASSUME NEW c \in Conns, StillScanning(c) PROVE Types'
  <2>1. calls' \in [Conns -> Call]
    <3>1. Done(c, <<"inProgress">>)
      BY <1>5 DEF StillScanning
    <3>2. <<"inProgress">> \in Seq(Piece)
      BY PiecesAreText
    <3> QED
      BY <3>1, <3>2, DoneIsTyped, Zenon
  <2> QED
    BY <1>5, <2>1 DEF StillScanning, Types, scanVars
<1>6. ASSUME NEW c \in Conns, SendAp(c) PROVE Types'
  <2>1. calls' \in [Conns -> Call]
    BY <1>6, ApIsSent
  <2> QED
    BY <1>6, <2>1 DEF SendAp, Types, scanVars
<1>7. ASSUME NEW c \in Conns, EndList(c) PROVE Types'
  <2>1. calls[c].pos \in Nat
    BY DEF Types, Call
  <2>2. calls' \in [Conns -> Call]
    <3>1. Done(c, Opening(calls[c].pos) \o <<"]">>)
      BY <1>7 DEF EndList
    <3>2. Opening(calls[c].pos) \o <<"]">> \in Seq(Piece)
      BY <2>1, PiecesAreText
    <3> QED
      BY <3>1, <3>2, DoneIsTyped, Zenon
  <2> QED
    BY <1>7, <2>2 DEF EndList, Types
<1>8. CASE UNCHANGED vars
  BY <1>8 DEF vars, Types
<1> QED
  BY <1>1, <1>2, <1>3, <1>4, <1>5, <1>6, <1>7, <1>8 DEF Next

\* The state of the function is well typed. (cgiWiFiScan, ap_scan_result_handler)
THEOREM WifiTypes == Spec => []Types
BY InitTypes, NextTypes, PTL DEF Spec

-----------------------------------------------------------------------------
(* The memory.                                                              *)

\* What a call does to the set of calls that are under way.
LEMMA OneEnters ==
  ASSUME NEW c \in Conns, calls'[c].phase = "call", \A d \in Conns \ {c} : calls'[d] = calls[d],
         TaskFree
  PROVE  InCall = {} /\ InCall' = {c}
BY DEF InCall, TaskFree

LEMMA OneLeaves ==
  ASSUME NEW c \in Conns, calls'[c].phase # "call", \A d \in Conns \ {c} : calls'[d] = calls[d],
         calls[c].phase = "call", Memory
  PROVE  InCall = {c} /\ InCall' = {} /\ scanresult # None
BY DEF InCall, Memory

LEMMA InitMemory == Init => Memory
BY ApsAssumption DEF Init, Memory, InCall, Idle, ApNum

LEMMA NextMemory == Types /\ Memory /\ [Next]_vars => Memory'
<1> SUFFICES ASSUME Types, Memory, [Next]_vars PROVE Memory'
  OBVIOUS
<1>1. CASE ScanFound
  <2>1. driver'.buf = driver.buf /\ driver.buf # None
    BY <1>1 DEF ScanFound, Types, Memory
  <2>2. Len(aps') <= MaxAps
    <3>1. Head(driver.todo) \in Record /\ Len(aps) \in Nat
      BY <1>1, StoredIsList, LenProperties DEF ScanFound, Types
    <3> QED
      BY <1>1, <3>1, AppendProperties, ApsAssumption
      DEF ScanFound, Types, Memory, Stored, ApNum
  <2> QED
    BY <1>1, <2>1, <2>2 DEF ScanFound, Memory, ApNum, InCall
<1>2. CASE ScanComplete
  BY <1>2 DEF ScanComplete, Memory, AfterScan, Idle, ApNum, InCall
<1>3. ASSUME NEW c \in Conns, ScanCallBegins(c) PROVE Memory'
  <2>1. InCall = {} /\ InCall' = {c}
    <3>1. calls'[c].phase = "call" /\ \A d \in Conns \ {c} : calls'[d] = calls[d]
      BY <1>3, CallBegins
    <3> QED
      BY <1>3, <3>1, OneEnters DEF ScanCallBegins
  <2>2. CASE scanresult = None
    <3>1. StartScan /\ blocks' = blocks + 2
      BY <1>3, <2>2 DEF ScanCallBegins
    <3>2. /\ scanresult' = scans + 1 /\ scans' = scans + 1
          /\ ap_scan_state' = 1 /\ aps' = <<>>
          /\ \/ driver'.buf = scans'
             \/ driver'.buf = None /\ driver'.todo = <<>>
      BY <3>1, ScanStarts
    <3>3. scans + 1 # None /\ Len(aps') <= MaxAps
      BY <3>2, ApsAssumption DEF Types
    <3> QED
      BY <2>1, <2>2, <3>1, <3>2, <3>3 DEF Memory, Types, ApNum
  <2>3. CASE scanresult # None
    BY <1>3, <2>1, <2>3 DEF ScanCallBegins, Memory, Types, scanVars, ApNum
  <2> QED
    BY <2>2, <2>3
<1>4. ASSUME NEW c \in Conns, ScanNoMemory(c) PROVE Memory'
  <2>1. InCall' = {} /\ InCall = {}
    <3>1. Done(c, <<>>) /\ <<>> \in Seq(Piece)
      BY <1>4, EmptySeq DEF ScanNoMemory
    <3>2. calls'[c].phase = "done" /\ \A d \in Conns \ {c} : calls'[d] = calls[d]
      BY <3>1, DoneIsTyped, Zenon
    <3> QED
      BY <1>4, <3>2 DEF InCall, ScanNoMemory, TaskFree
  <2> QED
    BY <1>4, <2>1 DEF ScanNoMemory, Memory, scanVars, ApNum
<1>5. ASSUME NEW c \in Conns, StillScanning(c) PROVE Memory'
  <2>1. InCall = {c} /\ InCall' = {} /\ scanresult # None
    <3>1. Done(c, <<"inProgress">>) /\ <<"inProgress">> \in Seq(Piece)
      BY <1>5, PiecesAreText DEF StillScanning
    <3>2. calls'[c].phase = "done" /\ \A d \in Conns \ {c} : calls'[d] = calls[d]
      BY <3>1, DoneIsTyped, Zenon
    <3> QED
      BY <1>5, <3>2, OneLeaves DEF StillScanning
  <2> QED
    BY <1>5, <2>1 DEF StillScanning, Memory, scanVars, ApNum
<1>6. ASSUME NEW c \in Conns, SendAp(c) PROVE Memory'
  <2>1. InCall = {c} /\ InCall' = {} /\ scanresult # None
    <3>1. calls'[c].phase # "call" /\ \A d \in Conns \ {c} : calls'[d] = calls[d]
      BY <1>6, ApIsSent
    <3> QED
      BY <1>6, <3>1, OneLeaves DEF SendAp
  <2> QED
    BY <1>6, <2>1 DEF SendAp, Memory, scanVars, ApNum
<1>7. ASSUME NEW c \in Conns, EndList(c) PROVE Memory'
  <2>1. InCall = {c} /\ InCall' = {} /\ scanresult # None
    <3>1. Done(c, Opening(calls[c].pos) \o <<"]">>) /\ calls[c].pos \in Nat
      BY <1>7 DEF EndList, Types, Call
    <3>2. Opening(calls[c].pos) \o <<"]">> \in Seq(Piece)
      BY <3>1, PiecesAreText
    <3>3. calls'[c].phase = "done" /\ \A d \in Conns \ {c} : calls'[d] = calls[d]
      BY <3>1, <3>2, DoneIsTyped, Zenon
    <3> QED
      BY <1>7, <3>3, OneLeaves DEF EndList
  <2> QED
    BY <1>7, <2>1 DEF EndList, Memory, ApNum
<1>8. CASE UNCHANGED vars
  BY <1>8 DEF vars, Memory, InCall, ApNum
<1> QED
  BY <1>1, <1>2, <1>3, <1>4, <1>5, <1>6, <1>7, <1>8 DEF Next

LEMMA MemorySuffices == Types /\ Memory => MemoryKept
<1> SUFFICES ASSUME Types, Memory PROVE MemoryKept
  OBVIOUS
<1>1. Cardinality(InCall) = IF InCall = {} THEN 0 ELSE 1
  <2>1. CASE InCall = {}
    BY <2>1, FS_EmptySet
  <2>2. CASE InCall # {}
    <3>1. PICK c \in InCall : InCall = {c}
      BY <2>2 DEF Memory
    <3> QED
      BY <2>2, <3>1, FS_Singleton
  <2> QED
    BY <2>1, <2>2
<1> QED
  BY <1>1 DEF MemoryKept, DriverHasBuffer, NothingHeld, Memory, InCall

\* The driver never writes to a buffer that was freed or replaced, and between its calls
\* the function holds nothing but the result of the scan, for any number of clients and
\* any sizes, though clients leave in the middle and the driver may refuse a scan.
\* (cgiWiFiScan, ap_scan_result_handler)
THEOREM MemoryIsKept == Spec => []MemoryKept
<1>1. Spec => []Memory
  BY WifiTypes, InitMemory, NextMemory, PTL DEF Spec
<1> QED
  BY <1>1, WifiTypes, MemorySuffices, PTL

-----------------------------------------------------------------------------
(* The list.                                                                *)

LEMMA NextBuffer == Types /\ Memory /\ Buffer /\ [Next]_vars => Buffer'
<1> SUFFICES ASSUME Types, Memory, Buffer, [Next]_vars PROVE Buffer'
  OBVIOUS
<1>1. CASE ScanFound
  <2>1. scanresult # None /\ scanresult' # None /\ scans' = scans /\ found' = found
    BY <1>1 DEF ScanFound, Memory, Types
  <2>0. Len(found[scans]) \in Nat /\ Len(aps) \in Nat /\ MaxAps \in Nat
    <3>1. found[scans] \in Seq(Record)
      BY <2>1, ElementOfSeq DEF Types, Buffer
    <3> QED
      BY <3>1, LenProperties, ApsAssumption DEF Types
  <2>2. PICK m \in Nat :
         /\ m + Len(driver.todo) = Len(found[scans])
         /\ \A k \in 1 .. Len(driver.todo) : driver.todo[k] = found[scans][m + k]
         /\ ApNum = (IF m < MaxAps THEN m ELSE MaxAps)
         /\ \A k \in 1 .. ApNum : aps[k] = found[scans][k]
    BY <2>1 DEF Buffer
  <2>3. /\ driver'.todo = Tail(driver.todo)
        /\ aps' = IF ApNum < MaxAps THEN Append(aps, driver.todo[1]) ELSE aps
    BY <1>1, StoredIsList DEF ScanFound, Types, Stored
  <2>4. /\ Len(driver.todo) > 0 /\ Len(driver.todo) \in Nat
        /\ Len(driver'.todo) = Len(driver.todo) - 1
        /\ \A k \in 1 .. Len(driver.todo) - 1 : driver'.todo[k] = driver.todo[k + 1]
        /\ driver.todo[1] \in Record
    BY <1>1, <2>3, StoredIsList, LenProperties DEF ScanFound, Types
  <2>5. /\ Len(aps') = (IF m + 1 < MaxAps THEN m + 1 ELSE MaxAps)
        /\ \A k \in 1 .. Len(aps') : aps'[k] = found[scans][k]
    <3>1. CASE ApNum < MaxAps
      <4>1. /\ Len(aps') = ApNum + 1 /\ ApNum = m
            /\ aps'[m + 1] = driver.todo[1]
            /\ \A k \in 1 .. m : aps'[k] = aps[k]
        <5>1. PICK old \in Seq(Record), r \in Record, n \in Nat :
                old = aps /\ r = driver.todo[1] /\ n = Len(old)
          BY <2>0, <2>4 DEF Types
        <5>2. aps' = Append(old, r)
          BY <2>3, <3>1, <5>1
        <5>3. /\ Len(aps') = n + 1 /\ aps'[n + 1] = r
              /\ \A k \in 1 .. n : aps'[k] = old[k]
          BY <5>1, <5>2, AppendProperties
        <5>4. ApNum = n
          BY <5>1 DEF ApNum
        <5>5. n = m
          BY <2>2, <3>1, <5>4, ApsAssumption
        <5> QED
          BY <5>1, <5>3, <5>4, <5>5
      <4>2. driver.todo[1] = found[scans][m + 1]
        BY <2>2, <2>4
      <4>3. ASSUME NEW k \in 1 .. Len(aps') PROVE aps'[k] = found[scans][k]
        <5>1. k = m + 1 \/ k \in 1 .. m
          BY <4>1
        <5> QED
          BY <2>2, <4>1, <4>2, <5>1
      <4>4. Len(aps') = (IF m + 1 < MaxAps THEN m + 1 ELSE MaxAps)
        BY <2>0, <3>1, <4>1 DEF ApNum
      <4> QED
        BY <4>3, <4>4
    <3>2. CASE ~(ApNum < MaxAps)
      BY <2>0, <2>2, <2>3, <3>2 DEF ApNum
    <3> QED
      BY <3>1, <3>2
  <2>6. \A k \in 1 .. Len(driver'.todo) : driver'.todo[k] = found[scans][(m + 1) + k]
    <3>1. ASSUME NEW k \in 1 .. Len(driver'.todo)
          PROVE  driver'.todo[k] = found[scans][(m + 1) + k]
      <4>1. k \in 1 .. Len(driver.todo) - 1 /\ k + 1 \in 1 .. Len(driver.todo)
        BY <2>4
      <4>2. driver'.todo[k] = driver.todo[k + 1]
        BY <2>4, <4>1
      <4>3. driver.todo[k + 1] = found[scans][m + (k + 1)] /\ m + (k + 1) = (m + 1) + k
        BY <2>2, <4>1
      <4> QED
        BY <4>2, <4>3
    <3> QED
      BY <3>1
  <2> DEFINE left == Len(driver'.todo)
  <2>7. (m + 1) + left = Len(found[scans]) /\ left \in Nat
    <3> DEFINE before == Len(driver.todo)
               total == Len(found[scans])
    <3>1. left = before - 1 /\ before \in Nat /\ before > 0 /\ m + before = total
      BY <2>2, <2>4
    <3> HIDE DEF left, before, total
    <3>2. (m + 1) + left = total /\ left \in Nat
      BY <3>1
    <3> QED
      BY <3>2 DEF total
  <2>8. left <= Len(found[scans])
    <3> DEFINE total == Len(found[scans])
    <3>1. (m + 1) + left = total /\ left \in Nat
      BY <2>7
    <3> HIDE DEF left, total
    <3>2. left <= total
      BY <3>1
    <3> QED
      BY <3>2 DEF total
  <2>9. scans > 0 /\ m + 1 \in Nat
    BY <2>1 DEF Buffer
  <2> QED
    BY <2>1, <2>5, <2>6, <2>7, <2>8, <2>9 DEF Buffer, ApNum
<1>2. CASE ScanComplete
  BY <1>2 DEF ScanComplete, Buffer, Idle, ApNum
<1>3. ASSUME NEW c \in Conns, ScanCallBegins(c) PROVE Buffer'
  <2>1. CASE scanresult = None
    <3>1. StartScan
      BY <1>3, <2>1 DEF ScanCallBegins
    <3>2. /\ scans' = scans + 1 /\ aps' = <<>>
          /\ found' \in Seq(Seq(Record)) /\ Len(found') = scans'
          /\ driver'.todo = found'[scans']
      BY <3>1, ScanStarts
    <3>3. scans' > 0 /\ scans' \in 1 .. Len(found')
      BY <3>2 DEF Types
    <3>4. found'[scans'] \in Seq(Record)
      BY <3>2, <3>3, ElementOfSeq
    <3>5. Len(found'[scans']) \in Nat /\ Len(aps') = 0
      BY <3>2, <3>4, LenProperties
    <3>6. /\ 0 + Len(driver'.todo) = Len(found'[scans'])
          /\ \A k \in 1 .. Len(driver'.todo) : driver'.todo[k] = found'[scans'][0 + k]
          /\ Len(aps') = (IF 0 < MaxAps THEN 0 ELSE MaxAps)
          /\ \A k \in 1 .. Len(aps') : aps'[k] = found'[scans'][k]
      BY <3>2, <3>5, ApsAssumption
    <3> QED
      BY <3>2, <3>3, <3>5, <3>6 DEF Buffer, ApNum
  <2>2. CASE scanresult # None
    BY <1>3, <2>2 DEF ScanCallBegins, Buffer, scanVars, ApNum
  <2> QED
    BY <2>1, <2>2
<1>4. ASSUME NEW c \in Conns, ScanNoMemory(c) PROVE Buffer'
  BY <1>4 DEF ScanNoMemory, Buffer, scanVars, ApNum
<1>5. ASSUME NEW c \in Conns, StillScanning(c) PROVE Buffer'
  BY <1>5 DEF StillScanning, Buffer, scanVars, ApNum
<1>6. ASSUME NEW c \in Conns, SendAp(c) PROVE Buffer'
  BY <1>6 DEF SendAp, Buffer, scanVars, ApNum
<1>7. ASSUME NEW c \in Conns, EndList(c) PROVE Buffer'
  BY <1>7 DEF EndList, Buffer
<1>8. CASE UNCHANGED vars
  BY <1>8 DEF vars, Buffer, ApNum
<1> QED
  BY <1>1, <1>2, <1>3, <1>4, <1>5, <1>6, <1>7, <1>8 DEF Next

\* Every client that is in the middle of its list stays in step with the buffer when
\* nothing happens to the buffer and to the client, and has had nothing while a scan is
\* under way.
LEMMA OthersKeepPlace ==
  ASSUME Middle, NEW d \in Conns \ overtaken, calls'[d] = calls[d], calls[d].phase # "done",
         \/ UNCHANGED <<scanresult, ap_scan_state, aps>>
         \/ scanresult = None \/ ap_scan_state # 0
         \/ calls[d].phase = "none"
  PROVE  InMiddle(calls[d])'
<1>1. InMiddle(calls[d])
  BY DEF Middle
<1>2. CASE UNCHANGED <<scanresult, ap_scan_state, aps>>
  BY <1>1, <1>2 DEF InMiddle, EntryAt, ApNum
<1>3. CASE scanresult = None \/ ap_scan_state # 0 \/ calls[d].phase = "none"
  <2>1. ~(calls[d].pos > 0)
    BY <1>1, <1>3 DEF InMiddle
  <2> QED
    BY <1>1, <2>1 DEF InMiddle
<1> QED
  BY <1>2, <1>3

\* What was sent with one more entry.
LEMMA TextGrows ==
  ASSUME NEW pos \in Nat, NEW old \in Seq(Piece), NEW piece \in Piece,
         pos = 0 => old = <<>>,
         pos > 0 => Len(old) = pos + 1 /\ old[1] = "APs"
  PROVE  \A new : new = old \o (Opening(pos) \o <<piece>>) =>
           /\ new \in Seq(Piece)
           /\ Len(new) = pos + 2
           /\ new[1] = "APs"
           /\ new[pos + 2] = piece
           /\ \A k \in 1 .. pos : new[k + 1] = old[k + 1]
<1>1. "APs" \in Piece
  BY DEF Piece
<1>2. <<piece>> \in Seq(Piece)
  OBVIOUS
<1>3. TAKE new
<1>4. HAVE new = old \o (Opening(pos) \o <<piece>>)
<1>5. CASE pos = 0
  <2>1. Opening(pos) = <<"APs">>
    BY <1>5 DEF Opening
  <2>2. <<"APs">> \o <<piece>> \in Seq(Piece)
    BY <1>1, OneAndOne
  <2>3. new = <<"APs">> \o <<piece>>
    BY <1>4, <1>5, <2>1, <2>2, ConcatEmptySeq
  <2>4. new \in Seq(Piece) /\ Len(new) = 2 /\ new[1] = "APs" /\ new[2] = piece
    BY <1>1, <2>3, OneAndOne
  <2> QED
    BY <1>5, <2>4
<1>6. CASE pos # 0
  <2>1. Opening(pos) \o <<piece>> = <<piece>>
    BY <1>2, <1>6, ConcatEmptySeq DEF Opening
  <2>2. new = old \o <<piece>>
    BY <1>4, <2>1
  <2>3. Len(old) = pos + 1 /\ old[1] = "APs"
    BY <1>6
  <2>4. /\ new \in Seq(Piece) /\ Len(new) = Len(old) + 1
        /\ new[Len(old) + 1] = piece
        /\ \A i \in 1 .. Len(old) : new[i] = old[i]
    BY <2>2, OneMore
  <2> QED
    BY <2>3, <2>4
<1> QED
  BY <1>5, <1>6

\* What a client has been sent when one more entry follows.
LEMMA EntryFollows ==
  \A c \in Conns \ overtaken :
    Types /\ Memory /\ SendAp(c) /\ InMiddle(calls[c]) /\ ~calls[c].gone => InMiddle(calls[c])'
<1> TAKE c \in Conns \ overtaken
<1>0. HAVE Types /\ Memory /\ SendAp(c) /\ InMiddle(calls[c]) /\ ~calls[c].gone
<1> DEFINE pos == calls[c].pos
           old == calls[c].body
           piece == [record |-> aps[pos + 1], sep |-> Separator(pos)]
           add == Opening(pos) \o <<piece>>
<1>1. /\ pos \in Nat /\ pos < ApNum /\ old \in Seq(Piece) /\ ap_scan_state = 0
      /\ UNCHANGED <<scanresult, ap_scan_state, aps>> /\ calls[c].phase = "call"
  BY <1>0 DEF SendAp, Listing, Types, Call, scanVars
<1>2. scanresult # None
  BY <1>0, <1>1 DEF Memory, InCall
<1>3. piece = EntryAt(pos + 1)
  BY <1>0, <1>1 DEF Separator, EntryAt, ApNum
<1>4. /\ calls'[c].phase = "more" /\ calls'[c].gone = calls[c].gone
      /\ calls'[c].pos = pos + 1 /\ calls'[c].body = old \o add
  <2>1. PICK b \in Seq(Piece) :
           /\ b = Sent(calls[c], add)
           /\ calls'[c] = [phase |-> IF calls[c].gone THEN "done" ELSE "more",
                           gone |-> calls[c].gone,
                           pos |-> IF calls[c].gone THEN calls[c].pos ELSE calls[c].pos + 1,
                           body |-> b]
    BY <1>0, ApIsSent
  <2>2. b = old \o add
    BY <1>0, <2>1 DEF Sent
  <2>3. calls'[c] = [phase |-> "more", gone |-> calls[c].gone, pos |-> pos + 1, body |-> b]
    BY <1>0, <2>1
  <2> HIDE DEF pos, old, add
  <2> QED
    BY <2>2, <2>3
<1>5. add \in Seq(Piece) /\ Opening(pos) \in Seq(Piece) /\ piece \in Piece
  <2>1. add \in Seq(Piece) /\ Opening(pos) \in Seq(Piece)
    BY <1>0, <1>1, PiecesAreText DEF Listing
  <2>2. piece \in Piece
    <3>1. aps[pos + 1] \in Record /\ Separator(pos) \in {"", ","}
      BY <1>0, <1>1, ElementOfSeq DEF Types, ApNum, Separator
    <3> QED
      BY <3>1 DEF Piece, Entry
  <2> QED
    BY <2>1, <2>2
<1>6. ApNum \in Nat
  BY <1>0, LenProperties DEF Types, ApNum
<1>7. /\ Len(old \o add) = pos + 2
      /\ (old \o add)[1] = "APs"
      /\ (old \o add)[pos + 2] = piece
      /\ \A k \in 1 .. pos : (old \o add)[k + 1] = old[k + 1]
  <2>1. pos = 0 => old = <<>>
    BY <1>0 DEF InMiddle
  <2>2. pos > 0 => Len(old) = pos + 1 /\ old[1] = "APs"
    BY <1>0 DEF InMiddle
  <2>3. \A n : n = old \o add =>
          /\ Len(n) = pos + 2 /\ n[1] = "APs" /\ n[pos + 2] = piece
          /\ \A k \in 1 .. pos : n[k + 1] = old[k + 1]
    <3>1. pos \in Nat /\ old \in Seq(Piece) /\ piece \in Piece
      BY <1>1, <1>5
    <3> HIDE DEF pos, old, piece
    <3>2. \A n : n = old \o (Opening(pos) \o <<piece>>) =>
            /\ n \in Seq(Piece)
            /\ Len(n) = pos + 2
            /\ n[1] = "APs"
            /\ n[pos + 2] = piece
            /\ \A k \in 1 .. pos : n[k + 1] = old[k + 1]
      BY <3>1, <2>1, <2>2, TextGrows, Zenon
    <3> QED
      BY <3>2
  <2> QED
    BY <2>3
<1>8. pos > 0 => \A k \in 1 .. pos : old[k + 1] = EntryAt(k)
  BY <1>0 DEF InMiddle
<1> DEFINE new == old \o add
<1> HIDE DEF pos, old, add, piece, new
<1>9. \A k \in 1 .. pos + 1 : new[k + 1] = EntryAt(k)
  <2>0. /\ new[pos + 2] = EntryAt(pos + 1)
        /\ \A k \in 1 .. pos : new[k + 1] = old[k + 1]
    BY <1>3, <1>7 DEF new
  <2>1. ASSUME NEW k \in 1 .. pos + 1 PROVE new[k + 1] = EntryAt(k)
    <3>1. CASE k = pos + 1
      BY <1>1, <2>0, <3>1
    <3>2. CASE k # pos + 1
      BY <1>1, <1>8, <2>0, <3>2
    <3> QED
      BY <3>1, <3>2
  <2> QED
    BY <2>1
<1>10. calls'[c].pos > 0 /\ calls'[c].pos # 0 /\ calls'[c].pos <= ApNum
  BY <1>1, <1>4, <1>6
<1>11. /\ Len(calls'[c].body) = calls'[c].pos + 1 /\ calls'[c].body[1] = "APs"
       /\ \A k \in 1 .. calls'[c].pos : calls'[c].body[k + 1] = EntryAt(k)
  BY <1>1, <1>4, <1>7, <1>9 DEF new
<1>12. ApNum' = ApNum /\ \A k : EntryAt(k)' = EntryAt(k)
  BY <1>1 DEF ApNum, EntryAt
<1> QED
  BY <1>0, <1>1, <1>2, <1>4, <1>10, <1>11, <1>12 DEF InMiddle

\* What a step does to the calls of the others, and that a client is never taken from
\* those that were overtaken.
Spared(c) ==
  /\ \A d \in Conns \ {c} : calls'[d] = calls[d]
  /\ overtaken \subseteq overtaken'

LEMMA OthersKeepPlaces ==
  ASSUME Middle, NEW c \in Conns, Spared(c),
         \/ UNCHANGED <<scanresult, ap_scan_state, aps>>
         \/ scanresult = None \/ ap_scan_state # 0
         \/ \A d \in Conns \ overtaken' : calls'[d].phase \in {"none", "done"}
  PROVE  \A d \in Conns \ overtaken' :
           d # c /\ calls'[d].phase # "done" => InMiddle(calls[d])'
<1>1. TAKE d \in Conns \ overtaken'
<1>2. HAVE d # c /\ calls'[d].phase # "done"
<1>3. d \in Conns \ overtaken /\ calls'[d] = calls[d] /\ calls[d].phase # "done"
  BY <1>2 DEF Spared
<1>4. \/ UNCHANGED <<scanresult, ap_scan_state, aps>>
      \/ scanresult = None \/ ap_scan_state # 0
      \/ calls[d].phase = "none"
  BY <1>3
<1> QED
  BY <1>3, <1>4, OthersKeepPlace

LEMMA NextMiddle == Types /\ Memory /\ Middle /\ [Next]_vars => Middle'
<1> SUFFICES ASSUME Types, Memory, Middle, [Next]_vars PROVE Middle'
  OBVIOUS
<1>1. ASSUME driver.buf # None, UNCHANGED <<calls, overtaken>> PROVE Middle'
  <2>1. ap_scan_state # 0
    BY <1>1 DEF Memory
  <2>2. ASSUME NEW d \in Conns \ overtaken', calls'[d].phase # "done" PROVE InMiddle(calls[d])'
    <3>1. d \in Conns \ overtaken /\ calls'[d] = calls[d] /\ calls[d].phase # "done"
      BY <1>1, <2>2
    <3> QED
      BY <2>1, <3>1, OthersKeepPlace
  <2> QED
    BY <2>2 DEF Middle
<1>2. CASE ScanFound
  <2>1. driver.buf # None /\ UNCHANGED <<calls, overtaken>>
    BY <1>2 DEF ScanFound, Memory
  <2> QED
    BY <1>1, <2>1
<1>3. CASE ScanComplete
  <2>1. driver.buf # None /\ UNCHANGED <<calls, overtaken>>
    BY <1>3 DEF ScanComplete
  <2> QED
    BY <1>1, <2>1
<1>4. ASSUME NEW c \in Conns, ScanCallBegins(c) PROVE Middle'
  <2>1. PICK aborted \in BOOLEAN :
          /\ Called(c, aborted)
          /\ calls'[c] = [phase |-> "call", gone |-> aborted, pos |-> calls[c].pos,
                          body |-> calls[c].body]
          /\ \A d \in Conns \ {c} : calls'[d] = calls[d]
    BY <1>4, CallBegins
  <2>2. Spared(c) /\ overtaken' = overtaken
    BY <1>4, <2>1 DEF Spared, ScanCallBegins
  <2>3. scanresult = None \/ UNCHANGED <<scanresult, ap_scan_state, aps>>
    BY <1>4 DEF ScanCallBegins, scanVars
  <2>4. \A d \in Conns \ overtaken' :
          d # c /\ calls'[d].phase # "done" => InMiddle(calls[d])'
    BY <2>2, <2>3, OthersKeepPlaces
  <2>5. ASSUME c \notin overtaken PROVE InMiddle(calls[c])'
    <3>1. InMiddle(calls[c])
      BY <2>1, <2>5 DEF Middle, Called
    <3>2. calls'[c].phase = "call" /\ calls'[c].pos = calls[c].pos /\ calls'[c].body = calls[c].body
      BY <2>1
    <3>3. CASE scanresult = None
      BY <3>1, <3>2, <3>3 DEF InMiddle
    <3>4. CASE UNCHANGED <<scanresult, ap_scan_state, aps>>
      BY <3>1, <3>2, <3>4 DEF InMiddle, EntryAt, ApNum
    <3> QED
      BY <2>3, <3>3, <3>4
  <2> QED
    BY <2>2, <2>4, <2>5 DEF Middle
<1>5. ASSUME NEW c \in Conns, ScanNoMemory(c) PROVE Middle'
  <2>1. Done(c, <<>>) /\ <<>> \in Seq(Piece)
    BY <1>5, EmptySeq DEF ScanNoMemory
  <2>2. calls'[c].phase = "done" /\ \A d \in Conns \ {c} : calls'[d] = calls[d]
    BY <2>1, DoneIsTyped, Zenon
  <2>3. Spared(c) /\ UNCHANGED <<scanresult, ap_scan_state, aps>>
    BY <1>5, <2>2 DEF Spared, ScanNoMemory, scanVars
  <2> QED
    BY <2>2, <2>3, OthersKeepPlaces DEF Middle
<1>6. ASSUME NEW c \in Conns, StillScanning(c) PROVE Middle'
  <2>1. Done(c, <<"inProgress">>) /\ <<"inProgress">> \in Seq(Piece)
    BY <1>6, PiecesAreText DEF StillScanning
  <2>2. calls'[c].phase = "done" /\ \A d \in Conns \ {c} : calls'[d] = calls[d]
    BY <2>1, DoneIsTyped, Zenon
  <2>3. Spared(c) /\ UNCHANGED <<scanresult, ap_scan_state, aps>>
    BY <1>6, <2>2 DEF Spared, StillScanning, scanVars
  <2> QED
    BY <2>2, <2>3, OthersKeepPlaces DEF Middle
<1>7. ASSUME NEW c \in Conns, SendAp(c) PROVE Middle'
  <2>1. PICK b : /\ calls'[c] = [phase |-> IF calls[c].gone THEN "done" ELSE "more",
                                gone |-> calls[c].gone,
                                pos |-> IF calls[c].gone THEN calls[c].pos ELSE calls[c].pos + 1,
                                body |-> b]
                 /\ \A d \in Conns \ {c} : calls'[d] = calls[d]
    BY <1>7, ApIsSent
  <2>2. Spared(c) /\ UNCHANGED <<scanresult, ap_scan_state, aps>> /\ overtaken' = overtaken
    BY <1>7, <2>1 DEF Spared, SendAp, scanVars
  <2>3. \A d \in Conns \ overtaken' :
          d # c /\ calls'[d].phase # "done" => InMiddle(calls[d])'
    BY <2>2, OthersKeepPlaces
  <2>4. ASSUME c \notin overtaken, calls'[c].phase # "done" PROVE InMiddle(calls[c])'
    <3>1. ~calls[c].gone
      BY <2>1, <2>4
    <3>2. InMiddle(calls[c])
      BY <1>7, <2>4 DEF SendAp, Middle
    <3> QED
      BY <1>7, <2>4, <3>1, <3>2, EntryFollows
  <2> QED
    BY <2>2, <2>3, <2>4 DEF Middle
<1>8. ASSUME NEW c \in Conns, EndList(c) PROVE Middle'
  <2>1. Done(c, Opening(calls[c].pos) \o <<"]">>) /\ calls[c].pos \in Nat
    BY <1>8 DEF EndList, Types, Call
  <2>2. Opening(calls[c].pos) \o <<"]">> \in Seq(Piece)
    BY <2>1, PiecesAreText
  <2>3. calls'[c].phase = "done" /\ \A d \in Conns \ {c} : calls'[d] = calls[d]
    BY <2>1, <2>2, DoneIsTyped, Zenon
  <2>4. overtaken' = overtaken \cup {d \in Conns : calls[d].phase = "more"}
    BY <1>8 DEF EndList
  <2>5. \A d \in Conns \ overtaken' : calls'[d].phase \in {"none", "done"}
    <3>1. ASSUME NEW d \in Conns \ overtaken' PROVE calls'[d].phase \in {"none", "done"}
      <4>1. CASE d = c
        BY <2>3, <4>1
      <4>2. CASE d # c
        <5>1. calls'[d] = calls[d] /\ calls[d].phase # "more" /\ calls[d] \in Call
          BY <2>3, <2>4, <4>2 DEF Types
        <5>2. calls[d].phase # "call"
          BY <1>8, <4>2 DEF EndList, Memory, InCall
        <5> QED
          BY <5>1, <5>2 DEF Call
      <4> QED
        BY <4>1, <4>2
    <3> QED
      BY <3>1
  <2>6. Spared(c)
    BY <2>3, <2>4 DEF Spared
  <2> QED
    BY <2>3, <2>5, <2>6, OthersKeepPlaces DEF Middle
<1>9. CASE UNCHANGED vars
  BY <1>9 DEF vars, Middle, InMiddle, EntryAt, ApNum
<1> QED
  BY <1>2, <1>3, <1>4, <1>5, <1>6, <1>7, <1>8, <1>9 DEF Next

\* A complete list is text: its entries, one after the other.
LEMMA ListedIsText ==
  ASSUME Types, NEW scan \in 1 .. scans
  PROVE  /\ Len(found[scan]) \in Nat
         /\ Listed(scan) \in Seq(Piece)
         /\ Len(Listed(scan)) = (IF Len(found[scan]) < MaxAps THEN Len(found[scan]) ELSE MaxAps)
         /\ \A k \in 1 .. Len(Listed(scan)) :
              Listed(scan)[k] = [record |-> found[scan][k],
                                 sep |-> IF k = Len(Listed(scan)) THEN "" ELSE ","]
<1>1. found[scan] \in Seq(Record)
  BY ElementOfSeq DEF Types
<1>2. Len(found[scan]) \in Nat /\ MaxAps \in Nat
  BY <1>1, LenProperties, ApsAssumption
<1>3. PICK n \in Nat : n = IF Len(found[scan]) < MaxAps THEN Len(found[scan]) ELSE MaxAps
  BY <1>2
<1> DEFINE f == [k \in 1 .. n |-> [record |-> found[scan][k],
                                   sep |-> IF k = n THEN "" ELSE ","]]
<1>4. Listed(scan) = f
  BY <1>3, Zenon DEF Listed
<1>5. ASSUME NEW k \in 1 .. n
      PROVE  [record |-> found[scan][k], sep |-> IF k = n THEN "" ELSE ","] \in Piece
  <2>1. k \in 1 .. Len(found[scan])
    BY <1>2, <1>3
  <2>2. found[scan][k] \in Record
    BY <1>1, <2>1, ElementOfSeq
  <2> QED
    BY <2>2 DEF Piece, Entry
<1>6. f \in [1 .. n -> Piece]
  BY <1>5
<1>7. f \in Seq(Piece)
  <2> HIDE DEF f
  <2> QED
    BY <1>6, SeqDef
<1>8. DOMAIN f = 1 .. n
  OBVIOUS
<1>9. Len(f) = n
  <2> HIDE DEF f
  <2> QED
    BY <1>3, <1>7, <1>8, LenProperties
<1> QED
  BY <1>2, <1>3, <1>4, <1>7, <1>9

\* What a client has that is told that the list has ended: all of it.
LEMMA WholeList ==
  ASSUME NEW pos \in Nat, NEW old \in Seq(Piece), NEW list \in Seq(Piece), Len(list) = pos,
         pos = 0 => old = <<>>,
         pos > 0 => Len(old) = pos + 1 /\ old[1] = "APs" /\ \A k \in 1 .. pos : old[k + 1] = list[k]
  PROVE  old \o (Opening(pos) \o <<"]">>) = <<"APs">> \o list \o <<"]">>
<1>1. "APs" \in Piece /\ "]" \in Piece
  BY DEF Piece
<1>2. PICK open \in Seq(Piece) : open = <<"APs">> /\ Len(open) = 1 /\ open[1] = "APs"
  BY <1>1, Single
<1>3. PICK end \in Seq(Piece) : end = <<"]">> /\ Len(end) = 1 /\ end[1] = "]"
  BY <1>1, Single
<1>4. CASE pos = 0
  <2>1. list = <<>> /\ old = <<>> /\ Opening(pos) = open
    BY <1>2, <1>4, EmptySeq DEF Opening
  <2>2. open \o end \in Seq(Piece)
    BY Joined
  <2>3. <<>> \o (open \o end) = open \o end /\ open \o <<>> = open
    BY <2>2, ConcatEmptySeq
  <2> QED
    BY <1>2, <1>3, <2>1, <2>3
<1>5. CASE pos # 0
  <2>1. Opening(pos) = <<>> /\ Opening(pos) \o end = end
    BY <1>5, ConcatEmptySeq DEF Opening
  <2>2. /\ open \o list \in Seq(Piece)
        /\ Len(open \o list) = 1 + pos
        /\ \A i \in 1 .. 1 + pos :
             (open \o list)[i] = IF i <= 1 THEN open[i] ELSE list[i - 1]
    BY <1>2, Joined
  <2>3. old = open \o list
    <3>1. PICK t \in Seq(Piece) : t = open \o list
      BY <2>2
    <3>2. Len(old) = Len(t)
      BY <1>5, <2>2, <3>1
    <3>3. ASSUME NEW i \in 1 .. Len(old) PROVE old[i] = t[i]
      <4>1. CASE i = 1
        BY <1>2, <1>5, <2>2, <3>1, <4>1
      <4>2. CASE i # 1
        <5>1. i \in 1 .. 1 + pos /\ i - 1 \in 1 .. pos /\ (i - 1) + 1 = i
          BY <1>5, <4>2
        <5>2. old[(i - 1) + 1] = list[i - 1]
          BY <1>5, <5>1
        <5>3. t[i] = list[i - 1]
          BY <2>2, <3>1, <4>2, <5>1
        <5> QED
          BY <5>1, <5>2, <5>3
      <4> QED
        BY <4>1, <4>2
    <3> QED
      BY <3>1, <3>2, <3>3, SeqEqual
  <2> QED
    BY <1>2, <1>3, <2>1, <2>3
<1> QED
  BY <1>4, <1>5

\* What a client is told that was not overtaken.
LEMMA EndOfList ==
  \A c \in Conns \ overtaken :
    Types /\ Memory /\ Buffer /\ EndList(c) /\ InMiddle(calls[c]) /\ ~calls[c].gone =>
      \E scan \in 1 .. scans : calls'[c].body = <<"APs">> \o Listed(scan) \o <<"]">>
<1> TAKE c \in Conns \ overtaken
<1>1. HAVE Types /\ Memory /\ Buffer /\ EndList(c) /\ InMiddle(calls[c]) /\ ~calls[c].gone
<1>2. PICK pos \in Nat, old \in Seq(Piece) : pos = calls[c].pos /\ old = calls[c].body
  BY <1>1 DEF Types, Call
<1>3. /\ ~(pos < ApNum) /\ ap_scan_state = 0 /\ calls[c].phase = "call"
      /\ Done(c, Opening(pos) \o <<"]">>)
  BY <1>1, <1>2 DEF EndList, Listing
<1>4. scanresult # None /\ driver.todo = <<>>
  BY <1>1, <1>3 DEF Memory, InCall
<1>5. scans > 0 /\ scans \in 1 .. scans
  BY <1>1, <1>4 DEF Buffer, Types
<1>6. ApNum \in Nat /\ pos = ApNum
  <2>1. ApNum \in Nat
    BY <1>1, LenProperties DEF Types, ApNum
  <2>2. pos > 0 => pos <= ApNum
    BY <1>1, <1>2 DEF InMiddle
  <2> QED
    BY <1>2, <1>3, <2>1, <2>2
<1>7. /\ Len(found[scans]) \in Nat
      /\ Listed(scans) \in Seq(Piece)
      /\ Len(Listed(scans)) = (IF Len(found[scans]) < MaxAps THEN Len(found[scans]) ELSE MaxAps)
      /\ \A k \in 1 .. Len(Listed(scans)) :
           Listed(scans)[k] = [record |-> found[scans][k],
                               sep |-> IF k = Len(Listed(scans)) THEN "" ELSE ","]
  BY <1>1, <1>5, ListedIsText
<1>8. /\ ApNum = (IF Len(found[scans]) < MaxAps THEN Len(found[scans]) ELSE MaxAps)
      /\ \A k \in 1 .. ApNum : aps[k] = found[scans][k]
  <2>1. PICK m \in Nat :
         /\ m + Len(driver.todo) = Len(found[scans])
         /\ ApNum = (IF m < MaxAps THEN m ELSE MaxAps)
         /\ \A k \in 1 .. ApNum : aps[k] = found[scans][k]
    BY <1>1, <1>4 DEF Buffer
  <2>2. Len(driver.todo) = 0
    BY <1>4
  <2>3. PICK n \in Nat : n = Len(found[scans])
    BY <1>7, Zenon
  <2>4. m + 0 = n
    BY <2>1, <2>2, <2>3, Zenon
  <2>5. m = n
    BY <2>3, <2>4
  <2> QED
    BY <2>1, <2>3, <2>5
<1>9. PICK list \in Seq(Piece) : list = Listed(scans)
  BY <1>7
<1>10. Len(list) = pos /\ \A k \in 1 .. pos : list[k] = EntryAt(k)
  BY <1>6, <1>7, <1>8, <1>9 DEF EntryAt
<1>11. /\ pos = 0 => old = <<>>
       /\ pos > 0 => /\ Len(old) = pos + 1 /\ old[1] = "APs"
                     /\ \A k \in 1 .. pos : old[k + 1] = EntryAt(k)
  BY <1>1, <1>2 DEF InMiddle
<1>12. pos > 0 => /\ Len(old) = pos + 1 /\ old[1] = "APs"
                  /\ \A k \in 1 .. pos : old[k + 1] = list[k]
  BY <1>10, <1>11
<1>13. old \o (Opening(pos) \o <<"]">>) = <<"APs">> \o list \o <<"]">>
  BY <1>10, <1>11, <1>12, WholeList, Zenon
<1>14. calls'[c].body = old \o (Opening(pos) \o <<"]">>)
  <2>1. Opening(pos) \o <<"]">> \in Seq(Piece)
    BY <1>1, <1>2, PiecesAreText
  <2>2. calls'[c] = [phase |-> "done", gone |-> calls[c].gone, pos |-> calls[c].pos,
                    body |-> Sent(calls[c], Opening(pos) \o <<"]">>)]
    BY <1>1, <1>3, <2>1, DoneIsTyped, Zenon
  <2>3. Sent(calls[c], Opening(pos) \o <<"]">>) = old \o (Opening(pos) \o <<"]">>)
    BY <1>1, <1>2 DEF Sent
  <2> QED
    BY <2>2, <2>3
<1> QED
  BY <1>5, <1>9, <1>13, <1>14

\* What a client was told does not change with what later scans find.
LEMMA ListsStay ==
  ASSUME Types, Types', NEW d \in Conns, calls'[d] = calls[d], d \notin overtaken,
         scans' >= scans, \A scan \in 1 .. scans : found'[scan] = found[scan],
         ListIsExact, calls[d].phase = "done", ~calls[d].gone
  PROVE  \/ calls'[d].body = <<"inProgress">>
         \/ \E scan \in 1 .. scans' :
              calls'[d].body = <<"APs">> \o Listed(scan)' \o <<"]">>
<1>1. CASE calls[d].body = <<"inProgress">>
  BY <1>1
<1>2. CASE \E scan \in 1 .. scans : calls[d].body = <<"APs">> \o Listed(scan) \o <<"]">>
  <2>1. PICK scan \in 1 .. scans : calls[d].body = <<"APs">> \o Listed(scan) \o <<"]">>
    BY <1>2
  <2>2. Listed(scan)' = Listed(scan)
    BY DEF Listed
  <2>3. scan \in 1 .. scans'
    BY DEF Types
  <2> QED
    BY <2>1, <2>2, <2>3
<1> QED
  BY <1>1, <1>2 DEF ListIsExact

\* A step that leaves all calls alone, or all but one that ends or does not, keeps the
\* lists that were told and adds at most one.
LEMMA ListsGrow ==
  ASSUME Types, Types', ListIsExact, overtaken \subseteq overtaken',
         scans' >= scans, \A scan \in 1 .. scans : found'[scan] = found[scan],
         \A d \in Conns \ overtaken' :
           calls'[d].phase = "done" /\ ~calls'[d].gone =>
             \/ calls'[d] = calls[d]
             \/ calls'[d].body = <<"inProgress">>
             \/ \E scan \in 1 .. scans' :
                  calls'[d].body = <<"APs">> \o Listed(scan)' \o <<"]">>
  PROVE  ListIsExact'
<1>1. ASSUME NEW d \in Conns, calls'[d].phase = "done", ~calls'[d].gone, d \notin overtaken'
      PROVE  \/ calls'[d].body = <<"inProgress">>
             \/ \E scan \in 1 .. scans' :
                  calls'[d].body = <<"APs">> \o Listed(scan)' \o <<"]">>
  <2>1. CASE calls'[d] = calls[d]
    BY <1>1, <2>1, ListsStay
  <2>2. CASE calls'[d] # calls[d]
    BY <1>1, <2>2
  <2> QED
    BY <2>1, <2>2
<1> QED
  BY <1>1 DEF ListIsExact

LEMMA NextList ==
  Types /\ Types' /\ Memory /\ Buffer /\ Middle /\ ListIsExact /\ [Next]_vars => ListIsExact'
<1> SUFFICES ASSUME Types, Types', Memory, Buffer, Middle, ListIsExact, [Next]_vars
             PROVE  ListIsExact'
  OBVIOUS
<1>0. scans \in Nat
  BY DEF Types
<1>1. CASE ScanFound
  BY <1>0, <1>1, ListsGrow DEF ScanFound
<1>2. CASE ScanComplete
  BY <1>0, <1>2, ListsGrow DEF ScanComplete
<1>3. ASSUME NEW c \in Conns, ScanCallBegins(c) PROVE ListIsExact'
  <2>1. calls'[c].phase = "call" /\ \A d \in Conns \ {c} : calls'[d] = calls[d]
    BY <1>3, CallBegins
  <2>2. scans' >= scans /\ \A scan \in 1 .. scans : found'[scan] = found[scan]
    <3>1. CASE scanresult = None
      <4>1. StartScan
        BY <1>3, <3>1 DEF ScanCallBegins
      <4> QED
        BY <1>0, <4>1, ScanStarts
    <3>2. CASE scanresult # None
      BY <1>0, <1>3, <3>2 DEF ScanCallBegins, scanVars
    <3> QED
      BY <3>1, <3>2
  <2>3. overtaken' = overtaken
    BY <1>3 DEF ScanCallBegins
  <2>4. \A d \in Conns \ overtaken' : calls'[d].phase = "done" => calls'[d] = calls[d]
    BY <2>1
  <2> QED
    BY <2>2, <2>3, <2>4, ListsGrow
<1>4. ASSUME NEW c \in Conns, ScanNoMemory(c) PROVE ListIsExact'
  <2>1. Done(c, <<>>) /\ <<>> \in Seq(Piece)
    BY <1>4, EmptySeq DEF ScanNoMemory
  <2>2. \A d \in Conns \ {c} : calls'[d] = calls[d]
    BY <2>1, DoneIsTyped, Zenon
  <2>3. overtaken' = overtaken \cup {c} /\ scans' = scans /\ found' = found
    BY <1>4 DEF ScanNoMemory, scanVars
  <2> QED
    BY <1>0, <2>2, <2>3, ListsGrow
<1>5. ASSUME NEW c \in Conns, StillScanning(c) PROVE ListIsExact'
  <2>1. Done(c, <<"inProgress">>) /\ <<"inProgress">> \in Seq(Piece) /\ ap_scan_state = 1
    BY <1>5, PiecesAreText DEF StillScanning
  <2>2. /\ \A d \in Conns \ {c} : calls'[d] = calls[d]
        /\ calls'[c] = [phase |-> "done", gone |-> calls[c].gone, pos |-> calls[c].pos,
                        body |-> Sent(calls[c], <<"inProgress">>)]
    BY <2>1, DoneIsTyped, Zenon
  <2>3. overtaken' = overtaken /\ scans' = scans /\ found' = found
    BY <1>5 DEF StillScanning, scanVars
  <2>4. ASSUME c \notin overtaken, ~calls'[c].gone PROVE calls'[c].body = <<"inProgress">>
    <3>1. InMiddle(calls[c])
      BY <1>5, <2>4 DEF StillScanning, Middle
    <3>2. calls[c].pos = 0 /\ calls[c].body = <<>>
      BY <2>1, <3>1 DEF InMiddle, Types, Call
    <3>3. ~calls[c].gone
      BY <2>2, <2>4
    <3>4. Sent(calls[c], <<"inProgress">>) = <<"inProgress">>
      BY <2>1, <3>2, <3>3, ConcatEmptySeq DEF Sent
    <3> QED
      BY <2>2, <3>4
  <2> QED
    BY <1>0, <2>2, <2>3, <2>4, ListsGrow
<1>6. ASSUME NEW c \in Conns, SendAp(c) PROVE ListIsExact'
  <2>1. PICK b : /\ calls'[c] = [phase |-> IF calls[c].gone THEN "done" ELSE "more",
                                gone |-> calls[c].gone,
                                pos |-> IF calls[c].gone THEN calls[c].pos ELSE calls[c].pos + 1,
                                body |-> b]
                 /\ \A d \in Conns \ {c} : calls'[d] = calls[d]
    BY <1>6, ApIsSent
  <2>2. calls'[c].phase = "done" => calls'[c].gone
    BY <2>1
  <2>3. overtaken' = overtaken /\ scans' = scans /\ found' = found
    BY <1>6 DEF SendAp, scanVars
  <2> QED
    BY <1>0, <2>1, <2>2, <2>3, ListsGrow
<1>7. ASSUME NEW c \in Conns, EndList(c) PROVE ListIsExact'
  <2>1. Done(c, Opening(calls[c].pos) \o <<"]">>) /\ calls[c].pos \in Nat
    BY <1>7 DEF EndList, Types, Call
  <2>2. Opening(calls[c].pos) \o <<"]">> \in Seq(Piece)
    BY <2>1, PiecesAreText
  <2>3. /\ \A d \in Conns \ {c} : calls'[d] = calls[d]
        /\ calls'[c] = [phase |-> "done", gone |-> calls[c].gone, pos |-> calls[c].pos,
                        body |-> Sent(calls[c], Opening(calls[c].pos) \o <<"]">>)]
    BY <2>1, <2>2, DoneIsTyped, Zenon
  <2>4. overtaken \subseteq overtaken' /\ scans' = scans /\ found' = found
    BY <1>7 DEF EndList
  <2>5. ASSUME c \notin overtaken, ~calls'[c].gone
        PROVE  \E scan \in 1 .. scans' :
                  calls'[c].body = <<"APs">> \o Listed(scan)' \o <<"]">>
    <3>1. InMiddle(calls[c])
      BY <1>7, <2>5 DEF EndList, Middle
    <3>2. ~calls[c].gone
      BY <2>3, <2>5
    <3>3. \E scan \in 1 .. scans : calls'[c].body = <<"APs">> \o Listed(scan) \o <<"]">>
      BY <1>7, <2>5, <3>1, <3>2, EndOfList
    <3>4. ASSUME NEW scan PROVE Listed(scan)' = Listed(scan)
      BY <2>4 DEF Listed
    <3> QED
      BY <2>4, <3>3, <3>4
  <2>6. \A d \in Conns \ overtaken' :
          calls'[d].phase = "done" /\ ~calls'[d].gone =>
            \/ calls'[d] = calls[d]
            \/ calls'[d].body = <<"inProgress">>
            \/ \E scan \in 1 .. scans' :
                 calls'[d].body = <<"APs">> \o Listed(scan)' \o <<"]">>
    BY <2>3, <2>4, <2>5, Zenon
  <2>7. scans' >= scans /\ \A scan \in 1 .. scans : found'[scan] = found[scan]
    BY <1>0, <2>4
  <2> QED
    BY <2>4, <2>6, <2>7, ListsGrow, Zenon
<1>8. CASE UNCHANGED vars
  BY <1>0, <1>8, ListsGrow DEF vars
<1> QED
  BY <1>1, <1>2, <1>3, <1>4, <1>5, <1>6, <1>7, <1>8 DEF Next

LEMMA InitList == Init => Buffer /\ Middle /\ ListIsExact
BY DEF Init, Buffer, Middle, InMiddle, ListIsExact

\* A client gets "in progress" or the complete list of one scan, however many others ask
\* meanwhile, leave or end a list of their own, as long as none of those freed the list it
\* was in the middle of. (cgiWiFiScan, ap_scan_result_handler)
THEOREM ListsAreWhole == Spec => []ListIsExact
<1>1. Init => Types /\ Memory /\ Buffer /\ Middle /\ ListIsExact
  BY InitTypes, InitMemory, InitList
<1>2. Types /\ Memory /\ Buffer /\ Middle /\ ListIsExact /\ [Next]_vars
        => (Types /\ Memory /\ Buffer /\ Middle /\ ListIsExact)'
  BY NextTypes, NextMemory, NextBuffer, NextMiddle, NextList
<1> QED
  BY <1>1, <1>2, PTL DEF Spec
=============================================================================
