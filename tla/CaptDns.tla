------------------------------ MODULE CaptDns ------------------------------
(***************************************************************************)
(* The captive DNS server (captdns.c): every name is answered with the     *)
(* address of the access point.  A packet is a sequence of bytes; position *)
(* p of the code, counted from 0, is element p + 1.                        *)
(***************************************************************************)
EXTENDS HttpdText

CONSTANTS
  DnsLen,    \* DNS_LEN
  MyAddr     \* the address of the access point, four bytes

ASSUME DnsAssumption == DnsLen \in Nat /\ MyAddr \in Seq(Byte)

Dot == 46
QTYPE_A == 1
QTYPE_NS == 2
QTYPE_URI == 256
QCLASS_IN == 1
QCLASS_URI == 256
HeaderSize == 12
FooterSize == 4

\* An octet the code leaves as it was on the stack; no byte has this value.
Junk == 256
Octet == Byte \cup {Junk}

Bytes16(n) == <<n \div 256, n % 256>>
\* The numbers that two bytes hold.
MaxType16 == 256 * 256 - 1
Type16 == 0..MaxType16
Value16(packet, p) == packet[p + 1] * 256 + packet[p + 2]

-----------------------------------------------------------------------------
(* Names *)

\* A label that follows a text.
Dotted(name, label) == IF name = <<>> THEN label ELSE Append(name, Dot) \o label

\* What labelToStr has read: at is where the next label is, name the text so far, end the
\* place after the last pointer met, next what is returned, 0 for NULL.
WalkState == [at : Nat, name : Seq(Byte), end : Nat, next : Nat, on : BOOLEAN]

\* One pass of its loop. A pointer makes the rest of the name come from elsewhere.
ReadLabel(packet, s) ==
  LET size == packet[s.at + 1]
      isLabel == size < 64
      to == IF isLabel THEN s.at + 1 + size ELSE Value16(packet, s.at) - 192 * 256
      end == IF isLabel THEN s.end ELSE s.at + 2
      inside == to < Len(packet)
  IN [at |-> to, end |-> end,
      name |-> IF isLabel THEN Dotted(s.name, SubSeq(packet, s.at + 2, to)) ELSE s.name,
      next |-> IF inside /\ packet[to + 1] = 0 THEN (IF end = 0 THEN to + 1 ELSE end) ELSE 0,
      on |-> inside /\ packet[to + 1] # 0]

\* labelToStr. A loop that takes more passes than the packet has bytes goes in a circle of
\* pointers and never ends; a resolver sends no such name.
LabelToStr(packet, p) ==
  LET passes == [i \in 1..Len(packet) |-> i]
      step == [i \in 1..Len(packet) |->
                 [s \in WalkState |-> IF s.on THEN ReadLabel(packet, s) ELSE s]]
  IN Loop(step, [at |-> p, name |-> <<>>, end |-> 0, next |-> 0, on |-> TRUE], passes)

\* A part of a name with its length before it, which is a byte.
Label(part) == <<Len(part) % 256>> \o part

\* What strToLabel has written: whole labels, and the part of the next one.
LabelState == [done : Seq(Byte), part : Seq(Byte)]

CopyChar(s, c) ==
  IF c = Dot THEN [done |-> s.done \o Label(s.part), part |-> <<>>]
  ELSE [done |-> s.done, part |-> Append(s.part, c)]

\* strToLabel; its check of the room left is commented out.
StrToLabel(str) ==
  LET step == [c \in Byte |-> [s \in LabelState |-> CopyChar(s, c)]]
      s == Loop(step, [done |-> <<>>, part |-> <<>>], str)
  IN (s.done \o Label(s.part)) \o <<0>>

-----------------------------------------------------------------------------
(* Answers *)

Resource(type, class, ttl, rdlength) ==
  <<type \div 256, type % 256, class \div 256, class % 256, ttl[1], ttl[2], ttl[3], ttl[4],
    rdlength \div 256, rdlength % 256>>

\* setn32, and setn16, which fills only the first half of the ttl.
WholeTtl == <<0, 0, 0, 0>>
HalfTtl == <<0, 0, Junk, Junk>>

NsName == <<2, 110, 115, 0>>
UriHdr == <<0, 10, 0, 1>>  \* prio and weight
Uri == [k \in 1..16 |-> 120]  \* "http://rtl.nonet"

\* What is appended for a question: nothing if its type is none of these.
RecordFor(type, name) ==
  CASE type = QTYPE_A ->
         StrToLabel(name) \o Resource(QTYPE_A, QCLASS_IN, WholeTtl, 4) \o MyAddr
    [] type = QTYPE_NS ->
         StrToLabel(name) \o Resource(QTYPE_NS, QCLASS_IN, HalfTtl, 4) \o NsName
    [] type = QTYPE_URI ->
         StrToLabel(name) \o Resource(QTYPE_URI, QCLASS_URI, HalfTtl, 20)
           \o UriHdr \o Uri
    [] OTHER -> <<>>

\* Where the next question starts.
NextQuestion(q) == q.next + FooterSize

PassState == [p : Nat, rend : Seq(Octet), answers : Nat, failed : BOOLEAN]

\* One pass of the loop over the questions: p is the place in the query, rend what is
\* appended, answers how many records that is.
AnswerQuestion(packet, s) ==
  LET q == LabelToStr(packet, s.p)
      type == Value16(packet, q.next)
      record == RecordFor(type, q.name)
  IN IF s.failed \/ q.next = 0 THEN [s EXCEPT !.failed = TRUE]
     ELSE [p |-> NextQuestion(q), rend |-> s.rend \o record,
           answers |-> s.answers + (IF record = <<>> THEN 0 ELSE 1), failed |-> FALSE]

\* Too long, too short, a reply itself, or cut.
Ignored(packet) ==
  \/ Len(packet) > DnsLen \/ Len(packet) < HeaderSize
  \/ \E p \in {6, 8, 10} : Value16(packet, p) # 0
  \/ (packet[3] \div 2) % 2 = 1

NoReply == <<>>

WithQr(flags) == IF flags < 128 THEN flags + 128 ELSE flags

\* captdnsRecv: the query with the answers appended.  Nothing checks that they fit.
Reply(packet) ==
  LET count == Value16(packet, 4)
      step == [i \in 1..count |-> [s \in PassState |-> AnswerQuestion(packet, s)]]
      done == Loop(step, [p |-> HeaderSize, rend |-> <<>>, answers |-> 0, failed |-> FALSE],
                   [i \in 1..count |-> i])
      header == [k \in 1..HeaderSize |->
                   CASE k = 3 -> WithQr(packet[3])
                     [] k \in {7, 8} -> Bytes16(done.answers)[k - 6]
                     [] OTHER -> packet[k]]
  IN IF Ignored(packet) \/ done.failed THEN NoReply
     ELSE (header \o SubSeq(packet, HeaderSize + 1, Len(packet))) \o done.rend

=============================================================================
