--------------------------- MODULE SendPathProofs ---------------------------
(***************************************************************************)
(* Proofs about SendPath: the framing of what is sent, the count of the    *)
(* backlog, and, for a connection on which one callback follows the other, *)
(* that SendPath implements ByteStream.                                    *)
(***************************************************************************)
EXTENDS SendPath, SequenceTheorems, FiniteSetTheorems, TLAPS

\* What stands where in two sequences one after the other.
LEMMA Joined ==
  ASSUME NEW S, NEW s \in Seq(S), NEW t \in Seq(S)
  PROVE  /\ s \o t \in Seq(S)
         /\ Len(s \o t) = Len(s) + Len(t)
         /\ \A i \in 1 .. Len(s) + Len(t) :
              (s \o t)[i] = IF i <= Len(s) THEN s[i] ELSE t[i - Len(s)]
BY ConcatProperties, Zenon

-----------------------------------------------------------------------------
(* The send buffer.                                                         *)

LEMMA EmptyIsBuffer == EmptyBuffer \in Buffer
<1>1. NoChunk \in Chunk
  BY DEF NoChunk, Chunk, FourHexDigits
<1>2. PICK none \in Nat \cup {-1} : none = -1
  OBVIOUS
<1>3. PICK no \in BOOLEAN : no = FALSE
  BY Zenon
<1>4. PICK empty \in Seq(Nat) : empty = <<>>
  BY EmptySeq, Zenon
<1>5. EmptyBuffer = [len |-> 0, pieces |-> empty, chunk |-> NoChunk, last |-> no, chunkHdr |-> none]
  BY <1>2, <1>3, <1>4 DEF EmptyBuffer
<1> QED
  BY <1>1, <1>5 DEF Buffer

LEMMA AppendIn ==
  ASSUME NEW S, NEW s \in Seq(S), NEW x \in S
  PROVE  Append(s, x) \in Seq(S)
BY AppendProperties, Zenon

LEMMA ChunkGrows ==
  ASSUME NEW ch \in Chunk, NEW n \in Nat, NEW more, more = WithData(ch, n)
  PROVE  more \in Chunk /\ more.data = ch.data + n
<1>1. PICK d \in Nat : d = ch.data + n
  BY DEF Chunk
<1>2. more = [ch EXCEPT !.data = d]
  BY <1>1 DEF WithData
<1> QED
  BY <1>1, <1>2 DEF Chunk

\* httpdSend, when it opens a chunk and when it does not.
LEMMA PutOpens ==
  ASSUME NEW p \in Priv, NEW b \in Buffer, NEW piece \in Nat, NEW n \in Nat, OpensChunk(p, b),
         NEW u, u = Put(p, b, piece, n)
  PROVE  /\ u \in Buffer
         /\ u.len = b.len + ChunkHdrLen + n /\ u.pieces = Append(b.pieces, piece)
         /\ u.chunkHdr = b.len /\ u.last = b.last
         /\ u.chunk.data = b.chunk.data + n
<1>1. b.len \in Nat /\ b.chunk \in Chunk /\ b.pieces \in Seq(Nat)
  BY DEF Buffer
<1>2. PICK len \in Nat, hdr \in Nat : len = b.len + ChunkHdrLen /\ hdr = b.len
  BY <1>1 DEF ChunkHdrLen
<1>3. PICK opened \in Buffer : opened = [b EXCEPT !.chunkHdr = hdr, !.len = len]
  BY DEF Buffer
<1>4. /\ opened.len = len /\ opened.chunkHdr = hdr /\ opened.pieces = b.pieces
      /\ opened.last = b.last /\ opened.chunk = b.chunk
  BY <1>3 DEF Buffer
<1>5. PICK ch \in Chunk : ch = WithData(b.chunk, n)
  BY <1>1, ChunkGrows
<1>6. PICK total \in Nat, ps \in Seq(Nat) : total = len + n /\ ps = Append(b.pieces, piece)
  <2>1. Append(b.pieces, piece) \in Seq(Nat)
    BY <1>1, AppendIn, Zenon
  <2>2. PICK ps \in Seq(Nat) : ps = Append(b.pieces, piece)
    BY <2>1, Zenon
  <2>3. PICK total \in Nat : total = len + n
    BY <1>2
  <2> QED
    BY <2>2, <2>3, Zenon
<1>7. ch.data = b.chunk.data + n
  BY <1>1, <1>5, ChunkGrows
<1>8. u = [opened EXCEPT !.len = opened.len + n, !.pieces = Append(opened.pieces, piece),
                         !.chunk = IF opened.chunkHdr = -1 THEN opened.chunk
                                   ELSE WithData(opened.chunk, n)]
  <2>1. opened = [b EXCEPT !.chunkHdr = b.len, !.len = @ + ChunkHdrLen]
    BY <1>2, <1>3
  <2> QED
    BY <2>1 DEF Put
<1>9. opened.chunkHdr # -1
  BY <1>4
<1>10. u = [opened EXCEPT !.len = total, !.pieces = ps, !.chunk = ch]
  BY <1>4, <1>5, <1>6, <1>8, <1>9, Zenon
<1>11. u \in Buffer /\ u.len = total /\ u.pieces = ps /\ u.chunk = ch
       /\ u.chunkHdr = opened.chunkHdr /\ u.last = opened.last
  BY <1>10 DEF Buffer
<1> QED
  BY <1>2, <1>4, <1>6, <1>7, <1>11

LEMMA PutAdds ==
  ASSUME NEW p \in Priv, NEW b \in Buffer, NEW piece \in Nat, NEW n \in Nat, ~OpensChunk(p, b),
         NEW u, u = Put(p, b, piece, n)
  PROVE  /\ u \in Buffer
         /\ u.len = b.len + n /\ u.pieces = Append(b.pieces, piece)
         /\ u.chunkHdr = b.chunkHdr /\ u.last = b.last
         /\ b.chunkHdr = -1 => u.chunk = b.chunk
         /\ b.chunkHdr # -1 => u.chunk.data = b.chunk.data + n
<1>1. b.len \in Nat /\ b.chunk \in Chunk /\ b.pieces \in Seq(Nat)
  BY DEF Buffer
<1>2. PICK total \in Nat, ps \in Seq(Nat) : total = b.len + n /\ ps = Append(b.pieces, piece)
  <2>1. Append(b.pieces, piece) \in Seq(Nat)
    BY <1>1, AppendIn, Zenon
  <2>2. PICK ps \in Seq(Nat) : ps = Append(b.pieces, piece)
    BY <2>1, Zenon
  <2>3. PICK total \in Nat : total = b.len + n
    BY <1>1
  <2> QED
    BY <2>2, <2>3, Zenon
<1>3. PICK more \in Chunk : more = WithData(b.chunk, n)
  BY <1>1, ChunkGrows
<1>4. more.data = b.chunk.data + n
  BY <1>1, <1>3, ChunkGrows
<1>5. PICK ch \in Chunk : ch = IF b.chunkHdr = -1 THEN b.chunk ELSE more
  BY <1>1
<1>6. u = [b EXCEPT !.len = b.len + n, !.pieces = Append(b.pieces, piece),
                    !.chunk = IF b.chunkHdr = -1 THEN b.chunk
                              ELSE WithData(b.chunk, n)]
  BY DEF Put
<1>7. u = [b EXCEPT !.len = total, !.pieces = ps, !.chunk = ch]
  BY <1>2, <1>3, <1>5, <1>6, Zenon
<1>8. u \in Buffer /\ u.len = total /\ u.pieces = ps /\ u.chunk = ch
      /\ u.chunkHdr = b.chunkHdr /\ u.last = b.last
  BY <1>7 DEF Buffer
<1> QED
  BY <1>2, <1>4, <1>5, <1>8

-----------------------------------------------------------------------------
(* The packet that is flushed, and what becomes of it.                      *)

IsLast(p, c) == p.chunked /\ p.sendingBody /\ ~c

\* The end of a chunk: CR LF, if there is room, and the length.
LEMMA CloseIs ==
  ASSUME NEW o \in Buffer, NEW b, b = CloseChunk(o)
  PROVE  /\ b \in Buffer /\ b.chunkHdr = -1 /\ b.pieces = o.pieces /\ b.last = o.last
         /\ o.chunkHdr = -1 => b = o
         /\ o.chunkHdr # -1 /\ o.len + CrlfLen <= MaxSendBuff =>
              /\ b.len = o.len + CrlfLen
              /\ b.chunk.claimed = (b.len - o.chunkHdr - 8) % FourHexDigits
              /\ b.chunk.data = o.chunk.data /\ b.chunk.crlf
<1>1. CASE o.chunkHdr = -1
  BY <1>1 DEF CloseChunk
<1>2. CASE o.chunkHdr # -1
  <2>1. PICK crlf \in BOOLEAN : crlf = (o.len + CrlfLen <= MaxSendBuff)
    <3>1. (o.len + CrlfLen <= MaxSendBuff) \in BOOLEAN
      OBVIOUS
    <3> QED
      BY <3>1, Zenon
  <2>2. o.len \in Nat /\ o.chunkHdr \in Nat /\ o.chunk \in Chunk
    BY <1>2 DEF Buffer
  <2>3. PICK len \in Nat : len = o.len + (IF crlf THEN CrlfLen ELSE 0)
    BY <2>2 DEF CrlfLen
  <2>4. PICK z \in Int : z = len - o.chunkHdr - 8
    BY <2>2
  <2>5. PICK claimed \in 0 .. FourHexDigits - 1, d \in Nat :
          claimed = z % FourHexDigits /\ d = o.chunk.data
    <3>1. FourHexDigits \in Nat \ {0}
      BY DEF FourHexDigits
    <3>2. z % FourHexDigits \in 0 .. FourHexDigits - 1
      BY <3>1
    <3>3. o.chunk.data \in Nat
      BY <2>2 DEF Chunk
    <3> QED
      BY <3>2, <3>3, Zenon
  <2>6. PICK ch \in Chunk : /\ ch = WithEnd(o.chunk, len - o.chunkHdr - 8, crlf)
                            /\ ch.claimed = claimed /\ ch.data = d /\ ch.crlf = crlf
    <3>1. PICK ch : ch = [claimed |-> claimed, data |-> d, crlf |-> crlf]
      OBVIOUS
    <3>2. ch = WithEnd(o.chunk, len - o.chunkHdr - 8, crlf)
      BY <2>4, <2>5, <3>1, Zenon DEF WithEnd
    <3>3. ch \in Chunk /\ ch.claimed = claimed /\ ch.data = d /\ ch.crlf = crlf
      BY <3>1 DEF Chunk
    <3> QED
      BY <3>2, <3>3, Zenon
  <2>7. PICK none \in Nat \cup {-1} : none = -1
    OBVIOUS
  <2>8. b = [o EXCEPT !.len = len, !.chunk = ch, !.chunkHdr = none]
    BY <1>2, <2>1, <2>3, <2>6, <2>7 DEF CloseChunk
  <2>9. /\ b \in Buffer /\ b.len = len /\ b.chunk = ch /\ b.chunkHdr = none
        /\ b.pieces = o.pieces /\ b.last = o.last
    BY <2>8 DEF Buffer
  <2>10. o.len + CrlfLen <= MaxSendBuff => crlf /\ len = o.len + CrlfLen
    BY <2>1, <2>3
  <2>11. b.chunk.claimed = (b.len - o.chunkHdr - 8) % FourHexDigits
    BY <2>4, <2>5, <2>6, <2>9, Zenon
  <2> QED
    BY <1>2, <2>5, <2>6, <2>7, <2>9, <2>10, <2>11
<1> QED
  BY <1>1, <1>2

LEMMA AddLastIs ==
  ASSUME NEW p \in Priv, NEW c \in BOOLEAN, NEW o \in Buffer, NEW b, b = AddLast(p, c, o)
  PROVE  /\ b \in Buffer /\ b.chunkHdr = o.chunkHdr /\ b.pieces = o.pieces /\ b.chunk = o.chunk
         /\ IsLast(p, c) => b.len = o.len + LastChunkLen /\ b.last
         /\ ~IsLast(p, c) => b = o
<1>1. CASE ~IsLast(p, c)
  BY <1>1 DEF AddLast, IsLast
<1>2. CASE IsLast(p, c)
  <2>1. PICK len \in Nat : len = o.len + LastChunkLen
    BY DEF Buffer, LastChunkLen
  <2>2. PICK yes \in BOOLEAN : yes = TRUE
    BY Zenon
  <2>3. b = [o EXCEPT !.len = len, !.last = yes]
    BY <1>2, <2>1, <2>2 DEF AddLast, IsLast
  <2> QED
    BY <1>2, <2>1, <2>2, <2>3 DEF Buffer
<1> QED
  BY <1>1, <1>2

Outcome ==
  [buff : Buffer, log : Seq(Buffer), size : Int, wire : Seq(Buffer), received : Seq(Nat)]

Becomes(b, o, r) ==
  \/ b.len = 0 /\ r = o
  \/ /\ b.len # 0
     /\ \/ r = Taken(b, o)
        \/ o.size + b.len > MaxBacklog /\ r = Dropped(b, o)
        \/ o.size + b.len <= MaxBacklog /\ r = Queued(b, o)
        \/ "malloc" \in Features /\ r = Kept(b, o)

LEMMA FlushIs ==
  ASSUME NEW p, NEW c, NEW o \in Outcome, NEW b \in Buffer,
         b = AddLast(p, c, CloseChunk(o.buff)), NEW r \in Flush(p, c, o)
  PROVE  Becomes(b, o, r)
<1>1. CASE b.len = 0
  BY <1>1 DEF Flush, Becomes
<1>2. CASE b.len # 0
  <2>1. r \in WriteOutcomes(b, o)
    BY <1>2 DEF Flush
  <2>2. PICK total \in Int : total = o.size + b.len
    BY DEF Outcome, Buffer
  <2>3. total > MaxBacklog \/ total <= MaxBacklog
    BY SendPathAssumption
  <2>4. \/ r = Taken(b, o)
        \/ total > MaxBacklog /\ r = Dropped(b, o)
        \/ ~(total > MaxBacklog) /\ (r = Queued(b, o) \/ ("malloc" \in Features /\ r = Kept(b, o)))
    BY <2>1, <2>2 DEF WriteOutcomes
  <2> QED
    BY <1>2, <2>2, <2>3, <2>4 DEF Becomes
<1> QED
  BY <1>1, <1>2

\* The fields of an outcome, and its type.
Fields(b, o, r) ==
  \/ b.len = 0 /\ r = o
  \/ /\ r.buff = EmptyBuffer /\ r.log = o.log /\ r.size = o.size
     /\ r.wire = Append(o.wire, b) /\ r.received = o.received \o b.pieces
  \/ /\ o.size + b.len > MaxBacklog
     /\ r.buff = EmptyBuffer /\ r.log = o.log /\ r.size = o.size
     /\ r.wire = o.wire /\ r.received = o.received
  \/ /\ o.size + b.len <= MaxBacklog
     /\ r.buff = EmptyBuffer /\ r.log = Append(o.log, b) /\ r.size = o.size + b.len
     /\ r.wire = o.wire /\ r.received = o.received
  \/ /\ "malloc" \in Features
     /\ r.buff = b /\ r.log = o.log /\ r.size = o.size
     /\ r.wire = o.wire /\ r.received = o.received

LEMMA BecomesIs ==
  ASSUME NEW o \in Outcome, NEW b \in Buffer, NEW r, Becomes(b, o, r)
  PROVE  r \in Outcome /\ Fields(b, o, r)
<1>1. PICK log \in Seq(Buffer) : log = o.log
  BY DEF Outcome
<1>2. PICK w \in Seq(Buffer) : w = o.wire
  BY DEF Outcome
<1>3. PICK got \in Seq(Nat) : got = o.received
  BY DEF Outcome
<1>4. PICK size \in Int : size = o.size
  BY DEF Outcome
<1>5. PICK w2 \in Seq(Buffer) : w2 = Append(o.wire, b)
  BY <1>2, AppendIn, Zenon
<1>6. PICK log2 \in Seq(Buffer) : log2 = Append(o.log, b)
  BY <1>1, AppendIn, Zenon
<1>7. PICK got2 \in Seq(Nat) : got2 = o.received \o b.pieces
  <2>1. b.pieces \in Seq(Nat)
    BY DEF Buffer
  <2>2. o.received \o b.pieces \in Seq(Nat)
    BY <1>3, <2>1, ConcatProperties, Zenon
  <2> QED
    BY <2>2, Zenon
<1>8. PICK size2 \in Int : size2 = o.size + b.len
  BY <1>4 DEF Buffer
<1>9. CASE b.len = 0 /\ r = o
  BY <1>9 DEF Fields
<1>10. CASE r = Taken(b, o)
  <2>1. r = [buff |-> EmptyBuffer, log |-> log, size |-> size, wire |-> w2, received |-> got2]
    BY <1>1, <1>4, <1>5, <1>7, <1>10, Zenon DEF Taken
  <2>2. /\ r \in Outcome
        /\ r.buff = EmptyBuffer /\ r.log = log /\ r.size = size
        /\ r.wire = w2 /\ r.received = got2
    BY <2>1, EmptyIsBuffer DEF Outcome
  <2> QED
    BY <1>1, <1>4, <1>5, <1>7, <2>2, Zenon DEF Fields
<1>11. CASE o.size + b.len > MaxBacklog /\ r = Dropped(b, o)
  <2>1. r = [buff |-> EmptyBuffer, log |-> log, size |-> size, wire |-> w, received |-> got]
    BY <1>1, <1>2, <1>3, <1>4, <1>11, Zenon DEF Dropped
  <2>2. /\ r \in Outcome
        /\ r.buff = EmptyBuffer /\ r.log = log /\ r.size = size
        /\ r.wire = w /\ r.received = got
    BY <2>1, EmptyIsBuffer DEF Outcome
  <2> QED
    BY <1>1, <1>2, <1>3, <1>4, <1>11, <2>2, Zenon DEF Fields
<1>12. CASE o.size + b.len <= MaxBacklog /\ r = Queued(b, o)
  <2>1. r = [buff |-> EmptyBuffer, log |-> log2, size |-> size2, wire |-> w, received |-> got]
    BY <1>2, <1>3, <1>6, <1>8, <1>12, Zenon DEF Queued
  <2>2. /\ r \in Outcome
        /\ r.buff = EmptyBuffer /\ r.log = log2 /\ r.size = size2
        /\ r.wire = w /\ r.received = got
    BY <2>1, EmptyIsBuffer DEF Outcome
  <2> QED
    BY <1>2, <1>3, <1>6, <1>8, <1>12, <2>2, Zenon DEF Fields
<1>13. CASE "malloc" \in Features /\ r = Kept(b, o)
  <2>1. r = [buff |-> b, log |-> log, size |-> size, wire |-> w, received |-> got]
    BY <1>1, <1>2, <1>3, <1>4, <1>13, Zenon DEF Kept
  <2>2. /\ r \in Outcome
        /\ r.buff = b /\ r.log = log /\ r.size = size
        /\ r.wire = w /\ r.received = got
    BY <2>1 DEF Outcome
  <2> QED
    BY <1>1, <1>2, <1>3, <1>4, <1>13, <2>2, Zenon DEF Fields
<1> QED
  BY <1>9, <1>10, <1>11, <1>12, <1>13, Zenon DEF Becomes

-----------------------------------------------------------------------------
(* How many bytes a backlog has.                                            *)

LEMMA ByteIs ==
  ASSUME NEW log \in Seq(Buffer), NEW x
  PROVE  x \in BytesOf(log) <=> \E k \in 1 .. Len(log) : \E i \in 1 .. log[k].len : x = <<k, i>>
<1>1. DOMAIN log = 1 .. Len(log)
  BY LenProperties
<1> QED
  BY <1>1 DEF BytesOf

LEMMA SizeEmpty == IsFiniteSet(BytesOf(<<>>)) /\ Size(<<>>) = 0
<1>1. BytesOf(<<>>) = {}
  BY DEF BytesOf
<1> QED
  BY <1>1, FS_EmptySet DEF Size

\* The bytes of one packet.
LEMMA SizeOne ==
  ASSUME NEW k, NEW n \in Nat
  PROVE  IsFiniteSet({k} \X (1 .. n)) /\ Cardinality({k} \X (1 .. n)) = n
<1>1. IsFiniteSet({k}) /\ Cardinality({k}) = 1
  BY FS_Singleton
<1>2. IsFiniteSet(1 .. n) /\ Cardinality(1 .. n) = n
  BY FS_Interval
<1>3. PICK A, B : A = {k} /\ B = 1 .. n
  OBVIOUS
<1>4. IsFiniteSet(A \X B) /\ Cardinality(A \X B) = Cardinality(A) * Cardinality(B)
  BY <1>1, <1>2, <1>3, FS_Product, Zenon
<1>5. Cardinality(A) * Cardinality(B) = n
  BY <1>1, <1>2, <1>3
<1> QED
  BY <1>3, <1>4, <1>5, Zenon

LEMMA SizeApart ==
  ASSUME NEW A, NEW B, IsFiniteSet(A), IsFiniteSet(B), A \cap B = {}
  PROVE  IsFiniteSet(A \cup B) /\ Cardinality(A \cup B) = Cardinality(A) + Cardinality(B)
<1>1. /\ IsFiniteSet(A \cup B)
      /\ Cardinality(A \cup B) = Cardinality(A) + Cardinality(B) - Cardinality(A \cap B)
  BY FS_Union
<1>2. Cardinality(A \cap B) = 0
  BY FS_EmptySet
<1>3. Cardinality(A) \in Nat /\ Cardinality(B) \in Nat
  BY FS_CardinalityType
<1> QED
  BY <1>1, <1>2, <1>3

LEMMA SizeAppend ==
  ASSUME NEW s \in Seq(Buffer), NEW b \in Buffer, IsFiniteSet(BytesOf(s))
  PROVE  IsFiniteSet(BytesOf(Append(s, b))) /\ Size(Append(s, b)) = Size(s) + b.len
<1>1. PICK t \in Seq(Buffer) :
        /\ t = Append(s, b) /\ Len(t) = Len(s) + 1
        /\ \A k \in 1 .. Len(s) : t[k] = s[k]
        /\ t[Len(s) + 1] = b
  <2>1. /\ Append(s, b) \in Seq(Buffer) /\ Len(Append(s, b)) = Len(s) + 1
        /\ \A k \in 1 .. Len(s) : Append(s, b)[k] = s[k]
        /\ Append(s, b)[Len(s) + 1] = b
    BY AppendProperties
  <2> QED
    BY <2>1, Zenon
<1>2. PICK n \in Nat : n = Len(s) + 1
  BY LenProperties
<1>3. PICK A : A = {n} \X (1 .. b.len)
  OBVIOUS
<1>4. b.len \in Nat
  BY DEF Buffer
<1>5. IsFiniteSet(A) /\ Cardinality(A) = b.len
  BY <1>3, <1>4, SizeOne
<1>6. Len(s) \in Nat
  BY LenProperties
<1>7. \A x : x \in A <=> \E i \in 1 .. b.len : x = <<n, i>>
  BY <1>3
<1>8. ASSUME NEW x PROVE x \in BytesOf(t) <=> x \in BytesOf(s) \/ x \in A
  <2>1. x \in BytesOf(t) <=> \E k \in 1 .. n : \E i \in 1 .. t[k].len : x = <<k, i>>
    <3>1. Len(t) = n
      BY <1>1, <1>2
    <3>2. x \in BytesOf(t) <=> \E k \in 1 .. Len(t) : \E i \in 1 .. t[k].len : x = <<k, i>>
      BY ByteIs
    <3> QED
      BY <3>1, <3>2, Zenon
  <2>2. x \in BytesOf(s) <=> \E k \in 1 .. Len(s) : \E i \in 1 .. s[k].len : x = <<k, i>>
    BY ByteIs
  <2>3. t[n] = b
    BY <1>1, <1>2
  <2>4. ASSUME NEW k PROVE k \in 1 .. n <=> k \in 1 .. Len(s) \/ k = n
    BY <1>2, <1>6
  <2>5. x \in BytesOf(t) <=> \/ \E k \in 1 .. Len(s) : \E i \in 1 .. t[k].len : x = <<k, i>>
                             \/ \E i \in 1 .. t[n].len : x = <<n, i>>
    BY <2>1, <2>4, Zenon
  <2>6. \A k \in 1 .. Len(s) : t[k] = s[k]
    BY <1>1
  <2> QED
    BY <1>7, <2>2, <2>3, <2>5, <2>6, Zenon
<1>9. BytesOf(t) = BytesOf(s) \cup A
  BY <1>8
<1>10. BytesOf(s) \cap A = {}
  <2> SUFFICES ASSUME NEW x \in BytesOf(s), x \in A
               PROVE  FALSE
    OBVIOUS
  <2>1. PICK k \in 1 .. Len(s) : \E i \in 1 .. s[k].len : x = <<k, i>>
    BY ByteIs
  <2>2. PICK j \in 1 .. b.len : x = <<n, j>>
    BY <1>7
  <2>3. k = n
    <3>1. PICK i \in 1 .. s[k].len : x = <<k, i>>
      BY <2>1
    <3> QED
      BY <2>2, <3>1
  <2> QED
    BY <1>2, <1>6, <2>3
<1>11. IsFiniteSet(BytesOf(t)) /\ Cardinality(BytesOf(t)) = Cardinality(BytesOf(s)) + b.len
  BY <1>5, <1>9, <1>10, SizeApart
<1> QED
  BY <1>1, <1>11, Zenon DEF Size

\* Without its first packet a backlog has so many bytes less.
LEMMA SizeTail ==
  ASSUME NEW s \in Seq(Buffer), s # <<>>, IsFiniteSet(BytesOf(s))
  PROVE  IsFiniteSet(BytesOf(Tail(s))) /\ Size(s) = Size(Tail(s)) + Head(s).len
<1>1. PICK t \in Seq(Buffer) :
        /\ t = Tail(s) /\ Len(t) = Len(s) - 1
        /\ \A k \in 1 .. Len(t) : t[k] = s[k + 1]
  <2>1. /\ Tail(s) \in Seq(Buffer) /\ Len(Tail(s)) = Len(s) - 1
        /\ \A k \in 1 .. Len(Tail(s)) : Tail(s)[k] = s[k + 1]
    BY HeadTailProperties
  <2> QED
    BY <2>1, Zenon
<1>2. Len(t) \in Nat /\ Len(s) \in Nat
  BY LenProperties
<1>3. PICK n \in Nat : n = s[1].len /\ Head(s).len = n
  <2>1. Head(s) \in Buffer /\ Head(s) = s[1]
    BY HeadTailProperties
  <2> QED
    BY <2>1 DEF Buffer
<1>4. PICK A : A = {1} \X (1 .. n)
  OBVIOUS
<1>5. IsFiniteSet(A) /\ Cardinality(A) = n
  BY <1>4, SizeOne
<1>6. \A x : x \in A <=> \E i \in 1 .. n : x = <<1, i>>
  BY <1>4
<1>7. PICK C : C = BytesOf(s) \ A
  OBVIOUS
<1>8. IsFiniteSet(C)
  BY <1>7, FS_Difference
<1>9. A \subseteq BytesOf(s)
  <2> SUFFICES ASSUME NEW x \in A
               PROVE  x \in BytesOf(s)
    OBVIOUS
  <2>1. PICK i \in 1 .. n : x = <<1, i>>
    BY <1>6
  <2>2. 1 \in 1 .. Len(s) /\ i \in 1 .. s[1].len
    BY <1>1, <1>2, <1>3
  <2>3. \E k \in 1 .. Len(s) : \E j \in 1 .. s[k].len : x = <<k, j>>
    BY <2>1, <2>2
  <2> QED
    BY <2>3, ByteIs
<1>10. Cardinality(BytesOf(s)) = Cardinality(C) + n
  <2>1. BytesOf(s) = C \cup A /\ C \cap A = {}
    BY <1>7, <1>9
  <2> QED
    BY <1>5, <1>8, <2>1, SizeApart
<1>11. ASSUME NEW x PROVE
         x \in C <=> \E k \in 1 .. Len(t) : \E i \in 1 .. t[k].len : x = <<k + 1, i>>
  <2>1. x \in BytesOf(s) <=> \E k \in 1 .. Len(s) : \E i \in 1 .. s[k].len : x = <<k, i>>
    BY ByteIs
  <2>2. ASSUME x \in C
        PROVE  \E k \in 1 .. Len(t) : \E i \in 1 .. t[k].len : x = <<k + 1, i>>
    <3>1. x \in BytesOf(s) /\ x \notin A
      BY <1>7, <2>2
    <3>2. PICK k \in 1 .. Len(s) : \E i \in 1 .. s[k].len : x = <<k, i>>
      BY <2>1, <3>1
    <3>3. PICK i \in 1 .. s[k].len : x = <<k, i>>
      BY <3>2
    <3>4. k # 1
      BY <1>3, <1>6, <3>1, <3>3
    <3>5. PICK j \in 1 .. Len(t) : k = j + 1
      BY <1>1, <1>2, <3>4
    <3>6. t[j] = s[k]
      BY <1>1, <3>5
    <3> QED
      BY <3>3, <3>5, <3>6
  <2>3. ASSUME NEW k \in 1 .. Len(t), NEW i \in 1 .. t[k].len, x = <<k + 1, i>>
        PROVE  x \in C
    <3>1. PICK j \in 1 .. Len(s) : j = k + 1 /\ j # 1
      BY <1>1, <1>2
    <3>2. i \in 1 .. s[j].len
      BY <1>1, <3>1
    <3>3. x \in BytesOf(s)
      BY <2>1, <2>3, <3>1, <3>2
    <3>4. x \notin A
      BY <1>6, <2>3, <3>1
    <3> QED
      BY <1>7, <3>3, <3>4
  <2> QED
    BY <2>2, <2>3
<1>12. PICK f : f = [x \in C |-> <<x[1] - 1, x[2]>>]
  OBVIOUS
<1>13. ASSUME NEW k \in 1 .. Len(t), NEW i \in 1 .. t[k].len
       PROVE  <<k + 1, i>> \in C /\ f[<<k + 1, i>>] = <<k, i>>
  <2>1. <<k + 1, i>> \in C
    BY <1>11
  <2>2. PICK j : j = k + 1 /\ j - 1 = k
    BY <1>2
  <2>3. f[<<j, i>>] = <<j - 1, i>>
    BY <1>12, <2>1, <2>2
  <2> QED
    BY <2>1, <2>2, <2>3
<1>14. f \in Bijection(C, BytesOf(t))
  <2>1. f \in [C -> BytesOf(t)]
    <3>1. ASSUME NEW x \in C PROVE f[x] \in BytesOf(t)
      <4>1. PICK k \in 1 .. Len(t) : \E i \in 1 .. t[k].len : x = <<k + 1, i>>
        BY <1>11
      <4>2. PICK i \in 1 .. t[k].len : x = <<k + 1, i>>
        BY <4>1
      <4>3. f[x] = <<k, i>>
        BY <1>13, <4>2
      <4> QED
        BY <4>3, ByteIs
    <3> QED
      BY <1>12, <3>1
  <2>2. ASSUME NEW x \in C, NEW y \in C, f[x] = f[y] PROVE x = y
    <3>1. PICK k \in 1 .. Len(t) : \E i \in 1 .. t[k].len : x = <<k + 1, i>>
      BY <1>11
    <3>2. PICK i \in 1 .. t[k].len : x = <<k + 1, i>>
      BY <3>1
    <3>3. PICK l \in 1 .. Len(t) : \E j \in 1 .. t[l].len : y = <<l + 1, j>>
      BY <1>11
    <3>4. PICK j \in 1 .. t[l].len : y = <<l + 1, j>>
      BY <3>3
    <3>5. f[x] = <<k, i>> /\ f[y] = <<l, j>>
      BY <1>13, <3>2, <3>4
    <3> QED
      BY <2>2, <3>2, <3>4, <3>5
  <2>3. ASSUME NEW y \in BytesOf(t) PROVE \E x \in C : f[x] = y
    <3>1. PICK k \in 1 .. Len(t) : \E i \in 1 .. t[k].len : y = <<k, i>>
      BY ByteIs
    <3>2. PICK i \in 1 .. t[k].len : y = <<k, i>>
      BY <3>1
    <3> QED
      BY <1>13, <3>2
  <2>4. DOMAIN f = C
    BY <1>12
  <2>5. IsInjective(f)
    BY <2>2, <2>4 DEF IsInjective
  <2> QED
    BY <2>1, <2>3, <2>5 DEF Bijection, Injection, Surjection
<1>15. IsFiniteSet(BytesOf(t)) /\ Cardinality(BytesOf(t)) = Cardinality(C)
  <2>1. ExistsBijection(C, BytesOf(t))
    BY <1>14 DEF ExistsBijection
  <2> QED
    BY <1>8, <2>1, FS_Bijection
<1> QED
  BY <1>1, <1>3, <1>10, <1>15 DEF Size

-----------------------------------------------------------------------------
(* The callbacks that flush.                                                *)

Ends(r) ==
  /\ pc' = "idle" /\ sendBuff' = EmptyBuffer
  /\ backlog' = r.log /\ backlogSize' = r.size /\ wire' = r.wire /\ received' = r.received

\* A flush of b with the flags p, perhaps a second one with the flags q, and the end.
Returned(p, c, q, b, r1, r) ==
  /\ r1 \in Flush(p, c, NowWith(b))
  /\ r = r1 \/ r \in Flush(q, c, r1)
  /\ Ends(r)

LEMMA EndIs == ASSUME NEW outcomes, End(outcomes)
               PROVE  \E r \in outcomes : Ends(r)
BY DEF End, Ends

LEMMA DoneIsPriv ==
  ASSUME NEW p \in Priv
  PROVE  /\ DoneFlags(p) \in Priv /\ DoneFlags(p).disconAfterSent
         /\ p.chunked => ~DoneFlags(p).chunked /\ ~DoneFlags(p).sendingBody /\ DoneFlags(p).head
         /\ ~p.chunked => /\ ~DoneFlags(p).chunked /\ DoneFlags(p).head = p.head
                          /\ DoneFlags(p).sendingBody = p.sendingBody
<1>1. CASE p.chunked
  <2>1. DoneFlags(p) = [chunked |-> FALSE, sendingBody |-> FALSE, disconAfterSent |-> TRUE, head |-> TRUE]
    BY <1>1 DEF DoneFlags
  <2> QED
    BY <1>1, <2>1 DEF Priv
<1>2. CASE ~p.chunked
  <2>1. DoneFlags(p) = [p EXCEPT !.disconAfterSent = TRUE]
    BY <1>2 DEF DoneFlags
  <2> QED
    BY <1>2, <2>1 DEF Priv
<1> QED
  BY <1>1, <1>2 DEF Priv

LEMMA MoreReturns ==
  ASSUME ReturnMore
  PROVE  /\ InCgi /\ priv' = priv /\ cgi' = cgi /\ accepted' = accepted
         /\ \E r1, r : Returned(priv, cgi, priv, sendBuff, r1, r)
<1>1. InCgi /\ priv' = priv /\ cgi' = cgi /\ accepted' = accepted
  BY DEF ReturnMore
<1>2. CASE pc = "recv"
  <2>1. PICK r \in FlushTwice(priv, cgi, priv, Now) : Ends(r)
    BY <1>2, EndIs DEF ReturnMore
  <2>2. PICK r1 \in Flush(priv, cgi, Now) : r \in Flush(priv, cgi, r1)
    BY <2>1 DEF FlushTwice
  <2> QED
    BY <1>1, <2>1, <2>2 DEF Returned, Now
<1>3. CASE pc # "recv"
  <2>1. PICK r \in Flush(priv, cgi, Now) : Ends(r)
    BY <1>3, EndIs DEF ReturnMore
  <2> QED
    BY <1>1, <2>1 DEF Returned, Now
<1> QED
  BY <1>2, <1>3

LEMMA DoneReturns ==
  ASSUME ReturnDone
  PROVE  /\ InCgi /\ priv' = DoneFlags(priv) /\ cgi' = FALSE /\ accepted' = accepted
         /\ \E p, r1, r : /\ p \in {priv, priv'} /\ (p = priv => priv.chunked \/ priv' = priv)
                          /\ ~priv.chunked => p = priv'
                          /\ Returned(p, FALSE, priv', sendBuff, r1, r)
<1>1. InCgi /\ priv' = DoneFlags(priv) /\ cgi' = FALSE /\ accepted' = accepted
  BY DEF ReturnDone
<1>2. CASE priv.chunked
  <2>1. PICK r \in FlushTwice(priv, FALSE, priv', Now) : Ends(r)
    BY <1>2, EndIs DEF ReturnDone
  <2>2. PICK r1 \in Flush(priv, FALSE, Now) : r \in Flush(priv', FALSE, r1)
    BY <2>1 DEF FlushTwice
  <2> QED
    BY <1>1, <1>2, <2>1, <2>2 DEF Returned, Now
<1>3. CASE ~priv.chunked
  <2>1. PICK r \in Flush(priv', FALSE, Now) : Ends(r)
    BY <1>3, EndIs DEF ReturnDone
  <2>2. Returned(priv', FALSE, priv', sendBuff, r, r)
    BY <2>1 DEF Returned, Now
  <2> QED
    BY <1>1, <1>3, <2>2
<1> QED
  BY <1>2, <1>3

LEMMA AsyncReturns ==
  ASSUME NEW n, AsyncSend(n)
  PROVE  /\ pc = "idle" /\ cgi /\ ~priv.chunked /\ "async" \in Features
         /\ Fits(priv, EmptyBuffer, n)
         /\ priv' = priv /\ cgi' = cgi /\ accepted' = accepted + 1
         /\ \E r : Returned(priv, cgi, priv, Put(priv, EmptyBuffer, accepted + 1, n), r, r)
<1>1. PICK b : b = Put(priv, EmptyBuffer, accepted + 1, n)
  OBVIOUS
<1>2. PICK r \in Flush(priv, cgi, NowWith(b)) : Ends(r)
  BY <1>1, EndIs DEF AsyncSend
<1>3. Returned(priv, cgi, priv, b, r, r)
  BY <1>2 DEF Returned
<1>4. \E s : Returned(priv, cgi, priv, b, s, s)
  BY <1>3
<1> QED
  BY <1>1, <1>4 DEF AsyncSend

\* The two flushes as steps from one outcome to the next.
LEMMA ReturnedIs ==
  ASSUME TypeOK, NEW p \in Priv, NEW c \in BOOLEAN, NEW q \in Priv, NEW b \in Buffer,
         NEW r1, NEW r, Returned(p, c, q, b, r1, r)
  PROVE  /\ NowWith(b) \in Outcome /\ r1 \in Outcome /\ r \in Outcome /\ Ends(r)
         /\ \E b1 \in Buffer : /\ b1 = AddLast(p, c, CloseChunk(b))
                               /\ Becomes(b1, NowWith(b), r1)
         /\ \/ r = r1
            \/ \E b2 \in Buffer : /\ b2 = AddLast(q, c, CloseChunk(r1.buff))
                                  /\ Becomes(b2, r1, r)
<1>1. NowWith(b) \in Outcome /\ NowWith(b).buff = b
  BY DEF NowWith, Outcome, TypeOK
<1>2. \A o \in Outcome : \A f \in Priv : \A s \in Flush(f, c, o) :
        s \in Outcome /\ \E u \in Buffer : u = AddLast(f, c, CloseChunk(o.buff)) /\ Becomes(u, o, s)
  <2>1. SUFFICES ASSUME NEW o \in Outcome, NEW f \in Priv, NEW s \in Flush(f, c, o)
                 PROVE  /\ s \in Outcome
                        /\ \E u \in Buffer : u = AddLast(f, c, CloseChunk(o.buff)) /\ Becomes(u, o, s)
    OBVIOUS
  <2>2. PICK v : v = CloseChunk(o.buff)
    OBVIOUS
  <2>3. v \in Buffer
    <3>1. o.buff \in Buffer
      BY DEF Outcome
    <3> QED
      BY <2>2, <3>1, CloseIs
  <2>4. PICK u : u = AddLast(f, c, v)
    OBVIOUS
  <2>5. u \in Buffer
    BY <2>3, <2>4, AddLastIs
  <2>6. Becomes(u, o, s)
    BY <2>2, <2>4, <2>5, FlushIs, Zenon
  <2>7. s \in Outcome
    BY <2>5, <2>6, BecomesIs, Zenon
  <2> QED
    BY <2>2, <2>4, <2>5, <2>6, <2>7, Zenon
<1>3. r1 \in Flush(p, c, NowWith(b)) /\ (r = r1 \/ r \in Flush(q, c, r1)) /\ Ends(r)
  BY DEF Returned
<1>4. r1 \in Outcome /\ \E b1 \in Buffer : b1 = AddLast(p, c, CloseChunk(b)) /\ Becomes(b1, NowWith(b), r1)
  BY <1>1, <1>2, <1>3, Zenon
<1> QED
  BY <1>1, <1>2, <1>3, <1>4, Zenon

-----------------------------------------------------------------------------
(* Types.                                                                   *)

LEMMA TypedReturn ==
  ASSUME TypeOK, NEW p \in Priv, NEW c \in BOOLEAN, NEW q \in Priv, NEW b \in Buffer,
         NEW r1, NEW r, Returned(p, c, q, b, r1, r)
  PROVE  /\ pc' = "idle" /\ sendBuff' \in Buffer
         /\ backlog' \in Seq(Buffer) /\ backlogSize' \in Int
         /\ wire' \in Seq(Buffer) /\ received' \in Seq(Nat)
<1>1. r \in Outcome /\ Ends(r)
  BY ReturnedIs, Zenon
<1>2. /\ r.log \in Seq(Buffer) /\ r.size \in Int
      /\ r.wire \in Seq(Buffer) /\ r.received \in Seq(Nat)
  BY <1>1 DEF Outcome
<1> QED
  BY <1>1, <1>2, EmptyIsBuffer, Zenon DEF Ends

LEMMA PutIsBuffer ==
  ASSUME NEW p \in Priv, NEW b \in Buffer, NEW piece \in Nat, NEW n \in Nat
  PROVE  Put(p, b, piece, n) \in Buffer
BY PutOpens, PutAdds

LEMMA InitTypes == Init => TypeOK
<1>1. HAVE Init
<1>2. priv \in Priv
  BY <1>1 DEF Init, Priv
<1>3. backlog \in Seq(Buffer) /\ wire \in Seq(Buffer) /\ received \in Seq(Nat)
  BY <1>1, EmptySeq, Zenon DEF Init
<1>4. sendBuff \in Buffer /\ cgi \in BOOLEAN
  BY <1>1, EmptyIsBuffer, Zenon DEF Init
<1>5. backlogSize \in Int /\ accepted \in Nat /\ pc \in {"idle", "recv", "sent", "closed"}
  BY <1>1 DEF Init
<1> QED
  BY <1>2, <1>3, <1>4, <1>5, Zenon DEF TypeOK

LEMMA DrainTypes ==
  ASSUME TypeOK, SentBacklog
  PROVE  /\ backlog \in Seq(Buffer) /\ Head(backlog) \in Buffer /\ backlog # <<>>
         /\ backlog' = Tail(backlog) /\ backlog' \in Seq(Buffer)
         /\ backlogSize' = backlogSize - Head(backlog).len /\ backlogSize' \in Int
         /\ wire' \in Seq(Buffer) /\ received' \in Seq(Nat)
<1>1. backlog \in Seq(Buffer) /\ backlog # <<>> /\ backlog' = Tail(backlog)
      /\ backlogSize' = backlogSize - Head(backlog).len
  BY DEF TypeOK, SentBacklog, Drained
<1>2. Head(backlog) \in Buffer /\ Tail(backlog) \in Seq(Buffer)
  BY <1>1, HeadTailProperties
<1>3. PICK h \in Buffer : h = Head(backlog)
  BY <1>2
<1>4. h.len \in Nat /\ h.pieces \in Seq(Nat)
  BY DEF Buffer
<1>5. backlogSize \in Int /\ wire \in Seq(Buffer) /\ received \in Seq(Nat)
  BY DEF TypeOK
<1>6. backlogSize' \in Int
  BY <1>1, <1>3, <1>4, <1>5
<1>7. \/ wire' = Append(wire, h) /\ received' = received \o h.pieces
      \/ wire' = wire /\ received' = received
  BY <1>3 DEF SentBacklog
<1>8. Append(wire, h) \in Seq(Buffer)
  BY <1>5, AppendIn, Zenon
<1>9. received \o h.pieces \in Seq(Nat)
  BY <1>4, <1>5, ConcatProperties, Zenon
<1> QED
  BY <1>1, <1>2, <1>5, <1>6, <1>7, <1>8, <1>9, Zenon

\* Every field of every packet is of its type. (httpd.h: HttpdPriv)
THEOREM SendTypes == Spec => []TypeOK
<1> USE SendPathAssumption
<1>1. Init => TypeOK
  BY InitTypes
<1>2. TypeOK /\ [Next]_vars => TypeOK'
  <2> SUFFICES ASSUME TypeOK, [Next]_vars
               PROVE  TypeOK'
    OBVIOUS
  <2>0. priv \in Priv /\ cgi \in BOOLEAN /\ sendBuff \in Buffer /\ accepted \in Nat
    BY DEF TypeOK
  <2>1. ASSUME NEW chunked \in BOOLEAN, Request(chunked) PROVE TypeOK'
    <3>1. PICK no \in BOOLEAN : no = FALSE
      BY Zenon
    <3>2. priv' = [priv EXCEPT !.chunked = chunked, !.head = no]
      BY <2>1, <3>1 DEF Request
    <3>3. priv' \in Priv
      BY <2>0, <3>2 DEF Priv
    <3> QED
      BY <2>1, <3>3 DEF Request, TypeOK
  <2>2. CASE SentBacklog
    BY <2>2, DrainTypes, Zenon DEF SentBacklog, TypeOK
  <2>3. CASE SentClose
    BY <2>3 DEF SentClose, TypeOK
  <2>4. CASE SentCgi
    BY <2>4 DEF SentCgi, TypeOK
  <2>5. ASSUME NEW n \in Lens, Send(n) PROVE TypeOK'
    <3>1. n \in Nat /\ accepted + 1 \in Nat
      BY <2>0
    <3>2. sendBuff' \in Buffer
      BY <2>0, <2>5, <3>1, PutIsBuffer DEF Send
    <3> QED
      BY <2>5, <3>1, <3>2 DEF Send, TypeOK
  <2>6. ASSUME NEW n \in Lens, AsyncSend(n) PROVE TypeOK'
    <3>1. n \in Nat /\ accepted + 1 \in Nat
      BY <2>0
    <3>2. PICK b : b = Put(priv, EmptyBuffer, accepted + 1, n)
      OBVIOUS
    <3>3. b \in Buffer
      BY <2>0, <3>1, <3>2, EmptyIsBuffer, PutIsBuffer
    <3>4. PICK r : Returned(priv, cgi, priv, b, r, r)
      BY <2>6, <3>2, AsyncReturns, Zenon
    <3>5. /\ pc' = "idle" /\ sendBuff' \in Buffer
          /\ backlog' \in Seq(Buffer) /\ backlogSize' \in Int
          /\ wire' \in Seq(Buffer) /\ received' \in Seq(Nat)
      BY <2>0, <3>3, <3>4, TypedReturn, Zenon
    <3>6. priv' = priv /\ cgi' = cgi /\ accepted' = accepted + 1
      BY <2>6, AsyncReturns, Zenon
    <3> QED
      BY <2>0, <3>1, <3>5, <3>6 DEF TypeOK
  <2>7. CASE EndHeaders
    <3>1. PICK yes \in BOOLEAN : yes = TRUE
      BY Zenon
    <3>2. priv' = [priv EXCEPT !.sendingBody = yes]
      BY <2>7, <3>1 DEF EndHeaders
    <3>3. priv' \in Priv
      BY <2>0, <3>2 DEF Priv
    <3>4. CrlfLen \in Nat /\ accepted + 1 \in Nat
      BY <2>0 DEF CrlfLen
    <3>5. Put(priv, sendBuff, accepted + 1, CrlfLen) \in Buffer
      BY <2>0, <3>4, PutIsBuffer
    <3>6. sendBuff' \in Buffer /\ accepted' \in Nat
      BY <2>0, <2>7, <3>4, <3>5, Zenon DEF EndHeaders
    <3>7. UNCHANGED <<cgi, backlog, backlogSize, wire, received, pc>>
      BY <2>7 DEF EndHeaders
    <3> QED
      BY <3>3, <3>6, <3>7 DEF TypeOK
  <2>8. CASE ReturnMore
    <3>1. PICK r1, r : Returned(priv, cgi, priv, sendBuff, r1, r)
      BY <2>8, MoreReturns, Zenon
    <3>2. /\ pc' = "idle" /\ sendBuff' \in Buffer
          /\ backlog' \in Seq(Buffer) /\ backlogSize' \in Int
          /\ wire' \in Seq(Buffer) /\ received' \in Seq(Nat)
      BY <2>0, <3>1, TypedReturn, Zenon
    <3>3. priv' = priv /\ cgi' = cgi /\ accepted' = accepted
      BY <2>8, MoreReturns, Zenon
    <3> QED
      BY <2>0, <3>2, <3>3 DEF TypeOK
  <2>9. CASE ReturnDone
    <3>1. /\ priv' = DoneFlags(priv) /\ cgi' = FALSE /\ accepted' = accepted
          /\ \E p, r1, r : /\ p \in {priv, priv'} /\ (p = priv => priv.chunked \/ priv' = priv)
                           /\ ~priv.chunked => p = priv'
                           /\ Returned(p, FALSE, priv', sendBuff, r1, r)
      BY <2>9, DoneReturns, Zenon
    <3>2. priv' \in Priv
      BY <2>0, <3>1, DoneIsPriv
    <3>3. PICK p, r1, r : /\ p \in {priv, priv'} /\ (p = priv => priv.chunked \/ priv' = priv)
                          /\ ~priv.chunked => p = priv'
                          /\ Returned(p, FALSE, priv', sendBuff, r1, r)
      BY <3>1, Zenon
    <3>4. PICK no \in BOOLEAN : no = FALSE
      BY Zenon
    <3>5. p \in Priv /\ Returned(p, no, priv', sendBuff, r1, r)
      BY <2>0, <3>2, <3>3, <3>4
    <3>6. /\ pc' = "idle" /\ sendBuff' \in Buffer
          /\ backlog' \in Seq(Buffer) /\ backlogSize' \in Int
          /\ wire' \in Seq(Buffer) /\ received' \in Seq(Nat)
      BY <2>0, <3>2, <3>5, TypedReturn, Zenon
    <3> QED
      BY <2>0, <3>1, <3>2, <3>6 DEF TypeOK
  <2>10. CASE UNCHANGED vars
    BY <2>10 DEF vars, TypeOK
  <2> QED
    BY <2>1, <2>2, <2>3, <2>4, <2>5, <2>6, <2>7, <2>8, <2>9, <2>10 DEF Next
<1> QED
  BY <1>1, <1>2, PTL DEF Spec

-----------------------------------------------------------------------------
(* The count of the backlog.                                                *)

Counted(log, size) ==
  IsFiniteSet(BytesOf(log)) /\ size = Size(log) /\ size <= MaxBacklog

\* What a flush leaves behind is counted if what it found was.
LEMMA FlushCounts ==
  ASSUME NEW o \in Outcome, NEW b \in Buffer, NEW r, Becomes(b, o, r), Counted(o.log, o.size)
  PROVE  Counted(r.log, r.size)
<1>0. Fields(b, o, r)
  BY BecomesIs, Zenon
<1>1. \/ r.log = o.log /\ r.size = o.size
      \/ o.size + b.len <= MaxBacklog /\ r.log = Append(o.log, b) /\ r.size = o.size + b.len
  BY <1>0 DEF Fields
<1>2. CASE r.log = o.log /\ r.size = o.size
  BY <1>2
<1>3. CASE o.size + b.len <= MaxBacklog /\ r.log = Append(o.log, b) /\ r.size = o.size + b.len
  <2>1. o.log \in Seq(Buffer)
    BY DEF Outcome
  <2>2. IsFiniteSet(BytesOf(o.log)) /\ o.size = Size(o.log)
    BY DEF Counted
  <2>3. IsFiniteSet(BytesOf(Append(o.log, b))) /\ Size(Append(o.log, b)) = Size(o.log) + b.len
    BY <2>1, <2>2, SizeAppend, Zenon
  <2> QED
    BY <1>3, <2>2, <2>3, Zenon DEF Counted
<1> QED
  BY <1>1, <1>2, <1>3

LEMMA ReturnCounts ==
  ASSUME TypeOK, NEW p \in Priv, NEW c \in BOOLEAN, NEW q \in Priv, NEW b \in Buffer,
         NEW r1, NEW r, Returned(p, c, q, b, r1, r), Counted(backlog, backlogSize)
  PROVE  Counted(backlog', backlogSize')
<1>1. /\ NowWith(b) \in Outcome /\ r1 \in Outcome /\ r \in Outcome /\ Ends(r)
      /\ \E b1 \in Buffer : b1 = AddLast(p, c, CloseChunk(b)) /\ Becomes(b1, NowWith(b), r1)
      /\ \/ r = r1
         \/ \E b2 \in Buffer : b2 = AddLast(q, c, CloseChunk(r1.buff)) /\ Becomes(b2, r1, r)
  BY ReturnedIs
<1>2. Counted(NowWith(b).log, NowWith(b).size)
  BY DEF NowWith
<1>3. Counted(r1.log, r1.size)
  BY <1>1, <1>2, FlushCounts, Zenon
<1>4. Counted(r.log, r.size)
  BY <1>1, <1>3, FlushCounts, Zenon
<1> QED
  BY <1>1, <1>4 DEF Ends

\* sendBacklogSize is the number of bytes in the backlog and never more than the limit: no
\* refused packet and no item that was sent is forgotten in the count. (httpdFlushSendBuffer,
\* httpdContinue)
THEOREM BacklogIsCounted == Spec => []BacklogBounded
<1> DEFINE CountInv == Counted(backlog, backlogSize)
<1>1. Init => CountInv
  <2> SUFFICES ASSUME Init
               PROVE  CountInv
    OBVIOUS
  <2>1. backlog = <<>> /\ backlogSize = 0
    BY DEF Init
  <2>2. 0 <= MaxBacklog
    BY SendPathAssumption
  <2> QED
    BY <2>1, <2>2, SizeEmpty, Zenon DEF Counted
<1>2. TypeOK /\ TypeOK' /\ CountInv /\ [Next]_vars => CountInv'
  <2> SUFFICES ASSUME TypeOK, TypeOK', CountInv, [Next]_vars
               PROVE  CountInv'
    OBVIOUS
  <2>0. priv \in Priv /\ priv' \in Priv /\ cgi \in BOOLEAN /\ sendBuff \in Buffer /\ accepted \in Nat
    BY DEF TypeOK
  <2>1. CASE SentBacklog
    <3>1. PICK h \in Buffer : h = Head(backlog)
      BY <2>1, DrainTypes
    <3>2. PICK rest \in Seq(Buffer) : rest = backlog'
      BY <2>1, DrainTypes
    <3>3. IsFiniteSet(BytesOf(backlog)) /\ backlogSize = Size(backlog) /\ backlogSize <= MaxBacklog
      BY DEF Counted
    <3>4. backlog \in Seq(Buffer) /\ backlog # <<>> /\ backlog' = Tail(backlog)
          /\ backlogSize' = backlogSize - Head(backlog).len
      BY <2>1, DrainTypes
    <3>5. IsFiniteSet(BytesOf(Tail(backlog))) /\ Size(backlog) = Size(Tail(backlog)) + Head(backlog).len
      BY <3>3, <3>4, SizeTail, Zenon
    <3>6. IsFiniteSet(BytesOf(rest)) /\ Size(backlog) = Size(rest) + h.len
          /\ backlogSize' = Size(backlog) - h.len
      BY <3>1, <3>2, <3>3, <3>4, <3>5
    <3>7. Size(rest) \in Nat
      BY <3>6, FS_CardinalityType DEF Size
    <3>8. h.len \in Nat /\ MaxBacklog \in Nat
      BY SendPathAssumption DEF Buffer
    <3>9. PICK s \in Nat : s = Size(rest)
      BY <3>7
    <3>10. Size(backlog) = s + h.len /\ Size(backlog) <= MaxBacklog /\ backlogSize' = Size(backlog) - h.len
      BY <3>3, <3>6, <3>9
    <3>11. backlogSize' = s /\ s <= MaxBacklog
      BY <3>8, <3>10
    <3> QED
      BY <3>2, <3>6, <3>9, <3>11, Zenon DEF Counted
  <2>2. ASSUME NEW n \in Lens, AsyncSend(n) PROVE CountInv'
    <3>1. n \in Nat /\ accepted + 1 \in Nat
      BY <2>0, SendPathAssumption
    <3>2. PICK b : b = Put(priv, EmptyBuffer, accepted + 1, n)
      OBVIOUS
    <3>3. b \in Buffer
      BY <2>0, <3>1, <3>2, EmptyIsBuffer, PutIsBuffer
    <3>4. PICK r : Returned(priv, cgi, priv, b, r, r)
      BY <2>2, <3>2, AsyncReturns, Zenon
    <3> QED
      BY <2>0, <3>3, <3>4, ReturnCounts, Zenon
  <2>3. CASE ReturnMore
    <3>1. PICK r1, r : Returned(priv, cgi, priv, sendBuff, r1, r)
      BY <2>3, MoreReturns, Zenon
    <3> QED
      BY <2>0, <3>1, ReturnCounts, Zenon
  <2>4. CASE ReturnDone
    <3>1. PICK p, r1, r : /\ p \in {priv, priv'} /\ (p = priv => priv.chunked \/ priv' = priv)
                          /\ ~priv.chunked => p = priv'
                          /\ Returned(p, FALSE, priv', sendBuff, r1, r)
      BY <2>4, DoneReturns, Zenon
    <3>2. PICK no \in BOOLEAN : no = FALSE
      BY Zenon
    <3>3. p \in Priv /\ Returned(p, no, priv', sendBuff, r1, r)
      BY <2>0, <3>1, <3>2
    <3> QED
      BY <2>0, <3>3, ReturnCounts, Zenon
  <2>5. CASE UNCHANGED <<backlog, backlogSize>>
    BY <2>5
  <2> QED
    BY <2>1, <2>2, <2>3, <2>4, <2>5
      DEF Next, Request, SentClose, SentCgi, Send, EndHeaders, vars
<1>3. CountInv => BacklogBounded
  BY DEF Counted, BacklogBounded
<1> QED
  BY <1>1, <1>2, <1>3, SendTypes, PTL DEF Spec

-----------------------------------------------------------------------------
(* The framing.                                                             *)

\* A CGI that leaves room for CR LF and the last chunk, in a buffer whose length
\* the four digits of a chunk header can tell.
RoomForFraming ==
  /\ CrlfLen + LastChunkLen <= Spare /\ Spare <= MaxSendBuff
  /\ MaxSendBuff < FourHexDigits

Framed(b) ==
  b.len <= MaxSendBuff /\ b.chunkHdr = -1 /\ b.chunk.claimed = b.chunk.data /\ b.chunk.crlf

FramedPackets == {b \in Buffer : Framed(b)}

\* A buffer that httpdFlushSendBuffer can complete.
Ready(p, c, b) ==
  /\ b.len <= MaxSendBuff
  /\ IsLast(p, c) => b.len + LastChunkLen <= MaxSendBuff
  /\ b.chunkHdr = -1 => b.chunk = NoChunk
  /\ b.chunkHdr # -1 => /\ b.len + CrlfLen + LastChunkLen <= MaxSendBuff
                        /\ b.chunk.data = b.len - b.chunkHdr - ChunkHdrLen

LEMMA EmptyIsFramed == EmptyBuffer \in FramedPackets
<1>1. /\ EmptyBuffer.len = 0 /\ EmptyBuffer.chunkHdr = -1 /\ EmptyBuffer.chunk = NoChunk
      /\ NoChunk.claimed = 0 /\ NoChunk.data = 0 /\ NoChunk.crlf
  BY DEF EmptyBuffer, NoChunk
<1>2. 0 <= MaxSendBuff
  BY SendPathAssumption
<1> QED
  BY <1>1, <1>2, EmptyIsBuffer DEF FramedPackets, Framed

LEMMA ClosedIsFramed ==
  ASSUME RoomForFraming, NEW p \in Priv, NEW c \in BOOLEAN, NEW b \in Buffer, Ready(p, c, b),
         NEW u, u = AddLast(p, c, CloseChunk(b))
  PROVE  u \in FramedPackets /\ (u.len = 0 => u = b)
<1>1. PICK v : v = CloseChunk(b)
  OBVIOUS
<1>2. /\ v \in Buffer /\ v.chunkHdr = -1
      /\ b.chunkHdr = -1 => v = b
      /\ b.chunkHdr # -1 /\ b.len + CrlfLen <= MaxSendBuff =>
           /\ v.len = b.len + CrlfLen
           /\ v.chunk.claimed = (v.len - b.chunkHdr - 8) % FourHexDigits
           /\ v.chunk.data = b.chunk.data /\ v.chunk.crlf
  BY <1>1, CloseIs
<1>3. /\ u \in Buffer /\ u.chunkHdr = v.chunkHdr /\ u.chunk = v.chunk
      /\ IsLast(p, c) => u.len = v.len + LastChunkLen
      /\ ~IsLast(p, c) => u = v
  BY <1>1, <1>2, AddLastIs
<1>4. MaxSendBuff \in Nat /\ b.len \in Nat /\ v.len \in Nat /\ b.chunkHdr \in Nat \cup {-1}
  BY <1>2, SendPathAssumption DEF Buffer
<1>5. CASE b.chunkHdr = -1
  <2>1. v = b /\ b.chunk = NoChunk
    BY <1>2, <1>5 DEF Ready
  <2>2. NoChunk.claimed = NoChunk.data /\ NoChunk.crlf
    BY DEF NoChunk
  <2>3. u.chunkHdr = -1 /\ u.chunk.claimed = u.chunk.data /\ u.chunk.crlf
    BY <1>2, <1>3, <2>1, <2>2
  <2>4. u.len <= MaxSendBuff /\ (u.len = 0 => u = b)
    BY <1>3, <1>4, <2>1 DEF Ready, LastChunkLen
  <2> QED
    BY <1>3, <2>3, <2>4 DEF FramedPackets, Framed
<1>6. CASE b.chunkHdr # -1
  <2>1. PICK len \in Nat, hdr \in Nat, d \in Nat :
          len = b.len /\ hdr = b.chunkHdr /\ d = b.chunk.data
    <3>1. b.chunk.data \in Nat
      BY DEF Buffer, Chunk
    <3> QED
      BY <1>4, <1>6, <3>1
  <2>2. len + 7 <= MaxSendBuff /\ d = len - hdr - 6 /\ d \in Nat
    BY <1>6, <2>1 DEF Ready, CrlfLen, LastChunkLen, ChunkHdrLen
  <2>3. b.len + CrlfLen <= MaxSendBuff
    BY <1>4, <2>1, <2>2 DEF CrlfLen
  <2>4. /\ v.len = b.len + CrlfLen /\ v.chunk.data = d /\ v.chunk.crlf
        /\ v.chunk.claimed = (v.len - b.chunkHdr - 8) % FourHexDigits
    BY <1>2, <1>6, <2>1, <2>3
  <2>5. v.len = len + 2
    BY <2>1, <2>4 DEF CrlfLen
  <2>6. v.len - b.chunkHdr - 8 = d
    BY <2>1, <2>2, <2>5
  <2>7. v.chunk.claimed = d % FourHexDigits
    BY <2>4, <2>6, Zenon
  <2>8. d % FourHexDigits = d
    <3>1. d < FourHexDigits
      BY <1>4, <2>1, <2>2 DEF RoomForFraming, FourHexDigits
    <3> QED
      BY <2>2, <3>1 DEF FourHexDigits
  <2>9. u.chunkHdr = -1 /\ u.chunk.claimed = u.chunk.data /\ u.chunk.crlf
    BY <1>2, <1>3, <2>4, <2>7, <2>8
  <2>10. u.len = len + 2 \/ u.len = len + 7
    BY <1>3, <1>4, <2>1, <2>5 DEF LastChunkLen
  <2>11. u.len <= MaxSendBuff /\ u.len # 0
    BY <1>4, <2>2, <2>10
  <2> QED
    BY <1>3, <2>9, <2>11 DEF FramedPackets, Framed
<1> QED
  BY <1>5, <1>6

\* A second flush of what is framed adds nothing to it.
LEMMA FramedStays ==
  ASSUME NEW p \in Priv, NEW c \in BOOLEAN, ~IsLast(p, c), NEW b \in FramedPackets,
         NEW u, u = AddLast(p, c, CloseChunk(b))
  PROVE  u = b
<1>1. b \in Buffer /\ b.chunkHdr = -1
  BY DEF FramedPackets, Framed
<1>2. CloseChunk(b) = b
  BY <1>1 DEF CloseChunk
<1> QED
  BY <1>2 DEF AddLast, IsLast

LEMMA FlushFrames ==
  ASSUME NEW o \in Outcome, NEW b \in FramedPackets, NEW r, Becomes(b, o, r),
         o.log \in Seq(FramedPackets), o.wire \in Seq(FramedPackets)
  PROVE  /\ r.log \in Seq(FramedPackets) /\ r.wire \in Seq(FramedPackets)
         /\ r.buff \in {EmptyBuffer, b} \/ (r = o /\ b.len = 0)
<1>1. b \in Buffer
  BY DEF FramedPackets
<1>2. Fields(b, o, r)
  BY <1>1, BecomesIs, Zenon
<1>3. Append(o.log, b) \in Seq(FramedPackets) /\ Append(o.wire, b) \in Seq(FramedPackets)
  BY AppendIn, Zenon
<1>4. /\ r.log \in {o.log, Append(o.log, b)} /\ r.wire \in {o.wire, Append(o.wire, b)}
      /\ r.buff \in {EmptyBuffer, b} \/ (r = o /\ b.len = 0)
  BY <1>2 DEF Fields
<1> QED
  BY <1>3, <1>4

LEMMA ReturnFrames ==
  ASSUME RoomForFraming, TypeOK, NEW p \in Priv, NEW c \in BOOLEAN, NEW q \in Priv, NEW b \in Buffer,
         NEW r1, NEW r, Returned(p, c, q, b, r1, r), Ready(p, c, b), ~IsLast(q, c),
         backlog \in Seq(FramedPackets), wire \in Seq(FramedPackets)
  PROVE  /\ backlog' \in Seq(FramedPackets) /\ wire' \in Seq(FramedPackets)
         /\ pc' = "idle" /\ sendBuff' = EmptyBuffer
<1>1. /\ NowWith(b) \in Outcome /\ r1 \in Outcome /\ r \in Outcome /\ Ends(r)
      /\ \E b1 \in Buffer : b1 = AddLast(p, c, CloseChunk(b)) /\ Becomes(b1, NowWith(b), r1)
      /\ \/ r = r1
         \/ \E b2 \in Buffer : b2 = AddLast(q, c, CloseChunk(r1.buff)) /\ Becomes(b2, r1, r)
  BY ReturnedIs
<1>2. /\ NowWith(b).log \in Seq(FramedPackets) /\ NowWith(b).wire \in Seq(FramedPackets)
      /\ NowWith(b).buff = b
  BY DEF NowWith
<1>3. PICK b1 : b1 = AddLast(p, c, CloseChunk(b)) /\ Becomes(b1, NowWith(b), r1)
  BY <1>1
<1>4. b1 \in FramedPackets /\ (b1.len = 0 => b1 = b)
  BY <1>3, ClosedIsFramed, Zenon
<1>5. /\ r1.log \in Seq(FramedPackets) /\ r1.wire \in Seq(FramedPackets)
      /\ r1.buff \in {EmptyBuffer, b1} \/ (r1 = NowWith(b) /\ b1.len = 0)
  BY <1>1, <1>2, <1>3, <1>4, FlushFrames, Zenon
<1>6. r1.buff \in FramedPackets
  BY <1>2, <1>4, <1>5, EmptyIsFramed
<1>7. r.log \in Seq(FramedPackets) /\ r.wire \in Seq(FramedPackets)
  <2>1. CASE r = r1
    BY <1>5, <2>1
  <2>2. CASE \E b2 \in Buffer : b2 = AddLast(q, c, CloseChunk(r1.buff)) /\ Becomes(b2, r1, r)
    <3>1. PICK b2 \in Buffer : b2 = AddLast(q, c, CloseChunk(r1.buff)) /\ Becomes(b2, r1, r)
      BY <2>2
    <3>2. b2 = r1.buff
      <4>1. PICK z \in FramedPackets : z = r1.buff
        BY <1>6
      <4>2. b2 = AddLast(q, c, CloseChunk(z))
        BY <3>1, <4>1
      <4>3. b2 = z
        BY <4>2, FramedStays
      <4> QED
        BY <4>1, <4>3
    <3>3. b2 \in FramedPackets
      BY <1>6, <3>2
    <3> QED
      BY <1>1, <1>5, <3>1, <3>3, FlushFrames, Zenon
  <2> QED
    BY <1>1, <2>1, <2>2
<1> QED
  BY <1>1, <1>7 DEF Ends

\* What is in the send buffer of a CGI that leaves Spare bytes, and what was sent before.
\* The room for CR LF is kept before the body, where httpdEndHeaders needs it, and in a chunk.
FrameInv ==
  /\ InCgi => cgi
  /\ ~InCgi => sendBuff = EmptyBuffer
  /\ sendBuff.len + LastChunkLen <= MaxSendBuff
  /\ ~priv.sendingBody => sendBuff.len + CrlfLen + LastChunkLen <= MaxSendBuff
  /\ sendBuff.chunkHdr = -1 => sendBuff.chunk = NoChunk
  /\ sendBuff.chunkHdr # -1 =>
       /\ priv.sendingBody
       /\ sendBuff.len + CrlfLen + LastChunkLen <= MaxSendBuff
       /\ sendBuff.chunk.data = sendBuff.len - sendBuff.chunkHdr - ChunkHdrLen
  /\ backlog \in Seq(FramedPackets) /\ wire \in Seq(FramedPackets)

LEMMA EmptyFrames ==
  ASSUME RoomForFraming, sendBuff = EmptyBuffer, ~InCgi,
         backlog \in Seq(FramedPackets), wire \in Seq(FramedPackets)
  PROVE  FrameInv
<1>1. sendBuff.len = 0 /\ sendBuff.chunkHdr = -1 /\ sendBuff.chunk = NoChunk
  BY DEF EmptyBuffer
<1>2. 0 + CrlfLen + LastChunkLen <= MaxSendBuff /\ 0 + LastChunkLen <= MaxSendBuff
  BY SendPathAssumption DEF RoomForFraming, CrlfLen, LastChunkLen
<1> QED
  BY <1>1, <1>2 DEF FrameInv

LEMMA BufferIsReady ==
  ASSUME TypeOK, FrameInv, NEW p, NEW c
  PROVE  Ready(p, c, sendBuff)
<1>1. sendBuff.len \in Nat /\ MaxSendBuff \in Nat
  BY SendPathAssumption DEF TypeOK, Buffer
<1>2. sendBuff.len + LastChunkLen <= MaxSendBuff
  BY DEF FrameInv
<1>3. sendBuff.len <= MaxSendBuff
  BY <1>1, <1>2 DEF LastChunkLen
<1> QED
  BY <1>2, <1>3 DEF Ready, FrameInv

LEMMA SendFrames ==
  ASSUME RoomForFraming, TypeOK, FrameInv, NEW n \in Lens, Send(n)
  PROVE  FrameInv'
<1>1. /\ priv \in Priv /\ sendBuff \in Buffer /\ accepted + 1 \in Nat /\ n \in Nat
      /\ MaxSendBuff \in Nat /\ Spare \in Nat /\ sendBuff.len \in Nat
  BY SendPathAssumption DEF TypeOK, Buffer
<1>2. PICK u : u = Put(priv, sendBuff, accepted + 1, n) /\ sendBuff' = u
  BY DEF Send
<1>3. sendBuff.len + (n + Spare) + (IF OpensChunk(priv, sendBuff) THEN ChunkHdrLen ELSE 0) <= MaxSendBuff
  BY DEF Send, Fits
<1>4. /\ InCgi' /\ cgi' /\ priv' = priv
      /\ backlog' \in Seq(FramedPackets) /\ wire' \in Seq(FramedPackets)
  BY DEF Send, FrameInv, InCgi
<1>5. Spare >= 7
  BY <1>1 DEF RoomForFraming, CrlfLen, LastChunkLen
<1>6. CASE OpensChunk(priv, sendBuff)
  <2>1. /\ u.len = sendBuff.len + ChunkHdrLen + n /\ u.chunkHdr = sendBuff.len
        /\ u.chunk.data = sendBuff.chunk.data + n
    BY <1>1, <1>2, <1>6, PutOpens
  <2>2. priv.sendingBody /\ sendBuff.chunkHdr = -1
    BY <1>6 DEF OpensChunk
  <2>3. sendBuff.chunk.data = 0
    BY <2>2 DEF FrameInv, NoChunk
  <2>4. u.len + CrlfLen + LastChunkLen <= MaxSendBuff /\ u.len + LastChunkLen <= MaxSendBuff
    BY <1>1, <1>3, <1>5, <1>6, <2>1 DEF ChunkHdrLen, CrlfLen, LastChunkLen
  <2>5. u.chunk.data = u.len - u.chunkHdr - ChunkHdrLen /\ u.chunkHdr # -1
    BY <1>1, <2>1, <2>3 DEF ChunkHdrLen
  <2> QED
    BY <1>2, <1>4, <2>2, <2>4, <2>5 DEF FrameInv
<1>7. CASE ~OpensChunk(priv, sendBuff)
  <2>1. /\ u.len = sendBuff.len + n /\ u.chunkHdr = sendBuff.chunkHdr
        /\ sendBuff.chunkHdr = -1 => u.chunk = sendBuff.chunk
        /\ sendBuff.chunkHdr # -1 => u.chunk.data = sendBuff.chunk.data + n
    BY <1>1, <1>2, <1>7, PutAdds
  <2>2. u.len + CrlfLen + LastChunkLen <= MaxSendBuff /\ u.len + LastChunkLen <= MaxSendBuff
    BY <1>1, <1>3, <1>5, <1>7, <2>1 DEF CrlfLen, LastChunkLen
  <2>3. u.chunkHdr = -1 => u.chunk = NoChunk
    BY <2>1 DEF FrameInv
  <2>4. u.chunkHdr # -1 => priv.sendingBody /\ u.chunk.data = u.len - u.chunkHdr - ChunkHdrLen
    <3>1. sendBuff.chunkHdr \in Nat \cup {-1}
      BY <1>1 DEF Buffer
    <3>2. sendBuff.chunkHdr # -1 =>
            priv.sendingBody /\ sendBuff.chunk.data = sendBuff.len - sendBuff.chunkHdr - ChunkHdrLen
      BY DEF FrameInv
    <3> QED
      BY <1>1, <2>1, <3>1, <3>2 DEF ChunkHdrLen
  <2> QED
    BY <1>2, <1>4, <2>2, <2>3, <2>4 DEF FrameInv
<1> QED
  BY <1>6, <1>7

LEMMA HeadersFrame ==
  ASSUME RoomForFraming, TypeOK, FrameInv, EndHeaders
  PROVE  FrameInv'
<1>1. /\ priv \in Priv /\ sendBuff \in Buffer /\ accepted + 1 \in Nat /\ CrlfLen \in Nat
      /\ MaxSendBuff \in Nat /\ sendBuff.len \in Nat
  BY SendPathAssumption DEF TypeOK, Buffer, CrlfLen
<1>2. /\ InCgi' /\ cgi' /\ ~priv.sendingBody
      /\ backlog' \in Seq(FramedPackets) /\ wire' \in Seq(FramedPackets)
  BY DEF EndHeaders, FrameInv, InCgi
<1>3. priv'.sendingBody
  BY <1>1 DEF EndHeaders, Priv
<1>4. sendBuff.len + CrlfLen + LastChunkLen <= MaxSendBuff
      /\ sendBuff.chunkHdr = -1 /\ sendBuff.chunk = NoChunk
  BY <1>2 DEF FrameInv
<1>5. ~OpensChunk(priv, sendBuff)
  BY <1>2 DEF OpensChunk
<1>6. PICK u : u = Put(priv, sendBuff, accepted + 1, CrlfLen)
  OBVIOUS
<1>7. u.len = sendBuff.len + CrlfLen /\ u.chunkHdr = -1 /\ u.chunk = NoChunk
  <2>1. PICK piece \in Nat, n \in Nat, p \in Priv, b \in Buffer :
          piece = accepted + 1 /\ n = CrlfLen /\ p = priv /\ b = sendBuff
    BY <1>1
  <2>2. u = Put(p, b, piece, n) /\ ~OpensChunk(p, b)
    BY <1>5, <1>6, <2>1
  <2>3. /\ u \in Buffer
        /\ u.len = b.len + n /\ u.pieces = Append(b.pieces, piece)
        /\ u.chunkHdr = b.chunkHdr /\ u.last = b.last
        /\ b.chunkHdr = -1 => u.chunk = b.chunk
        /\ b.chunkHdr # -1 => u.chunk.data = b.chunk.data + n
    BY <2>2, PutAdds
  <2> QED
    BY <1>4, <2>1, <2>3
<1>8. sendBuff' \in {u, sendBuff}
  BY <1>6 DEF EndHeaders
<1>9. /\ sendBuff'.len + LastChunkLen <= MaxSendBuff
      /\ sendBuff'.chunkHdr = -1 /\ sendBuff'.chunk = NoChunk
  BY <1>1, <1>4, <1>7, <1>8 DEF CrlfLen, LastChunkLen
<1> QED
  BY <1>2, <1>3, <1>9 DEF FrameInv

LEMMA FramesHold == ASSUME RoomForFraming PROVE Spec => []FrameInv
<1>1. Init => FrameInv
  <2> SUFFICES ASSUME Init
               PROVE  FrameInv
    OBVIOUS
  <2>1. <<>> \in Seq(FramedPackets)
    BY EmptySeq, Zenon
  <2>2. ~InCgi /\ sendBuff = EmptyBuffer
    BY DEF Init, InCgi
  <2>3. backlog \in Seq(FramedPackets) /\ wire \in Seq(FramedPackets)
    BY <2>1, Zenon DEF Init
  <2> QED
    BY <2>2, <2>3, EmptyFrames, Zenon
<1>2. TypeOK /\ TypeOK' /\ FrameInv /\ [Next]_vars => FrameInv'
  <2> SUFFICES ASSUME TypeOK, TypeOK', FrameInv, [Next]_vars
               PROVE  FrameInv'
    OBVIOUS
  <2>0. /\ priv \in Priv /\ priv' \in Priv /\ cgi \in BOOLEAN /\ sendBuff \in Buffer /\ accepted \in Nat
        /\ backlog \in Seq(FramedPackets) /\ wire \in Seq(FramedPackets)
    BY DEF TypeOK, FrameInv
  <2>a. ASSUME pc' = "idle", sendBuff' = EmptyBuffer,
               backlog' \in Seq(FramedPackets), wire' \in Seq(FramedPackets)
        PROVE  FrameInv'
    <3>1. sendBuff'.len = 0 /\ sendBuff'.chunkHdr = -1 /\ sendBuff'.chunk = NoChunk
      BY <2>a DEF EmptyBuffer
    <3>2. 0 + CrlfLen + LastChunkLen <= MaxSendBuff /\ 0 + LastChunkLen <= MaxSendBuff
      BY SendPathAssumption DEF RoomForFraming, CrlfLen, LastChunkLen
    <3>3. ~InCgi'
      BY <2>a DEF InCgi
    <3> QED
      BY <2>a, <3>1, <3>2, <3>3 DEF FrameInv
  <2>1. ASSUME NEW chunked \in BOOLEAN, Request(chunked) PROVE FrameInv'
    <3>1. sendBuff = EmptyBuffer /\ sendBuff' = EmptyBuffer /\ cgi' /\ pc' = "recv"
      BY <2>1 DEF Request, FrameInv, InCgi
    <3>2. sendBuff'.len = 0 /\ sendBuff'.chunkHdr = -1 /\ sendBuff'.chunk = NoChunk
      BY <3>1 DEF EmptyBuffer
    <3>3. 0 + CrlfLen + LastChunkLen <= MaxSendBuff /\ 0 + LastChunkLen <= MaxSendBuff
      BY SendPathAssumption DEF RoomForFraming, CrlfLen, LastChunkLen
    <3>4. InCgi' /\ backlog' = backlog /\ wire' = wire
      BY <2>1, <3>1 DEF Request, InCgi
    <3> QED
      BY <2>0, <3>1, <3>2, <3>3, <3>4 DEF FrameInv
  <2>2. CASE SentBacklog
    <3>1. sendBuff' = EmptyBuffer /\ pc' = "idle"
      BY <2>2 DEF SentBacklog, FrameInv, InCgi
    <3>2. backlog # <<>> /\ backlog' = Tail(backlog)
          /\ wire' \in {wire, Append(wire, Head(backlog))}
      BY <2>2 DEF SentBacklog, Drained
    <3>3. Head(backlog) \in FramedPackets /\ Tail(backlog) \in Seq(FramedPackets)
      BY <2>0, <3>2, HeadTailProperties
    <3>4. Append(wire, Head(backlog)) \in Seq(FramedPackets)
      BY <2>0, <3>3, AppendIn, Zenon
    <3>5. backlog' \in Seq(FramedPackets) /\ wire' \in Seq(FramedPackets)
      BY <2>0, <3>2, <3>3, <3>4
    <3> QED
      BY <2>a, <3>1, <3>5
  <2>3. CASE SentClose
    <3>1. ~InCgi /\ ~InCgi'
      BY <2>3 DEF SentClose, InCgi
    <3> QED
      BY <2>3, <3>1 DEF SentClose, FrameInv
  <2>4. CASE SentCgi
    <3>1. ~InCgi /\ InCgi' /\ cgi'
      BY <2>4 DEF SentCgi, InCgi
    <3> QED
      BY <2>4, <3>1 DEF SentCgi, FrameInv
  <2>5. ASSUME NEW n \in Lens, Send(n) PROVE FrameInv'
    BY <2>5, SendFrames
  <2>6. ASSUME NEW n \in Lens, AsyncSend(n) PROVE FrameInv'
    <3>1. n \in Nat /\ accepted + 1 \in Nat
      BY <2>0, SendPathAssumption
    <3>2. PICK b : b = Put(priv, EmptyBuffer, accepted + 1, n)
      OBVIOUS
    <3>3. ~OpensChunk(priv, EmptyBuffer) /\ ~priv.chunked /\ Fits(priv, EmptyBuffer, n)
      BY <2>6, AsyncReturns, Zenon DEF OpensChunk
    <3>4. b \in Buffer /\ b.len = n /\ b.chunkHdr = -1 /\ b.chunk = NoChunk
      <4>1. EmptyBuffer.len = 0 /\ EmptyBuffer.chunkHdr = -1 /\ EmptyBuffer.chunk = NoChunk
        BY DEF EmptyBuffer
      <4>2. PICK piece \in Nat, m \in Nat, p \in Priv, e \in Buffer :
              piece = accepted + 1 /\ m = n /\ p = priv /\ e = EmptyBuffer
        BY <2>0, <3>1, EmptyIsBuffer
      <4>3. b = Put(p, e, piece, m) /\ ~OpensChunk(p, e)
        BY <3>2, <3>3, <4>2
      <4>4. /\ b \in Buffer
            /\ b.len = e.len + m /\ b.pieces = Append(e.pieces, piece)
            /\ b.chunkHdr = e.chunkHdr /\ b.last = e.last
            /\ e.chunkHdr = -1 => b.chunk = e.chunk
            /\ e.chunkHdr # -1 => b.chunk.data = e.chunk.data + m
        BY <4>3, PutAdds
      <4> QED
        BY <3>1, <4>1, <4>2, <4>4
    <3>5. n <= MaxSendBuff
      BY <3>1, <3>3, SendPathAssumption DEF Fits, EmptyBuffer
    <3>6. ~IsLast(priv, cgi)
      BY <3>3 DEF IsLast
    <3>7. Ready(priv, cgi, b)
      BY <3>4, <3>5, <3>6 DEF Ready
    <3>8. PICK r : Returned(priv, cgi, priv, b, r, r)
      BY <2>6, <3>2, AsyncReturns, Zenon
    <3>9. /\ backlog' \in Seq(FramedPackets) /\ wire' \in Seq(FramedPackets)
          /\ pc' = "idle" /\ sendBuff' = EmptyBuffer
      BY <2>0, <3>4, <3>6, <3>7, <3>8, ReturnFrames, Zenon
    <3> QED
      BY <2>a, <3>9
  <2>7. CASE EndHeaders
    BY <2>7, HeadersFrame
  <2>8. CASE ReturnMore
    <3>1. PICK r1, r : Returned(priv, cgi, priv, sendBuff, r1, r)
      BY <2>8, MoreReturns, Zenon
    <3>2. ~IsLast(priv, cgi)
      BY <2>8 DEF ReturnMore, FrameInv, IsLast
    <3>3. Ready(priv, cgi, sendBuff)
      BY BufferIsReady
    <3>4. /\ backlog' \in Seq(FramedPackets) /\ wire' \in Seq(FramedPackets)
          /\ pc' = "idle" /\ sendBuff' = EmptyBuffer
      BY <2>0, <3>1, <3>2, <3>3, ReturnFrames, Zenon
    <3> QED
      BY <2>a, <3>4
  <2>9. CASE ReturnDone
    <3>1. PICK p, r1, r : /\ p \in {priv, priv'} /\ (p = priv => priv.chunked \/ priv' = priv)
                          /\ ~priv.chunked => p = priv'
                          /\ Returned(p, FALSE, priv', sendBuff, r1, r)
      BY <2>9, DoneReturns, Zenon
    <3>2. PICK no \in BOOLEAN : no = FALSE
      BY Zenon
    <3>3. p \in Priv /\ Returned(p, no, priv', sendBuff, r1, r)
      BY <2>0, <3>1, <3>2
    <3>4. priv' = DoneFlags(priv)
      BY <2>9, DoneReturns, Zenon
    <3>5. ~IsLast(priv', no)
      BY <2>0, <3>4, DoneIsPriv DEF IsLast
    <3>6. Ready(p, no, sendBuff)
      BY BufferIsReady
    <3>7. /\ backlog' \in Seq(FramedPackets) /\ wire' \in Seq(FramedPackets)
          /\ pc' = "idle" /\ sendBuff' = EmptyBuffer
      BY <2>0, <3>3, <3>5, <3>6, ReturnFrames, Zenon
    <3> QED
      BY <2>a, <3>7
  <2>10. CASE UNCHANGED vars
    BY <2>10 DEF vars, FrameInv, InCgi
  <2> QED
    BY <2>1, <2>2, <2>3, <2>4, <2>5, <2>6, <2>7, <2>8, <2>9, <2>10 DEF Next
<1> QED
  BY <1>1, <1>2, SendTypes, PTL DEF Spec

\* Every packet fits the send buffer, and every chunk tells its length and ends in CR LF,
\* whatever the socket refuses, for a CGI that leaves room for the framing. (httpdSend,
\* httpdFlushSendBuffer)
THEOREM PacketsAreFramed == ASSUME RoomForFraming PROVE Spec => []WellFramed
<1>1. TypeOK /\ FrameInv => WellFramed
  <2> SUFFICES ASSUME TypeOK, FrameInv
               PROVE  WellFramed
    OBVIOUS
  <2>1. ASSUME NEW s \in Seq(FramedPackets), NEW p \in ToSet(s) PROVE p \in FramedPackets
    BY DEF ToSet
  <2>2. ASSUME NEW p \in Packets PROVE Framed(p)
    <3>1. p \in FramedPackets
      BY <2>1 DEF Packets, FrameInv
    <3> QED
      BY <3>1 DEF FramedPackets
  <2>3. sendBuff.len <= MaxSendBuff
    BY BufferIsReady DEF Ready
  <2> QED
    BY <2>2, <2>3 DEF WellFramed, BufferFits, ChunksWellFormed, Framed
<1> QED
  BY <1>1, FramesHold, SendTypes, PTL

-----------------------------------------------------------------------------
(* One callback at a time: what is received.                                *)

\* Nothing is sent between two sent callbacks, there is memory, the client waits
\* for the end of a response, and the socket refuses a packet at most once; the
\* backlog has room for one packet.
OneCallbackAtATime == Features = {} /\ MaxSendBuff <= MaxBacklog

\* The pieces that follow the first m.
Numbered(s, m) == \A k \in 1 .. Len(s) : s[k] = m + k

NoneLast(w) == \A k \in 1 .. Len(w) : ~w[k].last

LEMMA NumberedNone == ASSUME NEW m PROVE Numbered(<<>>, m)
BY DEF Numbered

LEMMA NumberedNext ==
  ASSUME NEW s \in Seq(Nat), NEW m \in Nat, Numbered(s, m), NEW x \in Nat, x = m + Len(s) + 1,
         NEW t, t = Append(s, x)
  PROVE  Numbered(t, m) /\ Len(t) = Len(s) + 1
<1>1. /\ Len(t) = Len(s) + 1 /\ \A k \in 1 .. Len(s) : t[k] = s[k]
      /\ t[Len(s) + 1] = x
  BY AppendProperties
<1>2. Len(s) \in Nat
  BY LenProperties
<1>3. ASSUME NEW k \in 1 .. Len(t) PROVE t[k] = m + k
  <2>1. CASE k = Len(s) + 1
    BY <1>1, <1>2, <2>1
  <2>2. CASE k # Len(s) + 1
    <3>1. k \in 1 .. Len(s)
      BY <1>1, <1>2, <2>2
    <3> QED
      BY <1>1, <3>1 DEF Numbered
  <2> QED
    BY <2>1, <2>2
<1> QED
  BY <1>1, <1>3 DEF Numbered

LEMMA NumberedJoined ==
  ASSUME NEW s \in Seq(Nat), NEW t \in Seq(Nat), Numbered(s, 0), Numbered(t, Len(s)),
         NEW u, u = s \o t
  PROVE  Numbered(u, 0) /\ Len(u) = Len(s) + Len(t)
<1>1. /\ Len(u) = Len(s) + Len(t)
      /\ \A i \in 1 .. Len(s) + Len(t) : u[i] = IF i <= Len(s) THEN s[i] ELSE t[i - Len(s)]
  BY Joined, Zenon
<1>2. Len(s) \in Nat /\ Len(t) \in Nat
  BY LenProperties
<1>3. ASSUME NEW k \in 1 .. Len(u) PROVE u[k] = 0 + k
  <2>1. CASE k <= Len(s)
    <3>1. k \in 1 .. Len(s) /\ u[k] = s[k]
      BY <1>1, <1>2, <2>1
    <3> QED
      BY <3>1 DEF Numbered
  <2>2. CASE ~(k <= Len(s))
    <3>1. PICK j \in 1 .. Len(t) : j = k - Len(s)
      BY <1>1, <1>2, <2>2
    <3>2. u[k] = t[j]
      BY <1>1, <2>2, <3>1
    <3>3. t[j] = Len(s) + j
      BY DEF Numbered
    <3> QED
      BY <1>2, <3>1, <3>2, <3>3
  <2> QED
    BY <2>1, <2>2
<1> QED
  BY <1>1, <1>3 DEF Numbered

LEMMA LastAppended ==
  ASSUME NEW w \in Seq(Buffer), NEW b \in Buffer, NoneLast(w), NEW v, v = Append(w, b)
  PROVE  \A k \in DOMAIN v : v[k].last => k = Len(v) /\ b.last
<1>1. /\ v \in Seq(Buffer) /\ Len(v) = Len(w) + 1 /\ \A k \in 1 .. Len(w) : v[k] = w[k]
      /\ v[Len(w) + 1] = b
  BY AppendProperties
<1>2. Len(w) \in Nat /\ DOMAIN v = 1 .. Len(v)
  BY <1>1, LenProperties
<1> SUFFICES ASSUME NEW k \in 1 .. Len(v), v[k].last
             PROVE  k = Len(v) /\ b.last
  BY <1>2
<1>3. ~(k \in 1 .. Len(w))
  BY <1>1 DEF NoneLast
<1>4. k = Len(w) + 1
  BY <1>1, <1>2, <1>3
<1> QED
  BY <1>1, <1>4

OrderInv ==
  /\ Numbered(received, 0)
  /\ sendBuff.len = 0 => sendBuff.pieces = <<>>
  /\ backlog = <<>> => /\ backlogSize = 0
                       /\ Numbered(sendBuff.pieces, Len(received))
                       /\ Len(received) + Len(sendBuff.pieces) = accepted
  /\ backlog # <<>> => /\ ~InCgi
                       /\ Len(backlog) = 1 /\ backlogSize = backlog[1].len
                       /\ Numbered(backlog[1].pieces, Len(received))
                       /\ Len(received) + Len(backlog[1].pieces) = accepted
  /\ pc = "closed" => backlog = <<>>

LastInv ==
  /\ ~sendBuff.last
  /\ cgi => ~priv.head /\ ~priv.disconAfterSent
  /\ priv.head /\ ~priv.disconAfterSent => backlog = <<>> /\ wire = <<>>
  /\ backlog # <<>> => NoneLast(wire) /\ (backlog[1].last => ~cgi)
  /\ LastChunkEnds

\* While the CGI runs, nothing waits and no last chunk was sent.
LEMMA CgiFindsNothing ==
  ASSUME TypeOK, FrameInv, OrderInv, LastInv, InCgi
  PROVE  cgi /\ backlog = <<>> /\ backlogSize = 0 /\ NoneLast(wire)
<1>1. cgi /\ backlog = <<>> /\ backlogSize = 0
  BY DEF FrameInv, OrderInv
<1>2. DOMAIN wire = 1 .. Len(wire)
  BY LenProperties DEF TypeOK
<1> QED
  BY <1>1, <1>2 DEF LastInv, LastChunkEnds, NoneLast

\* What one callback does: its packet is empty, or the socket takes it, or it is
\* the one packet that waits.
Sends(b) ==
  /\ pc' = "idle" /\ sendBuff' = EmptyBuffer
  /\ \/ b.len = 0 /\ UNCHANGED <<backlog, backlogSize, wire, received>>
     \/ /\ wire' = Append(wire, b) /\ received' = received \o b.pieces
        /\ UNCHANGED <<backlog, backlogSize>>
     \/ /\ backlog' = Append(backlog, b) /\ backlogSize' = backlogSize + b.len
        /\ UNCHANGED <<wire, received>>

SentOrQueued(b, o, r) ==
  \/ b.len = 0 /\ r = o
  \/ /\ r.buff = EmptyBuffer /\ r.log = o.log /\ r.size = o.size
     /\ r.wire = Append(o.wire, b) /\ r.received = o.received \o b.pieces
  \/ /\ r.buff = EmptyBuffer /\ r.log = Append(o.log, b) /\ r.size = o.size + b.len
     /\ r.wire = o.wire /\ r.received = o.received

LEMMA OneFlushSends ==
  ASSUME OneCallbackAtATime, NEW o \in Outcome, NEW b \in FramedPackets, NEW r, Becomes(b, o, r),
         o.size = 0
  PROVE  SentOrQueued(b, o, r)
<1>1. b \in Buffer /\ b.len <= MaxSendBuff
  BY DEF FramedPackets, Framed
<1>2. Fields(b, o, r)
  BY <1>1, BecomesIs, Zenon
<1>3. "malloc" \notin Features /\ MaxSendBuff <= MaxBacklog
  BY DEF OneCallbackAtATime
<1>4. b.len \in Nat /\ MaxSendBuff \in Nat /\ MaxBacklog \in Nat
  BY <1>1, SendPathAssumption DEF Buffer
<1>5. ~(o.size + b.len > MaxBacklog)
  BY <1>1, <1>3, <1>4
<1> QED
  BY <1>2, <1>3, <1>5 DEF Fields, SentOrQueued

LEMMA ReturnSends ==
  ASSUME RoomForFraming, OneCallbackAtATime, TypeOK, FrameInv, OrderInv, LastInv, InCgi,
         NEW p \in Priv, NEW c \in BOOLEAN, NEW q \in Priv,
         NEW r1, NEW r, Returned(p, c, q, sendBuff, r1, r), ~IsLast(q, c)
  PROVE  \E b \in FramedPackets :
           /\ b \in Buffer /\ b.pieces = sendBuff.pieces
           /\ b.last => ~c
           /\ b.len = 0 => b = sendBuff
           /\ Sends(b)
<1>1. sendBuff \in Buffer /\ Ready(p, c, sendBuff)
  BY BufferIsReady DEF TypeOK
<1>2. /\ NowWith(sendBuff) \in Outcome /\ r1 \in Outcome /\ r \in Outcome /\ Ends(r)
      /\ \E b1 \in Buffer : b1 = AddLast(p, c, CloseChunk(sendBuff)) /\ Becomes(b1, NowWith(sendBuff), r1)
      /\ \/ r = r1
         \/ \E b2 \in Buffer : b2 = AddLast(q, c, CloseChunk(r1.buff)) /\ Becomes(b2, r1, r)
  BY <1>1, ReturnedIs
<1>3. PICK o \in Outcome : o = NowWith(sendBuff)
  BY <1>2
<1>4. /\ o.buff = sendBuff /\ o.log = backlog /\ o.size = backlogSize
      /\ o.wire = wire /\ o.received = received
  BY <1>3 DEF NowWith
<1>5. PICK b \in Buffer : b = AddLast(p, c, CloseChunk(sendBuff)) /\ Becomes(b, o, r1)
  BY <1>2, <1>3
<1>6. b \in FramedPackets /\ (b.len = 0 => b = sendBuff)
  BY <1>1, <1>5, ClosedIsFramed, Zenon
<1>7. o.size = 0
  BY <1>4, CgiFindsNothing
<1>8. SentOrQueued(b, o, r1)
  BY <1>5, <1>6, <1>7, OneFlushSends, Zenon
<1>9. r1.buff \in FramedPackets /\ r1.buff.len = 0
  <2>1. EmptyBuffer.len = 0
    BY DEF EmptyBuffer
  <2>2. r1.buff = EmptyBuffer \/ (b.len = 0 /\ r1.buff = b)
    BY <1>4, <1>6, <1>8 DEF SentOrQueued
  <2> QED
    BY <1>6, <2>1, <2>2, EmptyIsFramed
<1>10. r = r1
  <2>1. ASSUME NEW b2 \in Buffer, b2 = AddLast(q, c, CloseChunk(r1.buff)), Becomes(b2, r1, r)
        PROVE  r = r1
    <3>1. PICK z \in FramedPackets : z = r1.buff
      BY <1>9
    <3>2. b2 = AddLast(q, c, CloseChunk(z))
      BY <2>1, <3>1
    <3>3. b2 = z
      BY <3>2, FramedStays
    <3> QED
      BY <1>9, <2>1, <3>1, <3>3 DEF Becomes
  <2> QED
    BY <1>2, <2>1
<1>11. b.pieces = sendBuff.pieces /\ (b.last => ~c)
  <2>1. PICK v : v = CloseChunk(sendBuff)
    OBVIOUS
  <2>2. v \in Buffer /\ v.pieces = sendBuff.pieces /\ v.last = sendBuff.last
    BY <1>1, <2>1, CloseIs
  <2>3. b = AddLast(p, c, v)
    BY <1>5, <2>1
  <2>4. b.pieces = v.pieces /\ (~IsLast(p, c) => b = v)
    BY <2>2, <2>3, AddLastIs
  <2>5. ~sendBuff.last
    BY DEF LastInv
  <2> QED
    BY <2>2, <2>4, <2>5 DEF IsLast
<1>12. Sends(b)
  BY <1>2, <1>4, <1>8, <1>10 DEF SentOrQueued, Sends, Ends
<1> QED
  BY <1>6, <1>11, <1>12

\* The flags follow the callback, and nothing of the order is lost.
LEMMA ReturnKeepsOrder ==
  ASSUME TypeOK, FrameInv, OrderInv, LastInv, InCgi, NEW b \in Buffer,
         b.pieces = sendBuff.pieces, b.last => ~cgi', b.len = 0 => b = sendBuff, Sends(b),
         accepted' = accepted, cgi' => cgi /\ priv' = priv, priv'.disconAfterSent \/ cgi'
  PROVE  OrderInv' /\ LastInv'
<1>1. cgi /\ backlog = <<>> /\ backlogSize = 0 /\ NoneLast(wire)
  BY CgiFindsNothing
<1>2. /\ received \in Seq(Nat) /\ b.pieces \in Seq(Nat) /\ wire \in Seq(Buffer)
      /\ Len(received) \in Nat /\ Len(b.pieces) \in Nat /\ b.len \in Nat /\ accepted \in Nat
  <2>1. received \in Seq(Nat) /\ b.pieces \in Seq(Nat) /\ wire \in Seq(Buffer)
        /\ b.len \in Nat /\ accepted \in Nat
    BY DEF TypeOK, Buffer
  <2> QED
    BY <2>1, LenProperties
<1>3. /\ Numbered(received, 0) /\ Numbered(b.pieces, Len(received))
      /\ Len(received) + Len(b.pieces) = accepted
  BY <1>1 DEF OrderInv
<1>4. /\ pc' = "idle" /\ ~InCgi' /\ sendBuff'.len = 0 /\ sendBuff'.pieces = <<>> /\ ~sendBuff'.last
  BY DEF Sends, InCgi, EmptyBuffer
<1>5. DOMAIN wire = 1 .. Len(wire)
  BY <1>2, LenProperties
<1>6. cgi' => ~priv'.head /\ ~priv'.disconAfterSent
  BY DEF LastInv
<1>7. ~(priv'.head /\ ~priv'.disconAfterSent)
  BY <1>6
<1>8. CASE b.len = 0 /\ UNCHANGED <<backlog, backlogSize, wire, received>>
  <2>1. b.pieces = <<>>
    BY <1>8 DEF OrderInv
  <2>2. Len(received) + Len(sendBuff'.pieces) = accepted' /\ Numbered(sendBuff'.pieces, Len(received))
    BY <1>3, <1>4, <2>1, NumberedNone
  <2>3. OrderInv'
    BY <1>1, <1>3, <1>4, <1>8, <2>2 DEF OrderInv
  <2>4. LastChunkEnds'
    BY <1>1, <1>5, <1>8 DEF LastChunkEnds, NoneLast
  <2>5. LastInv'
    BY <1>1, <1>4, <1>6, <1>7, <1>8, <2>4 DEF LastInv
  <2> QED
    BY <2>3, <2>5
<1>9. CASE /\ wire' = Append(wire, b) /\ received' = received \o b.pieces
           /\ UNCHANGED <<backlog, backlogSize>>
  <2>1. Numbered(received', 0) /\ Len(received') = Len(received) + Len(b.pieces)
    BY <1>2, <1>3, <1>9, NumberedJoined
  <2>2. Len(received') + 0 = accepted'
    BY <1>2, <1>3, <2>1
  <2>3. /\ Len(received') + Len(sendBuff'.pieces) = accepted'
        /\ Numbered(sendBuff'.pieces, Len(received'))
    BY <1>4, <2>2, NumberedNone
  <2>4. OrderInv'
    BY <1>1, <1>4, <1>9, <2>1, <2>3 DEF OrderInv
  <2>5. \A k \in DOMAIN wire' : wire'[k].last => k = Len(wire') /\ b.last
    BY <1>1, <1>2, <1>9, LastAppended
  <2>6. LastChunkEnds'
    BY <1>1, <1>9, <2>5 DEF LastChunkEnds
  <2>7. LastInv'
    BY <1>1, <1>4, <1>6, <1>7, <1>9, <2>6 DEF LastInv
  <2> QED
    BY <2>4, <2>7
<1>10. CASE /\ backlog' = Append(backlog, b) /\ backlogSize' = backlogSize + b.len
            /\ UNCHANGED <<wire, received>>
  <2>1. backlog' = <<b>> /\ Len(backlog') = 1 /\ backlog'[1] = b /\ backlog' # <<>>
    BY <1>1, <1>10
  <2>2. backlogSize' = b.len
    BY <1>1, <1>2, <1>10
  <2>3. OrderInv'
    BY <1>3, <1>4, <1>10, <2>1, <2>2 DEF OrderInv
  <2>4. NoneLast(wire') /\ (backlog'[1].last => ~cgi')
    BY <1>1, <1>10, <2>1
  <2>5. LastChunkEnds'
    BY <1>1, <1>5, <1>10 DEF LastChunkEnds, NoneLast
  <2>6. LastInv'
    BY <1>4, <1>6, <1>7, <2>1, <2>4, <2>5 DEF LastInv
  <2> QED
    BY <2>3, <2>6
<1> QED
  BY <1>8, <1>9, <1>10 DEF Sends

LEMMA DrainKeepsOrder ==
  ASSUME OneCallbackAtATime, TypeOK, FrameInv, OrderInv, LastInv, SentBacklog
  PROVE  OrderInv' /\ LastInv'
<1>1. PICK b \in Buffer : b = backlog[1]
  BY DrainTypes, HeadTailProperties
<1>2. /\ Len(backlog) = 1 /\ backlogSize = b.len /\ Head(backlog) = b /\ Tail(backlog) = <<>>
      /\ Numbered(b.pieces, Len(received)) /\ Len(received) + Len(b.pieces) = accepted
      /\ NoneLast(wire) /\ (b.last => ~cgi)
  <2>1. backlog \in Seq(Buffer) /\ backlog # <<>>
    BY DrainTypes
  <2>2. Len(backlog) = 1 /\ backlogSize = b.len
        /\ Numbered(b.pieces, Len(received)) /\ Len(received) + Len(b.pieces) = accepted
    BY <1>1, <2>1 DEF OrderInv
  <2>3. Head(backlog) = b /\ Tail(backlog) \in Seq(Buffer) /\ Len(Tail(backlog)) = 0
    BY <1>1, <2>1, <2>2, HeadTailProperties
  <2>4. Tail(backlog) = <<>>
    BY <2>3, EmptySeq
  <2> QED
    BY <1>1, <2>1, <2>2, <2>3, <2>4 DEF LastInv
<1>3. /\ backlog' = <<>> /\ backlogSize' = b.len - b.len
      /\ wire' = Append(wire, b) /\ received' = received \o b.pieces
      /\ UNCHANGED <<priv, cgi, sendBuff, pc, accepted>>
  BY <1>2 DEF SentBacklog, Drained, OneCallbackAtATime
<1>4. /\ received \in Seq(Nat) /\ b.pieces \in Seq(Nat) /\ wire \in Seq(Buffer)
      /\ Len(received) \in Nat /\ Len(b.pieces) \in Nat /\ b.len \in Nat /\ accepted \in Nat
  <2>1. received \in Seq(Nat) /\ b.pieces \in Seq(Nat) /\ wire \in Seq(Buffer)
        /\ b.len \in Nat /\ accepted \in Nat
    BY DEF TypeOK, Buffer
  <2> QED
    BY <2>1, LenProperties
<1>5. backlogSize' = 0
  BY <1>3, <1>4
<1>6. Numbered(received', 0) /\ Len(received') = Len(received) + Len(b.pieces)
  BY <1>2, <1>3, <1>4, NumberedJoined DEF OrderInv
<1>7. ~InCgi /\ ~InCgi' /\ pc' = "idle"
  BY <1>3 DEF SentBacklog, InCgi
<1>8. sendBuff' = EmptyBuffer /\ sendBuff'.len = 0 /\ sendBuff'.pieces = <<>> /\ ~sendBuff'.last
  BY <1>3, <1>7 DEF FrameInv, EmptyBuffer
<1>9. Len(received') + 0 = accepted'
  BY <1>2, <1>3, <1>4, <1>6
<1>10. /\ Len(received') + Len(sendBuff'.pieces) = accepted'
       /\ Numbered(sendBuff'.pieces, Len(received'))
  BY <1>8, <1>9, NumberedNone
<1>11. OrderInv'
  BY <1>3, <1>5, <1>6, <1>7, <1>8, <1>10 DEF OrderInv
<1>12. \A k \in DOMAIN wire' : wire'[k].last => k = Len(wire') /\ b.last
  BY <1>2, <1>3, <1>4, LastAppended
<1>13. LastChunkEnds'
  BY <1>2, <1>3, <1>12 DEF LastChunkEnds
<1>14. backlog # <<>>
  BY DEF SentBacklog
<1>15. LastInv'
  BY <1>3, <1>8, <1>13, <1>14 DEF LastInv
<1> QED
  BY <1>11, <1>15

LEMMA PutHas ==
  ASSUME NEW p \in Priv, NEW b \in Buffer, NEW piece \in Nat, NEW n \in Nat,
         NEW u, u = Put(p, b, piece, n)
  PROVE  u.pieces = Append(b.pieces, piece) /\ u.last = b.last /\ u.len >= b.len + n
<1>1. b.len \in Nat
  BY DEF Buffer
<1>2. CASE OpensChunk(p, b)
  <2>1. u.len = b.len + ChunkHdrLen + n /\ u.pieces = Append(b.pieces, piece) /\ u.last = b.last
    BY <1>2, PutOpens
  <2> QED
    BY <1>1, <2>1 DEF ChunkHdrLen
<1>3. CASE ~OpensChunk(p, b)
  <2>1. u.len = b.len + n /\ u.pieces = Append(b.pieces, piece) /\ u.last = b.last
    BY <1>3, PutAdds
  <2> QED
    BY <1>1, <2>1
<1> QED
  BY <1>2, <1>3

\* One more piece in the send buffer.
LEMMA PutKeepsOrder ==
  ASSUME TypeOK, FrameInv, OrderInv, LastInv, InCgi, NEW n \in Nat \ {0},
         sendBuff' = Put(priv, sendBuff, accepted + 1, n), accepted' = accepted + 1,
         priv'.head = priv.head, priv'.disconAfterSent = priv.disconAfterSent,
         UNCHANGED <<cgi, backlog, backlogSize, wire, received, pc>>
  PROVE  OrderInv' /\ LastInv'
<1>1. cgi /\ backlog = <<>> /\ backlogSize = 0 /\ NoneLast(wire)
  BY CgiFindsNothing
<1>2. PICK piece \in Nat, m \in Nat, p \in Priv, b \in Buffer :
        piece = accepted + 1 /\ m = n /\ p = priv /\ b = sendBuff
  BY DEF TypeOK
<1>3. PICK u : u = sendBuff' /\ u = Put(p, b, piece, m)
  BY <1>2
<1>4. u.pieces = Append(b.pieces, piece) /\ u.last = b.last /\ u.len >= b.len + m
  BY <1>3, PutHas, Zenon
<1>5. b.len \in Nat /\ b.pieces \in Seq(Nat) /\ Len(received) \in Nat /\ Len(b.pieces) \in Nat
      /\ accepted \in Nat
  <2>1. b.len \in Nat /\ b.pieces \in Seq(Nat) /\ received \in Seq(Nat) /\ accepted \in Nat
    BY DEF TypeOK, Buffer
  <2> QED
    BY <2>1, LenProperties
<1>6. u.len # 0
  BY <1>2, <1>4, <1>5
<1>7. Numbered(b.pieces, Len(received)) /\ Len(received) + Len(b.pieces) = accepted
  BY <1>1, <1>2 DEF OrderInv
<1>8. piece = Len(received) + Len(b.pieces) + 1
  BY <1>2, <1>7
<1>9. Numbered(u.pieces, Len(received)) /\ Len(u.pieces) = Len(b.pieces) + 1
  <2>1. PICK got \in Nat, ps \in Seq(Nat) : got = Len(received) /\ ps = b.pieces
    BY <1>5
  <2>2. PICK ps2 : ps2 = u.pieces /\ ps2 = Append(ps, piece)
    BY <1>4, <2>1
  <2>3. Numbered(ps, got) /\ piece = got + Len(ps) + 1
    BY <1>7, <1>8, <2>1
  <2>4. Numbered(ps2, got) /\ Len(ps2) = Len(ps) + 1
    <3>1. ps2 = Append(ps, piece)
      BY <2>2
    <3>2. piece = got + Len(ps) + 1
      BY <2>3
    <3>3. Numbered(ps, got)
      BY <2>3
    <3> QED
      BY <3>1, <3>2, <3>3, NumberedNext
  <2> QED
    BY <2>1, <2>2, <2>4
<1>10. Len(received) + Len(u.pieces) = accepted'
  <2>1. PICK got \in Nat, old \in Nat, all \in Nat :
          got = Len(received) /\ old = Len(b.pieces) /\ all = accepted
    BY <1>5
  <2>2. got + old = all
    BY <1>7, <2>1
  <2>3. got + (old + 1) = all + 1
    BY <2>2
  <2>4. Len(u.pieces) = old + 1
    BY <1>9, <2>1
  <2>5. accepted' = all + 1
    BY <2>1
  <2> QED
    BY <2>1, <2>3, <2>4, <2>5, Zenon
<1>11. pc' = pc /\ pc # "closed"
  BY DEF InCgi
<1>12. OrderInv'
  BY <1>1, <1>3, <1>6, <1>9, <1>10, <1>11 DEF OrderInv
<1>13. LastInv'
  BY <1>1, <1>2, <1>3, <1>4 DEF LastInv, LastChunkEnds
<1> QED
  BY <1>12, <1>13

LEMMA OrderStarts == Init => OrderInv /\ LastInv
<1>1. HAVE Init
<1>2. /\ received = <<>> /\ backlog = <<>> /\ wire = <<>> /\ backlogSize = 0 /\ accepted = 0
      /\ sendBuff.len = 0 /\ sendBuff.pieces = <<>> /\ ~sendBuff.last /\ ~cgi /\ pc = "idle"
  BY <1>1 DEF Init, EmptyBuffer
<1>3. Len(received) = 0 /\ Len(sendBuff.pieces) = 0
  BY <1>2
<1>4. Numbered(received, 0) /\ Numbered(sendBuff.pieces, Len(received))
  BY <1>2, NumberedNone
<1>5. LastChunkEnds
  BY <1>2 DEF LastChunkEnds
<1> QED
  BY <1>2, <1>3, <1>4, <1>5 DEF OrderInv, LastInv

\* One step keeps the order.
LEMMA OrderStep ==
  ASSUME RoomForFraming, OneCallbackAtATime, TypeOK, TypeOK', FrameInv, OrderInv, LastInv,
         [Next]_vars
  PROVE  OrderInv' /\ LastInv'
<1>0. priv \in Priv /\ priv' \in Priv /\ cgi \in BOOLEAN /\ sendBuff \in Buffer /\ accepted \in Nat
  BY DEF TypeOK
<1>1. ASSUME NEW chunked \in BOOLEAN, Request(chunked) PROVE OrderInv' /\ LastInv'
  <2>1. priv.head /\ ~priv.disconAfterSent
    BY <1>1 DEF Request, OneCallbackAtATime
  <2>2. backlog = <<>> /\ wire = <<>>
    BY <2>1 DEF LastInv
  <2>3. ~priv'.head /\ ~priv'.disconAfterSent
    BY <1>0, <1>1, <2>1 DEF Request, Priv
  <2>4. pc' # "closed" /\ UNCHANGED <<sendBuff, backlog, backlogSize, wire, received, accepted>>
    BY <1>1 DEF Request
  <2>5. OrderInv'
    BY <2>2, <2>4 DEF OrderInv
  <2>6. LastInv'
    BY <2>2, <2>3, <2>4 DEF LastInv, LastChunkEnds
  <2> QED
    BY <2>5, <2>6
<1>2. CASE SentBacklog
  BY <1>2, DrainKeepsOrder
<1>3. CASE SentClose
  <2>1. backlog = <<>> /\ UNCHANGED <<priv, cgi, sendBuff, backlog, backlogSize, wire, received, accepted>>
    BY <1>3 DEF SentClose, AllSentAndDone
  <2> QED
    BY <2>1 DEF OrderInv, LastInv, LastChunkEnds
<1>4. CASE SentCgi
  <2>1. /\ backlog = <<>> /\ pc' # "closed"
        /\ UNCHANGED <<priv, cgi, sendBuff, backlog, backlogSize, wire, received, accepted>>
    BY <1>4 DEF SentCgi
  <2> QED
    BY <2>1 DEF OrderInv, LastInv, LastChunkEnds
<1>5. ASSUME NEW n \in Lens, Send(n) PROVE OrderInv' /\ LastInv'
  <2>1. n \in Nat \ {0}
    BY SendPathAssumption
  <2> QED
    BY <1>5, <2>1, PutKeepsOrder, Zenon DEF Send
<1>6. ASSUME NEW n \in Lens, AsyncSend(n) PROVE OrderInv' /\ LastInv'
  BY <1>6 DEF AsyncSend, OneCallbackAtATime
<1>7. CASE EndHeaders
  <2>1. CrlfLen \in Nat \ {0}
    BY DEF CrlfLen
  <2>2. /\ priv'.head = priv.head /\ priv'.disconAfterSent = priv.disconAfterSent
        /\ InCgi /\ UNCHANGED <<cgi, backlog, backlogSize, wire, received, pc>>
    BY <1>0, <1>7 DEF EndHeaders, Priv
  <2>3. \/ sendBuff' = Put(priv, sendBuff, accepted + 1, CrlfLen) /\ accepted' = accepted + 1
        \/ UNCHANGED <<sendBuff, accepted>>
    BY <1>7 DEF EndHeaders
  <2>4. CASE sendBuff' = Put(priv, sendBuff, accepted + 1, CrlfLen) /\ accepted' = accepted + 1
    BY <2>1, <2>2, <2>4, PutKeepsOrder, Zenon
  <2>5. CASE UNCHANGED <<sendBuff, accepted>>
    <3>1. OrderInv'
      BY <2>2, <2>5 DEF OrderInv, InCgi
    <3>2. LastInv'
      BY <2>2, <2>5 DEF LastInv, LastChunkEnds
    <3> QED
      BY <3>1, <3>2
  <2> QED
    BY <2>3, <2>4, <2>5
<1>8. CASE ReturnMore
  <2>1. PICK r1, r : Returned(priv, cgi, priv, sendBuff, r1, r)
    BY <1>8, MoreReturns, Zenon
  <2>2. InCgi /\ priv' = priv /\ cgi' = cgi /\ accepted' = accepted
    BY <1>8, MoreReturns, Zenon
  <2>3. cgi /\ ~IsLast(priv, cgi)
    BY <2>2 DEF FrameInv, IsLast
  <2>4. PICK b \in FramedPackets :
          /\ b \in Buffer /\ b.pieces = sendBuff.pieces
          /\ b.last => ~cgi
          /\ b.len = 0 => b = sendBuff
          /\ Sends(b)
    BY <1>0, <2>1, <2>2, <2>3, ReturnSends, Zenon
  <2>5. (b.last => ~cgi') /\ (cgi' => cgi /\ priv' = priv) /\ (priv'.disconAfterSent \/ cgi')
    BY <2>2, <2>3, <2>4
  <2> QED
    BY <2>2, <2>4, <2>5, ReturnKeepsOrder, Zenon
<1>9. CASE ReturnDone
  <2>1. PICK p, r1, r : /\ p \in {priv, priv'} /\ (p = priv => priv.chunked \/ priv' = priv)
                        /\ ~priv.chunked => p = priv'
                        /\ Returned(p, FALSE, priv', sendBuff, r1, r)
    BY <1>9, DoneReturns, Zenon
  <2>2. PICK no \in BOOLEAN : no = FALSE
    BY Zenon
  <2>3. p \in Priv /\ Returned(p, no, priv', sendBuff, r1, r)
    BY <1>0, <2>1, <2>2
  <2>4. InCgi /\ priv' = DoneFlags(priv) /\ cgi' = FALSE /\ accepted' = accepted
    BY <1>9, DoneReturns, Zenon
  <2>5. ~IsLast(priv', no) /\ priv'.disconAfterSent
    BY <1>0, <2>4, DoneIsPriv DEF IsLast
  <2>6. PICK b \in FramedPackets :
          /\ b \in Buffer /\ b.pieces = sendBuff.pieces
          /\ b.last => ~no
          /\ b.len = 0 => b = sendBuff
          /\ Sends(b)
    BY <1>0, <2>3, <2>4, <2>5, ReturnSends, Zenon
  <2>7. (b.last => ~cgi') /\ (cgi' => cgi /\ priv' = priv) /\ (priv'.disconAfterSent \/ cgi')
    BY <2>4, <2>5
  <2> QED
    BY <2>4, <2>6, <2>7, ReturnKeepsOrder, Zenon
<1>10. CASE UNCHANGED vars
  <2>1. OrderInv'
    BY <1>10 DEF vars, OrderInv, InCgi
  <2>2. LastInv'
    BY <1>10 DEF vars, LastInv, LastChunkEnds
  <2> QED
    BY <2>1, <2>2
<1> QED
  BY <1>1, <1>2, <1>3, <1>4, <1>5, <1>6, <1>7, <1>8, <1>9, <1>10 DEF Next

LEMMA OrderHolds ==
  ASSUME RoomForFraming, OneCallbackAtATime
  PROVE  Spec => [](OrderInv /\ LastInv)
<1>1. Init => OrderInv /\ LastInv
  BY OrderStarts
<1>2. TypeOK /\ TypeOK' /\ FrameInv /\ (OrderInv /\ LastInv) /\ [Next]_vars => (OrderInv /\ LastInv)'
  BY OrderStep
<1> QED
  BY <1>1, <1>2, SendTypes, FramesHold, PTL DEF Spec

LEMMA NumberedIs ==
  ASSUME NEW s \in Seq(Nat), Numbered(s, 0)
  PROVE  s = [k \in 1 .. Len(s) |-> k]
<1>1. s \in [1 .. Len(s) -> Nat]
  BY LenProperties
<1>2. \A k \in 1 .. Len(s) : s[k] = k
  BY DEF Numbered
<1> QED
  BY <1>1, <1>2

\* The last chunk is the end of a response, and a connection is closed only when all that
\* was accepted has been sent. (httpdCgiIsDone, httpdContinue)
THEOREM ResponsesEndWhole ==
  ASSUME RoomForFraming, OneCallbackAtATime
  PROVE  Spec => []EndsWhole
<1>1. TypeOK /\ FrameInv /\ (OrderInv /\ LastInv) => EndsWhole
  <2> SUFFICES ASSUME TypeOK, FrameInv, OrderInv, LastInv
               PROVE  EndsWhole
    OBVIOUS
  <2>1. LastChunkEnds
    BY DEF LastInv
  <2>2. ASSUME pc = "closed" PROVE received = [k \in 1 .. accepted |-> k]
    <3>1. backlog = <<>> /\ sendBuff = EmptyBuffer
      BY <2>2 DEF OrderInv, FrameInv, InCgi
    <3>2. sendBuff.pieces = <<>>
      BY <3>1 DEF EmptyBuffer
    <3>3. Len(received) + 0 = accepted /\ Numbered(received, 0)
      BY <3>1, <3>2 DEF OrderInv
    <3>4. received \in Seq(Nat) /\ Len(received) \in Nat
      BY LenProperties DEF TypeOK
    <3>5. Len(received) = accepted
      BY <3>3, <3>4
    <3> QED
      BY <3>3, <3>4, <3>5, NumberedIs
  <2> QED
    BY <2>1, <2>2 DEF EndsWhole, NothingLeftBehind
<1> QED
  BY <1>1, SendTypes, FramesHold, OrderHolds, PTL

-----------------------------------------------------------------------------
(* SendPath implements ByteStream.                                          *)

\* What was received stays received.
LEMMA ReturnGrows ==
  ASSUME TypeOK, NEW p \in Priv, NEW c \in BOOLEAN, NEW q \in Priv, NEW b \in Buffer,
         NEW r1, NEW r, Returned(p, c, q, b, r1, r)
  PROVE  Len(received) <= Len(received')
<1>1. /\ NowWith(b) \in Outcome /\ r1 \in Outcome /\ r \in Outcome /\ Ends(r)
      /\ \E b1 \in Buffer : b1 = AddLast(p, c, CloseChunk(b)) /\ Becomes(b1, NowWith(b), r1)
      /\ \/ r = r1
         \/ \E b2 \in Buffer : b2 = AddLast(q, c, CloseChunk(r1.buff)) /\ Becomes(b2, r1, r)
  BY ReturnedIs
<1>2. ASSUME NEW o \in Outcome, NEW u \in Buffer, NEW s \in Outcome, Becomes(u, o, s)
      PROVE  Len(o.received) <= Len(s.received)
  <2>1. Fields(u, o, s)
    BY <1>2, BecomesIs, Zenon
  <2>2. s.received \in {o.received, o.received \o u.pieces}
    BY <2>1 DEF Fields
  <2>3. PICK got \in Seq(Nat), ps \in Seq(Nat) : got = o.received /\ ps = u.pieces
    BY DEF Outcome, Buffer
  <2>4. Len(got \o ps) = Len(got) + Len(ps)
    BY ConcatProperties
  <2>5. Len(got) \in Nat /\ Len(ps) \in Nat
    BY LenProperties
  <2>6. Len(got) <= Len(got \o ps) /\ Len(got) <= Len(got)
    BY <2>4, <2>5
  <2> QED
    BY <2>2, <2>3, <2>6
<1>3. Len(NowWith(b).received) <= Len(r1.received)
  BY <1>1, <1>2
<1>4. Len(r1.received) <= Len(r.received)
  <2>1. CASE r = r1
    <3>1. r.received \in Seq(Nat)
      BY <1>1 DEF Outcome
    <3>2. Len(r.received) \in Nat
      BY <3>1, LenProperties
    <3> QED
      BY <2>1, <3>2
  <2>2. CASE r # r1
    BY <1>1, <1>2, <2>2
  <2> QED
    BY <2>1, <2>2
<1>5. NowWith(b).received = received /\ received' = r.received
  BY <1>1 DEF NowWith, Ends
<1>6. Len(received) \in Nat /\ Len(r1.received) \in Nat /\ Len(r.received) \in Nat
  <2>1. received \in Seq(Nat) /\ r1.received \in Seq(Nat) /\ r.received \in Seq(Nat)
    BY <1>1 DEF TypeOK, Outcome
  <2> QED
    BY <2>1, LenProperties
<1> QED
  BY <1>3, <1>4, <1>5, <1>6

LEMMA StreamGrows ==
  ASSUME TypeOK, TypeOK', [Next]_vars
  PROVE  accepted <= accepted' /\ Len(received) <= Len(received')
<1>0. /\ priv \in Priv /\ priv' \in Priv /\ cgi \in BOOLEAN /\ sendBuff \in Buffer /\ accepted \in Nat
      /\ received \in Seq(Nat) /\ Len(received) \in Nat
  BY LenProperties DEF TypeOK
<1>1. ASSUME UNCHANGED received, accepted' = accepted \/ accepted' = accepted + 1
      PROVE  accepted <= accepted' /\ Len(received) <= Len(received')
  BY <1>0, <1>1
<1>2. CASE SentBacklog
  <2>1. Head(backlog) \in Buffer
    BY <1>2, DrainTypes
  <2>2. PICK ps \in Seq(Nat) : ps = Head(backlog).pieces
    BY <2>1 DEF Buffer
  <2>3. accepted' = accepted /\ (received' = received \o ps \/ received' = received)
    BY <1>2, <2>2 DEF SentBacklog
  <2>4. Len(received \o ps) = Len(received) + Len(ps) /\ Len(ps) \in Nat
    BY <1>0, ConcatProperties, LenProperties
  <2>5. Len(received) <= Len(received \o ps)
    BY <1>0, <2>4
  <2> QED
    BY <1>0, <2>3, <2>5
<1>3. ASSUME NEW n \in Lens, AsyncSend(n)
      PROVE  accepted <= accepted' /\ Len(received) <= Len(received')
  <2>1. n \in Nat /\ accepted + 1 \in Nat
    BY <1>0, SendPathAssumption
  <2>2. PICK b : b = Put(priv, EmptyBuffer, accepted + 1, n)
    OBVIOUS
  <2>3. b \in Buffer
    BY <1>0, <2>1, <2>2, EmptyIsBuffer, PutIsBuffer
  <2>4. PICK r : Returned(priv, cgi, priv, b, r, r)
    BY <1>3, <2>2, AsyncReturns, Zenon
  <2>5. Len(received) <= Len(received')
    BY <1>0, <2>3, <2>4, ReturnGrows, Zenon
  <2>6. accepted' = accepted + 1
    BY <1>3 DEF AsyncSend
  <2> QED
    BY <1>0, <2>5, <2>6
<1>4. CASE ReturnMore
  <2>1. PICK r1, r : Returned(priv, cgi, priv, sendBuff, r1, r)
    BY <1>4, MoreReturns, Zenon
  <2>2. Len(received) <= Len(received')
    BY <1>0, <2>1, ReturnGrows, Zenon
  <2>3. accepted' = accepted
    BY <1>4 DEF ReturnMore
  <2> QED
    BY <1>0, <2>2, <2>3
<1>5. CASE ReturnDone
  <2>1. PICK p, r1, r : /\ p \in {priv, priv'} /\ (p = priv => priv.chunked \/ priv' = priv)
                        /\ ~priv.chunked => p = priv'
                        /\ Returned(p, FALSE, priv', sendBuff, r1, r)
    BY <1>5, DoneReturns, Zenon
  <2>2. PICK no \in BOOLEAN : no = FALSE
    BY Zenon
  <2>3. p \in Priv /\ Returned(p, no, priv', sendBuff, r1, r)
    BY <1>0, <2>1, <2>2
  <2>4. Len(received) <= Len(received')
    BY <1>0, <2>3, ReturnGrows, Zenon
  <2>5. accepted' = accepted
    BY <1>5 DEF ReturnDone
  <2> QED
    BY <1>0, <2>4, <2>5
<1>6. ASSUME NEW chunked \in BOOLEAN, Request(chunked)
      PROVE  UNCHANGED <<received, accepted>>
  BY <1>6 DEF Request
<1>7. ASSUME NEW n \in Lens, Send(n)
      PROVE  UNCHANGED received /\ accepted' = accepted + 1
  BY <1>7 DEF Send
<1>8. SentClose \/ SentCgi \/ UNCHANGED vars => UNCHANGED <<received, accepted>>
  BY DEF SentClose, SentCgi, vars
<1>9. EndHeaders => UNCHANGED received /\ (accepted' = accepted \/ accepted' = accepted + 1)
  BY DEF EndHeaders
<1> QED
  BY <1>1, <1>2, <1>3, <1>4, <1>5, <1>6, <1>7, <1>8, <1>9 DEF Next

\* What reaches the client is what httpdSend accepted, in that order, without a gap and without
\* a repetition: every step is a step of ByteStream or changes nothing of it. (httpdSend,
\* httpdFlushSendBuffer, httpdContinue)
THEOREM ImplementsByteStream ==
  ASSUME RoomForFraming, OneCallbackAtATime
  PROVE  Spec => StreamSpec
<1>1. Init => Stream!Init
  BY DEF Init, Stream!Init
<1>2. TypeOK /\ TypeOK' /\ FrameInv' /\ (OrderInv /\ LastInv)' /\ [Next]_vars
        => [Stream!Next]_Stream!vars
  <2> SUFFICES ASSUME TypeOK, TypeOK', FrameInv', OrderInv', [Next]_vars
               PROVE  Stream!Next
    OBVIOUS
  <2>1. accepted <= accepted' /\ Len(received) <= Len(received')
    BY StreamGrows
  <2>2. /\ accepted \in Nat /\ accepted' \in Nat /\ received \in Seq(Nat) /\ received' \in Seq(Nat)
        /\ sendBuff'.pieces \in Seq(Nat) /\ (backlog' # <<>> => backlog'[1].pieces \in Seq(Nat))
    <3>1. /\ accepted \in Nat /\ accepted' \in Nat /\ received \in Seq(Nat) /\ received' \in Seq(Nat)
          /\ sendBuff' \in Buffer /\ backlog' \in Seq(Buffer)
      BY DEF TypeOK
    <3>2. backlog' # <<>> => backlog'[1] \in Buffer
      BY <3>1
    <3> QED
      BY <3>1, <3>2 DEF Buffer
  <2>3. Len(received) \in Nat /\ Len(received') \in Nat
    BY <2>2, LenProperties
  <2>4. Len(received') <= accepted'
    <3>1. CASE backlog' = <<>>
      <4>1. Len(received') + Len(sendBuff'.pieces) = accepted' /\ Len(sendBuff'.pieces) \in Nat
        BY <2>2, <3>1, LenProperties DEF OrderInv
      <4> QED
        BY <2>3, <4>1
    <3>2. CASE backlog' # <<>>
      <4>1. Len(received') + Len(backlog'[1].pieces) = accepted' /\ Len(backlog'[1].pieces) \in Nat
        BY <2>2, <3>2, LenProperties DEF OrderInv
      <4> QED
        BY <2>3, <4>1
    <3> QED
      BY <3>1, <3>2
  <2>5. received' = [k \in 1 .. Len(received') |-> k]
    <3>1. Numbered(received', 0)
      BY DEF OrderInv
    <3> QED
      BY <2>2, <3>1, NumberedIs
  <2>6. Len(received') \in Len(received) .. accepted'
    BY <2>1, <2>2, <2>3, <2>4
  <2>7. received' = Stream!FirstPieces(Len(received'))
    BY <2>5 DEF Stream!FirstPieces
  <2>8. accepted' >= accepted
    BY <2>1, <2>2
  <2> QED
    BY <2>6, <2>7, <2>8 DEF Stream!Next
<1> QED
  BY <1>1, <1>2, SendTypes, FramesHold, OrderHolds, PTL DEF Spec, StreamSpec, Stream!Spec
=============================================================================
