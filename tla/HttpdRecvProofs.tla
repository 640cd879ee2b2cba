-------------------------- MODULE HttpdRecvProofs --------------------------
(***************************************************************************)
(* What holds of the way a request is taken apart, for every size of the   *)
(* two buffers and every set of requests: whatever CGI functions do, and,  *)
(* as long as they wait for the whole body, where the server is with it.   *)
(***************************************************************************)
EXTENDS HttpdRecv, SequenceTheorems, FiniteSetTheorems, WellFoundedInduction, TLAPS

\* A sequence of one element.
LEMMA Single ==
  ASSUME NEW S, NEW x \in S
  PROVE  \E s \in Seq(S) : s = <<x>> /\ Len(s) = 1 /\ s[1] = x
<1>1. <<x>> \in Seq(S) /\ Len(<<x>>) = 1 /\ <<x>>[1] = x
  OBVIOUS
<1> QED
  BY <1>1, Zenon

\* What stands where in two sequences one after the other.
LEMMA Joined ==
  ASSUME NEW S, NEW s \in Seq(S), NEW t \in Seq(S)
  PROVE  /\ s \o t \in Seq(S)
         /\ Len(s \o t) = Len(s) + Len(t)
         /\ \A i \in 1 .. Len(s) + Len(t) :
              (s \o t)[i] = IF i <= Len(s) THEN s[i] ELSE t[i - Len(s)]
BY ConcatProperties, Zenon

-----------------------------------------------------------------------------
(* Where the lines of a request end: in the head as the server keeps it,   *)
(* with \r\n behind every line, and in what the client sends.              *)

EolLen(r) == IF r.eol = "crlf" THEN 2 ELSE 1
BodyLen(r) == IF r.len = -1 THEN 0 ELSE r.len

EndOf(r, e) ==
  LET close == 1 + e + (IF r.close THEN 1 + e ELSE 0)
      fill  == close + (IF r.fill = 0 THEN 0 ELSE r.fill + e)
      len   == fill + (IF r.len = -1 THEN 0 ELSE 1 + e)
  IN [request |-> 1 + e, close |-> close, fill |-> fill, len |-> len, head |-> len + e]

Ends(m) == {m.request, m.close, m.fill, m.len, m.head}

\* What stands at place k, if lines end in e bytes.
TokAt(r, m, e, k) ==
  IF k = 1 THEN Tok("request", IF r.http11 THEN 1 ELSE 0)
  ELSE IF k \in Ends(m) THEN LF
  ELSE IF e = 2 /\ k + 1 \in Ends(m) THEN CR
  ELSE IF r.close /\ k = m.request + 1 THEN Tok("close", 0)
  ELSE IF r.len # -1 /\ k = m.fill + 1 THEN Tok("len", r.len)
  ELSE Other

\* The head of every request fits the buffer, with the \r that is added.
HeadsFit == \A r \in Requests : EndOf(r, 2).head <= MaxHead

\* How much of the head the server has when it has read i bytes.
Kept(r, i) ==
  LET m == EndOf(r, EolLen(r))
  IN IF EolLen(r) = 2 THEN i
     ELSE i + (IF i >= m.request THEN 1 ELSE 0)
            + (IF r.close /\ i >= m.close THEN 1 ELSE 0)
            + (IF r.fill # 0 /\ i >= m.fill THEN 1 ELSE 0)
            + (IF r.len # -1 /\ i >= m.len THEN 1 ELSE 0)
            + (IF i >= m.head THEN 1 ELSE 0)

Token == [k : {"cr", "lf", "other", "request", "close", "len"}, n : Nat]

\* s is what the client sends from place a on, up to place b.
Stands(s, r, a, b) ==
  /\ s \in Seq(Token) /\ Len(s) = b - a
  /\ \A k \in 1 .. b - a : s[k] = TokAt(r, EndOf(r, EolLen(r)), EolLen(r), a + k)

\* s is the first n bytes of the head of r, with \r\n behind every line.
HeadIs(r, s, n) ==
  /\ s \in Seq(Token) /\ Len(s) = n
  /\ \A k \in 1 .. n : s[k] = TokAt(r, EndOf(r, 2), 2, k)

-----------------------------------------------------------------------------
(* The inductive invariant: how far the server is with the request.         *)

PostIs(len, size, waiting, received) ==
  /\ post.len = len /\ post.buffSize = size
  /\ post.buffLen = waiting /\ post.received = received
CallsAre(started, given, done) ==
  /\ calls.started = started /\ calls.given = given
  /\ calls.done = done /\ calls.again = FALSE

KeepsOpen(r) == r.http11 /\ ~r.close

\* The first i bytes of the request have been read.
HeadPhase ==
  LET m == EndOf(asked, EolLen(asked))
  IN /\ \E i \in 0 .. m.head - 1 :
          /\ Stands(input, asked, i, m.head + BodyLen(asked))
          /\ HeadIs(asked, head, Kept(asked, i))
     /\ PostIs(-1, post.buffSize, 0, 0)
     /\ cgi = FALSE /\ chunked = FALSE /\ CallsAre(0, 0, FALSE)

\* received bytes of the body have been read; some of them wait in the buffer.
BodyPhase ==
  /\ \E received \in 0 .. BodyLen(asked) - 1, waiting \in 0 .. BuffSize(BodyLen(asked)) - 1 :
       /\ waiting <= received
       /\ PostIs(BodyLen(asked), BuffSize(BodyLen(asked)), waiting, received)
       /\ CallsAre(IF cgi THEN 1 ELSE 0, received - waiting, FALSE)
       /\ Len(input) = BodyLen(asked) - received
  /\ url = TRUE /\ chunked = KeepsOpen(asked)

\* The CGI has all of the body and answers in several calls.
AnswerPhase ==
  /\ PostIs(BodyLen(asked), post.buffSize, 0, BodyLen(asked))
  /\ cgi = TRUE /\ chunked = KeepsOpen(asked)
  /\ CallsAre(1, BodyLen(asked), FALSE)
  /\ input # <<>> => BodyLen(asked) = 0 /\ ~KeepsOpen(asked)

\* The response is complete. If it was chunked the server waits for another head.
DonePhase ==
  /\ cgi = FALSE /\ chunked = FALSE /\ discon # "no"
  /\ CallsAre(1, BodyLen(asked), TRUE)
  /\ IF KeepsOpen(asked)
     THEN PostIs(-1, post.buffSize, 0, 0) /\ head = <<>> /\ input = <<>>
     ELSE /\ PostIs(BodyLen(asked), post.buffSize, 0, BodyLen(asked))
          /\ input # <<>> => BodyLen(asked) = 0

Phases ==
  /\ asked \in Requests
  /\ HeadPhase \/ BodyPhase \/ AnswerPhase \/ DonePhase

-----------------------------------------------------------------------------
(* What the client sends.                                                   *)

LEMMA Tokens ==
  /\ CR \in Token /\ LF \in Token /\ Other \in Token
  /\ \A n \in Nat : Tok("request", n) \in Token /\ Tok("close", n) \in Token
                    /\ Tok("len", n) \in Token
BY DEF Tok, Token, CR, LF, Other

LEMMA Places ==
  ASSUME NEW r \in Request, NEW e \in {1, 2}
  PROVE  LET m == EndOf(r, e)
         IN /\ m.request \in Nat /\ m.request = 1 + e
            /\ m.close \in Nat
            /\ m.close = IF r.close THEN m.request + 1 + e ELSE m.request
            /\ m.fill \in Nat
            /\ m.fill = IF r.fill = 0 THEN m.close ELSE m.close + r.fill + e
            /\ m.len \in Nat
            /\ m.len = IF r.len = -1 THEN m.fill ELSE m.fill + 1 + e
            /\ m.head \in Nat /\ m.head = m.len + e
<1>1. /\ r.fill \in Nat /\ r.len \in Nat \cup {-1} /\ r.close \in BOOLEAN
  BY DEF Request
<1> DEFINE c == 1 + e + (IF r.close THEN 1 + e ELSE 0)
           f == c + (IF r.fill = 0 THEN 0 ELSE r.fill + e)
           l == f + (IF r.len = -1 THEN 0 ELSE 1 + e)
<1>2. EndOf(r, e) = [request |-> 1 + e, close |-> c, fill |-> f, len |-> l, head |-> l + e]
  BY DEF EndOf
<1>3. c \in Nat /\ c = IF r.close THEN 1 + e + 1 + e ELSE 1 + e
  BY <1>1
<1>4. f \in Nat /\ f = IF r.fill = 0 THEN c ELSE c + r.fill + e
  BY <1>1, <1>3
<1>5. l \in Nat /\ l = IF r.len = -1 THEN f ELSE f + 1 + e
  BY <1>1, <1>4
<1> QED
  BY <1>2, <1>3, <1>4, <1>5

\* The end of a line.
LEMMA EolIs ==
  ASSUME NEW r \in Request
  PROVE  /\ EolLen(r) \in {1, 2}
         /\ \E s \in Seq(Token) :
              /\ s = Eol(r) /\ Len(s) = EolLen(r)
              /\ s[Len(s)] = LF /\ (EolLen(r) = 2 => s[1] = CR)
<1>1. EolLen(r) \in {1, 2}
  BY DEF EolLen
<1>2. CASE r.eol = "crlf"
  <2>1. Eol(r) = <<CR, LF>> /\ EolLen(r) = 2
    BY <1>2 DEF Eol, EolLen
  <2>2. <<CR, LF>> \in Seq(Token) /\ Len(<<CR, LF>>) = 2 /\ <<CR, LF>>[1] = CR /\ <<CR, LF>>[2] = LF
    BY Tokens, SMT
  <2> QED
    BY <1>1, <2>1, <2>2, Zenon
<1>3. CASE r.eol # "crlf"
  <2>1. Eol(r) = <<LF>> /\ EolLen(r) = 1
    BY <1>3 DEF Eol, EolLen
  <2>2. PICK s \in Seq(Token) : s = <<LF>> /\ Len(s) = 1 /\ s[1] = LF
    BY Tokens, Single
  <2>3. s[Len(s)] = LF /\ (EolLen(r) = 2 => s[1] = CR)
    BY <2>1, <2>2
  <2> QED
    BY <1>1, <2>1, <2>2, <2>3, Zenon
<1> QED
  BY <1>2, <1>3

\* A line that the server looks at, a line that it does not, and the body.
LEMMA LineIs ==
  ASSUME NEW r \in Request, NEW t \in Token
  PROVE  \E s \in Seq(Token) :
           /\ s = <<t>> \o Eol(r) /\ Len(s) = 1 + EolLen(r)
           /\ s[1] = t /\ s[Len(s)] = LF /\ (EolLen(r) = 2 => s[2] = CR)
<1>1. EolLen(r) \in {1, 2}
  BY EolIs
<1>2. PICK e \in Seq(Token) : /\ e = Eol(r) /\ Len(e) = EolLen(r)
                              /\ e[Len(e)] = LF /\ (EolLen(r) = 2 => e[1] = CR)
  BY EolIs, Zenon
<1>3. PICK o \in Seq(Token) : o = <<t>> /\ Len(o) = 1 /\ o[1] = t
  BY Single
<1>4. /\ o \o e \in Seq(Token)
      /\ Len(o \o e) = Len(o) + Len(e)
      /\ \A i \in 1 .. Len(o) + Len(e) :
           (o \o e)[i] = IF i <= Len(o) THEN o[i] ELSE e[i - Len(o)]
  BY Joined, Zenon
<1> DEFINE s == o \o e
<1>5. s \in Seq(Token) /\ s = <<t>> \o Eol(r)
  BY <1>2, <1>3, <1>4
<1>6. /\ Len(s) = 1 + EolLen(r)
      /\ s[1] = t /\ s[Len(s)] = LF /\ (EolLen(r) = 2 => s[2] = CR)
  BY <1>1, <1>2, <1>3, <1>4
<1> HIDE DEF s
<1> QED
  BY <1>5, <1>6

LEMMA OthersAre ==
  ASSUME NEW n \in Nat
  PROVE  \E s \in Seq(Token) :
           /\ s = [k \in 1 .. n |-> Other] /\ Len(s) = n
           /\ \A k \in 1 .. n : s[k] = Other
<1> DEFINE s == [k \in 1 .. n |-> Other]
<1>1. s \in [1 .. n -> Token] /\ \A k \in 1 .. n : s[k] = Other
  BY Tokens
<1> HIDE DEF s
<1>2. s \in Seq(Token)
  BY <1>1, SeqDef
<1>3. Len(s) = n
  BY <1>1, <1>2, LenProperties
<1> QED
  BY <1>1, <1>2, <1>3 DEF s

LEMMA FillIs ==
  ASSUME NEW r \in Request, NEW n \in Nat
  PROVE  \E s \in Seq(Token) :
           /\ s = [k \in 1 .. n |-> Other] \o Eol(r) /\ Len(s) = n + EolLen(r)
           /\ \A k \in 1 .. n : s[k] = Other
           /\ s[Len(s)] = LF /\ (EolLen(r) = 2 => s[n + 1] = CR)
<1>1. EolLen(r) \in {1, 2}
  BY EolIs
<1>2. PICK e \in Seq(Token) : /\ e = Eol(r) /\ Len(e) = EolLen(r)
                              /\ e[Len(e)] = LF /\ (EolLen(r) = 2 => e[1] = CR)
  BY EolIs, Zenon
<1>3. PICK o \in Seq(Token) : /\ o = [k \in 1 .. n |-> Other] /\ Len(o) = n
                              /\ \A k \in 1 .. n : o[k] = Other
  BY OthersAre, Zenon
<1>4. /\ o \o e \in Seq(Token)
      /\ Len(o \o e) = Len(o) + Len(e)
      /\ \A i \in 1 .. Len(o) + Len(e) :
           (o \o e)[i] = IF i <= Len(o) THEN o[i] ELSE e[i - Len(o)]
  BY Joined, Zenon
<1> DEFINE s == o \o e
<1>5. s \in Seq(Token) /\ s = [k \in 1 .. n |-> Other] \o Eol(r)
  BY <1>2, <1>3, <1>4
<1>6. /\ Len(s) = n + EolLen(r)
      /\ \A k \in 1 .. n : s[k] = Other
      /\ s[Len(s)] = LF /\ (EolLen(r) = 2 => s[n + 1] = CR)
  BY <1>1, <1>2, <1>3, <1>4
<1> HIDE DEF s
<1> QED
  BY <1>5, <1>6

LEMMA StandsOn ==
  ASSUME NEW r, NEW a \in Nat, NEW b \in Nat, NEW s, NEW t, a <= b,
         Stands(s, r, 0, a), Stands(t, r, a, b)
  PROVE  Stands(s \o t, r, 0, b)
<1>1. s \in Seq(Token) /\ t \in Seq(Token) /\ Len(s) = a /\ Len(t) = b - a
  BY DEF Stands
<1>2. /\ s \o t \in Seq(Token)
      /\ Len(s \o t) = Len(s) + Len(t)
      /\ \A i \in 1 .. Len(s) + Len(t) :
           (s \o t)[i] = IF i <= Len(s) THEN s[i] ELSE t[i - Len(s)]
  BY <1>1, Joined, Zenon
<1> DEFINE n == s \o t
           At(k) == TokAt(r, EndOf(r, EolLen(r)), EolLen(r), k)
<1>3. /\ \A k \in 1 .. a : s[k] = At(k)
      /\ \A k \in 1 .. b - a : t[k] = At(a + k)
  BY DEF Stands
<1>4. /\ n \in Seq(Token) /\ Len(n) = b
      /\ \A k \in 1 .. b : n[k] = IF k <= a THEN s[k] ELSE t[k - a]
  BY <1>1, <1>2
<1> HIDE DEF n, At
<1>5. ASSUME NEW k \in 1 .. b
      PROVE  n[k] = At(k)
  <2>1. CASE k <= a
    BY <1>3, <1>4, <2>1
  <2>2. CASE k > a
    <3>1. k - a \in 1 .. b - a /\ a + (k - a) = k
      BY <2>2
    <3> QED
      BY <1>3, <1>4, <2>2, <3>1
  <2> QED
    BY <2>1, <2>2
<1> QED
  BY <1>4, <1>5 DEF Stands, n, At

\* The tokens of a request, line by line.
Lay(r, e, q, c, f, l, h) ==
  LET At(k) == TokAt(r, EndOf(r, e), e, k)
  IN /\ q = 1 + e /\ h = l + e
     /\ q = EndOf(r, e).request /\ c = EndOf(r, e).close /\ f = EndOf(r, e).fill
     /\ l = EndOf(r, e).len /\ h = EndOf(r, e).head
     /\ At(1) = Tok("request", IF r.http11 THEN 1 ELSE 0)
     /\ At(q) = LF /\ (e = 2 => At(2) = CR)
     /\ r.close => /\ c = q + 1 + e
                   /\ At(q + 1) = Tok("close", 0)
                   /\ At(c) = LF /\ (e = 2 => At(q + 2) = CR)
     /\ ~r.close => c = q
     /\ r.fill # 0 => /\ f = c + r.fill + e
                      /\ \A k \in 1 .. r.fill : At(c + k) = Other
                      /\ At(f) = LF /\ (e = 2 => At(c + r.fill + 1) = CR)
     /\ r.fill = 0 => f = c
     /\ r.len # -1 => /\ l = f + 1 + e
                      /\ At(f + 1) = Tok("len", r.len)
                      /\ At(l) = LF /\ (e = 2 => At(f + 2) = CR)
     /\ r.len = -1 => l = f
     /\ At(h) = LF /\ (e = 2 => At(l + 1) = CR)
     /\ \A k \in Nat \ {0} : At(h + k) = Other

LEMMA LaidOut ==
  ASSUME NEW r \in Request, NEW e \in {1, 2}
  PROVE  \E q \in Nat, c \in Nat, f \in Nat, l \in Nat, h \in Nat : Lay(r, e, q, c, f, l, h)
<1> DEFINE m == EndOf(r, e)
           first == Tok("request", IF r.http11 THEN 1 ELSE 0)
           close == Tok("close", 0)
           length == Tok("len", r.len)
           At(k) == TokAt(r, m, e, k)
<1>1. e \in {1, 2}
  OBVIOUS
<1>2. PICK q \in Nat, c \in Nat, f \in Nat, l \in Nat, h \in Nat :
        /\ q = m.request /\ c = m.close /\ f = m.fill /\ l = m.len /\ h = m.head
        /\ q = 1 + e
        /\ c = IF r.close THEN q + 1 + e ELSE q
        /\ f = IF r.fill = 0 THEN c ELSE c + r.fill + e
        /\ l = IF r.len = -1 THEN f ELSE f + 1 + e
        /\ h = l + e
  <2>1. /\ m.request \in Nat /\ m.request = 1 + e
        /\ m.close \in Nat
        /\ m.close = IF r.close THEN m.request + 1 + e ELSE m.request
        /\ m.fill \in Nat
        /\ m.fill = IF r.fill = 0 THEN m.close ELSE m.close + r.fill + e
        /\ m.len \in Nat
        /\ m.len = IF r.len = -1 THEN m.fill ELSE m.fill + 1 + e
        /\ m.head \in Nat /\ m.head = m.len + e
    BY <1>1, Places
  <2> HIDE DEF m
  <2> QED
    BY <2>1
<1>3. r.fill \in Nat /\ r.len \in Nat \cup {-1} /\ r.close \in BOOLEAN
  BY DEF Request
<1>4. q = 1 + e /\ h = l + e
  BY <1>2
<1>5. (r.close => c = q + 1 + e) /\ (~r.close => c = q)
  BY <1>2, <1>3
<1>6. (r.fill # 0 => f = c + r.fill + e) /\ (r.fill = 0 => f = c)
  BY <1>2, <1>3
<1>7. (r.len # -1 => l = f + 1 + e) /\ (r.len = -1 => l = f)
  BY <1>2, <1>3
<1> DEFINE End(k) == k = q \/ k = c \/ k = f \/ k = l \/ k = h
<1>8. /\ At(1) = first
      /\ \A k \in Nat \ {1} :
           /\ End(k) => At(k) = LF
           /\ ~End(k) /\ e = 2 /\ End(k + 1) => At(k) = CR
           /\ ~End(k) /\ (e = 2 => ~End(k + 1)) =>
                /\ r.close /\ k = q + 1 => At(k) = close
                /\ r.len # -1 /\ k = f + 1 /\ (r.close => k # q + 1) => At(k) = length
                /\ (r.close => k # q + 1) /\ (r.len # -1 => k # f + 1) => At(k) = Other
  BY <1>2 DEF TokAt, Ends
<1>9. q <= c /\ c <= f /\ f <= l /\ l < h
  <2>1. q <= c
    BY <1>1, <1>5
  <2>2. c <= f
    BY <1>1, <1>3, <1>6
  <2>3. f <= l
    BY <1>1, <1>7
  <2> QED
    BY <1>1, <1>4, <2>1, <2>2, <2>3
<1> HIDE DEF m, At, first, close, length
<1>q. At(q) = LF /\ (e = 2 => At(2) = CR)
  BY <1>1, <1>4, <1>8, <1>9
<1>c. r.close => At(q + 1) = close /\ At(c) = LF /\ (e = 2 => At(q + 2) = CR)
  BY <1>1, <1>4, <1>5, <1>8, <1>9
<1>f. r.fill # 0 => /\ \A k \in 1 .. r.fill : At(c + k) = Other
                    /\ At(f) = LF /\ (e = 2 => At(c + r.fill + 1) = CR)
  <2>1. SUFFICES ASSUME r.fill # 0
                 PROVE  /\ \A k \in 1 .. r.fill : At(c + k) = Other
                        /\ At(f) = LF /\ (e = 2 => At(c + r.fill + 1) = CR)
    OBVIOUS
  <2>2. PICK n \in Nat : n = r.fill /\ n # 0
    BY <1>3, <2>1
  <2>3. f = c + n + e
    BY <1>6, <2>1, <2>2
  <2>4. ASSUME NEW k \in 1 .. n
        PROVE  At(c + k) = Other
    <3>1. c + k \in Nat \ {1} /\ c + k > c /\ c + k < f /\ (e = 2 => c + k + 1 < f)
      BY <1>1, <1>4, <1>9, <2>3
    <3>2. ~End(c + k) /\ (e = 2 => ~End(c + k + 1))
      BY <1>1, <1>9, <2>3, <3>1
    <3>3. (r.close => c + k # q + 1) /\ c + k # f + 1
      BY <1>1, <1>5, <1>9, <2>3
    <3> QED
      BY <1>8, <3>1, <3>2, <3>3
  <2>5. At(f) = LF
    BY <1>1, <1>4, <1>8, <1>9
  <2>6. e = 2 => At(c + n + 1) = CR
    BY <1>1, <1>4, <1>8, <1>9, <2>2, <2>3
  <2> QED
    BY <2>2, <2>4, <2>5, <2>6
<1>l. r.len # -1 => At(f + 1) = length /\ At(l) = LF /\ (e = 2 => At(f + 2) = CR)
  BY <1>1, <1>4, <1>5, <1>7, <1>8, <1>9
<1>h. At(h) = LF /\ (e = 2 => At(l + 1) = CR)
  BY <1>1, <1>4, <1>8, <1>9
<1>b. \A k \in Nat \ {0} : At(h + k) = Other
  <2> TAKE k \in Nat \ {0}
  <2>1. h + k \in Nat \ {1} /\ h + k > h
    BY <1>1, <1>4, <1>9
  <2>2. ~End(h + k) /\ (e = 2 => ~End(h + k + 1))
    BY <1>9, <2>1
  <2>3. (r.close => h + k # q + 1) /\ (r.len # -1 => h + k # f + 1)
    BY <1>1, <1>4, <1>5, <1>7, <1>9, <2>1
  <2> QED
    BY <1>8, <2>1, <2>2, <2>3
<1> QED
  <2>1. Lay(r, e, q, c, f, l, h)
    BY <1>2, <1>4, <1>5, <1>6, <1>7, <1>8, <1>q, <1>c, <1>f, <1>l, <1>h, <1>b
      DEF Lay, m, At, first, close, length
  <2> QED
    BY <2>1

\* What the client sends, place by place.
LEMMA BytesAt ==
  ASSUME NEW r \in Request
  PROVE  LET m == EndOf(r, EolLen(r)) IN Stands(Bytes(r), r, 0, m.head + BodyLen(r))
<1> DEFINE e == EolLen(r)
           m == EndOf(r, e)
           At(k) == TokAt(r, m, e, k)
           first == Tok("request", IF r.http11 THEN 1 ELSE 0)
           close == Tok("close", 0)
           length == Tok("len", r.len)
<1>1. e \in {1, 2}
  BY EolIs
<1> HIDE DEF e
<1>2. PICK q \in Nat, c \in Nat, f \in Nat, l \in Nat, h \in Nat : Lay(r, e, q, c, f, l, h)
  BY <1>1, LaidOut, Zenon
<1>3. /\ r.fill \in Nat /\ r.len \in Nat \cup {-1} /\ r.close \in BOOLEAN
      /\ r.http11 \in BOOLEAN
  BY DEF Request
<1>4. q = 1 + e /\ h = l + e /\ h = m.head
  BY <1>2 DEF Lay
<1>5. /\ r.close => c = q + 1 + e
      /\ ~r.close => c = q
  BY <1>2 DEF Lay
<1>6. /\ r.fill # 0 => f = c + r.fill + e
      /\ r.fill = 0 => f = c
  BY <1>2 DEF Lay
<1>7. /\ r.len # -1 => l = f + 1 + e
      /\ r.len = -1 => l = f
  BY <1>2 DEF Lay
<1>8. /\ At(1) = first
      /\ At(q) = LF /\ (e = 2 => At(2) = CR)
      /\ r.close => At(q + 1) = close /\ At(c) = LF /\ (e = 2 => At(q + 2) = CR)
      /\ r.fill # 0 => /\ \A k \in 1 .. r.fill : At(c + k) = Other
                       /\ At(f) = LF /\ (e = 2 => At(c + r.fill + 1) = CR)
      /\ r.len # -1 => At(f + 1) = length /\ At(l) = LF /\ (e = 2 => At(f + 2) = CR)
      /\ At(h) = LF /\ (e = 2 => At(l + 1) = CR)
      /\ \A k \in Nat \ {0} : At(h + k) = Other
  BY <1>2 DEF Lay
<1> HIDE DEF m, At, first, close, length
<1> DEFINE R == <<Tok("request", IF r.http11 THEN 1 ELSE 0)>> \o Eol(r)
           C == IF r.close THEN <<Tok("close", 0)>> \o Eol(r) ELSE <<>>
           F == IF r.fill = 0 THEN <<>> ELSE [k \in 1 .. r.fill |-> Other] \o Eol(r)
           L == IF r.len = -1 THEN <<>> ELSE <<Tok("len", r.len)>> \o Eol(r)
           B == [k \in 1 .. BodyLen(r) |-> Other]
<1>s. Bytes(r) = R \o C \o F \o L \o Eol(r) \o B
  BY DEF Bytes, BodyLen
<1> HIDE DEF R, C, F, L, B
<1>e. <<>> \in Seq(Token) /\ Len(<<>>) = 0
  BY EmptySeq
<1>r. q >= 0 /\ Stands(R, r, 0, q)
  <2>1. first \in Token
    BY Tokens, <1>3 DEF first
  <2>2. PICK s \in Seq(Token) :
          /\ s = R /\ Len(s) = 1 + e
          /\ s[1] = first
          /\ s[Len(s)] = LF /\ (e = 2 => s[2] = CR)
    BY <2>1, LineIs, Zenon DEF R, e, first
  <2>3. \A k \in 1 .. q - 0 : s[k] = At(0 + k)
    BY <1>1, <1>4, <1>8, <2>2
  <2>4. Len(s) = q - 0
    BY <1>1, <1>4, <2>2
  <2> QED
    BY <2>2, <2>3, <2>4 DEF Stands, At, m, e
<1>c. q <= c /\ Stands(C, r, q, c)
  <2>1. CASE r.close
    <3>1. close \in Token
      BY Tokens DEF close
    <3>2. PICK s \in Seq(Token) :
            /\ s = C /\ Len(s) = 1 + e
            /\ s[1] = close
            /\ s[Len(s)] = LF /\ (e = 2 => s[2] = CR)
      BY <2>1, <3>1, LineIs, Zenon DEF C, e, close
    <3>a. c = q + 1 + e
      BY <1>5, <2>1
    <3>b. At(q + 1) = close /\ At(c) = LF /\ (e = 2 => At(q + 2) = CR)
      BY <1>8, <2>1
    <3>3. \A k \in 1 .. c - q : s[k] = At(q + k)
      BY <1>1, <3>a, <3>b, <3>2
    <3>4. Len(s) = c - q /\ q <= c
      BY <1>1, <3>a, <3>2
    <3> QED
      BY <3>2, <3>3, <3>4 DEF Stands, At, m, e
  <2>2. CASE ~r.close
    <3>1. C = <<>> /\ c = q
      BY <1>5, <2>2 DEF C
    <3> QED
      BY <1>e, <3>1 DEF Stands, At, m, e
  <2> QED
    BY <2>1, <2>2
<1>f. c <= f /\ Stands(F, r, c, f)
  <2>1. CASE r.fill # 0
    <3>1. PICK n \in Nat : n = r.fill
      BY <1>3
    <3>2. PICK s \in Seq(Token) :
            /\ s = F /\ Len(s) = n + e
            /\ \A k \in 1 .. n : s[k] = Other
            /\ s[Len(s)] = LF /\ (e = 2 => s[n + 1] = CR)
      BY <2>1, <3>1, FillIs, Zenon DEF F, e
    <3>a. f = c + n + e
      BY <1>6, <2>1, <3>1
    <3>b. /\ \A k \in 1 .. n : At(c + k) = Other
          /\ At(f) = LF /\ (e = 2 => At(c + n + 1) = CR)
      BY <1>8, <2>1, <3>1
    <3>3. \A k \in 1 .. f - c : s[k] = At(c + k)
      BY <1>1, <3>a, <3>b, <3>2
    <3>4. Len(s) = f - c /\ c <= f
      BY <1>1, <3>a, <3>2
    <3> QED
      BY <3>2, <3>3, <3>4 DEF Stands, At, m, e
  <2>2. CASE r.fill = 0
    <3>1. F = <<>> /\ c = f
      BY <1>6, <2>2 DEF F
    <3> QED
      BY <1>e, <3>1 DEF Stands, At, m, e
  <2> QED
    BY <2>1, <2>2
<1>l. f <= l /\ Stands(L, r, f, l)
  <2>1. CASE r.len # -1
    <3>1. length \in Token
      BY <1>3, <2>1, Tokens DEF length
    <3>2. PICK s \in Seq(Token) :
            /\ s = L /\ Len(s) = 1 + e
            /\ s[1] = length
            /\ s[Len(s)] = LF /\ (e = 2 => s[2] = CR)
      BY <2>1, <3>1, LineIs, Zenon DEF L, e, length
    <3>a. l = f + 1 + e
      BY <1>7, <2>1
    <3>b. At(f + 1) = length /\ At(l) = LF /\ (e = 2 => At(f + 2) = CR)
      BY <1>8, <2>1
    <3>3. \A k \in 1 .. l - f : s[k] = At(f + k)
      BY <1>1, <3>a, <3>b, <3>2
    <3>4. Len(s) = l - f /\ f <= l
      BY <1>1, <3>a, <3>2
    <3> QED
      BY <3>2, <3>3, <3>4 DEF Stands, At, m, e
  <2>2. CASE r.len = -1
    <3>1. L = <<>> /\ l = f
      BY <1>7, <2>2 DEF L
    <3> QED
      BY <1>e, <3>1 DEF Stands, At, m, e
  <2> QED
    BY <2>1, <2>2
<1>h. l <= h /\ Stands(Eol(r), r, l, h)
  <2>1. PICK s \in Seq(Token) : /\ s = Eol(r) /\ Len(s) = e
                                /\ s[Len(s)] = LF /\ (e = 2 => s[1] = CR)
    BY EolIs, Zenon DEF e
  <2>2. \A k \in 1 .. h - l : s[k] = At(l + k)
    BY <1>1, <1>4, <1>8, <2>1
  <2>3. Len(s) = h - l /\ l <= h
    BY <1>1, <1>4, <2>1
  <2> QED
    BY <2>1, <2>2, <2>3 DEF Stands, At, m, e
<1>b. BodyLen(r) \in Nat /\ Stands(B, r, h, h + BodyLen(r))
  <2>1. BodyLen(r) \in Nat
    BY <1>3 DEF BodyLen
  <2>2. PICK s \in Seq(Token) : s = B /\ Len(s) = BodyLen(r)
                                /\ \A k \in 1 .. BodyLen(r) : s[k] = Other
    BY <2>1, OthersAre, Zenon DEF B
  <2>3. \A k \in 1 .. (h + BodyLen(r)) - h : s[k] = At(h + k)
    BY <1>8, <2>1, <2>2
  <2> QED
    BY <2>1, <2>2, <2>3 DEF Stands, At, m, e
<1>9. Stands(R \o C, r, 0, c)
  BY <1>r, <1>c, StandsOn, Zenon
<1>10. Stands(R \o C \o F, r, 0, f)
  BY <1>9, <1>f, StandsOn, Zenon
<1>11. Stands(R \o C \o F \o L, r, 0, l)
  BY <1>10, <1>l, StandsOn, Zenon
<1>12. Stands(R \o C \o F \o L \o Eol(r), r, 0, h)
  BY <1>11, <1>h, StandsOn, Zenon
<1>13. Stands(R \o C \o F \o L \o Eol(r) \o B, r, 0, h + BodyLen(r))
  <2>1. h <= h + BodyLen(r) /\ h + BodyLen(r) \in Nat
    BY <1>b
  <2> QED
    BY <1>12, <1>b, <2>1, StandsOn, Zenon
<1> QED
  BY <1>4, <1>s, <1>13, Zenon DEF m, e

-----------------------------------------------------------------------------
(* The head as the server keeps it.                                         *)

LEMMA TokensDiffer ==
  /\ CR # LF /\ Other \notin {CR, LF}
  /\ \A n : {Tok("request", n), Tok("close", n), Tok("len", n)} \cap {CR, LF, Other} = {}
BY DEF Tok, CR, LF, Other

LEMMA PlacesOfLay ==
  ASSUME NEW r \in Request, NEW e \in {1, 2},
         NEW q \in Nat, NEW c \in Nat, NEW f \in Nat, NEW l \in Nat, NEW h \in Nat,
         Lay(r, e, q, c, f, l, h)
  PROVE  /\ q = 1 + e /\ h = l + e
         /\ (r.close => c = q + 1 + e) /\ (~r.close => c = q)
         /\ (r.fill # 0 => f = c + r.fill + e) /\ (r.fill = 0 => f = c)
         /\ (r.len # -1 => l = f + 1 + e) /\ (r.len = -1 => l = f)
         /\ q <= c /\ c <= f /\ f <= l
<1>1. q = 1 + e /\ h = l + e
  BY DEF Lay
<1>2. (r.close => c = q + 1 + e) /\ (~r.close => c = q)
  BY DEF Lay
<1>3. (r.fill # 0 => f = c + r.fill + e) /\ (r.fill = 0 => f = c)
  BY DEF Lay
<1>4. (r.len # -1 => l = f + 1 + e) /\ (r.len = -1 => l = f)
  BY DEF Lay
<1>5. r.fill \in Nat
  BY DEF Request
<1>6. q <= c
  BY <1>2
<1>7. c <= f
  BY <1>3, <1>5
<1>8. f <= l
  BY <1>4
<1> QED
  BY <1>1, <1>2, <1>3, <1>4, <1>6, <1>7, <1>8

\* Every line of the head ends in \r\n.
LEMMA LinesEnd ==
  ASSUME NEW r \in Request,
         NEW q \in Nat, NEW c \in Nat, NEW f \in Nat, NEW l \in Nat, NEW h \in Nat,
         Lay(r, 2, q, c, f, l, h)
  PROVE  LET At(k) == TokAt(r, EndOf(r, 2), 2, k)
         IN /\ At(q) = LF /\ At(q - 1) = CR
            /\ At(c) = LF /\ At(c - 1) = CR
            /\ At(f) = LF /\ At(f - 1) = CR
            /\ At(l) = LF /\ At(l - 1) = CR
            /\ At(h) = LF /\ At(h - 1) = CR
<1> DEFINE At(k) == TokAt(r, EndOf(r, 2), 2, k)
<1>1. /\ q = 3 /\ h = l + 2
      /\ (r.close => c = q + 3) /\ (~r.close => c = q)
      /\ (r.fill # 0 => f = c + r.fill + 2) /\ (r.fill = 0 => f = c)
      /\ (r.len # -1 => l = f + 3) /\ (r.len = -1 => l = f)
  BY PlacesOfLay
<1>2. /\ At(q) = LF /\ At(2) = CR
      /\ r.close => At(c) = LF /\ At(q + 2) = CR
      /\ r.fill # 0 => At(f) = LF /\ At(c + r.fill + 1) = CR
      /\ r.len # -1 => At(l) = LF /\ At(f + 2) = CR
      /\ At(h) = LF /\ At(l + 1) = CR
  BY DEF Lay
<1>3. r.fill \in Nat /\ r.len \in Nat \cup {-1} /\ r.close \in BOOLEAN
  BY DEF Request
<1> HIDE DEF At
<1>q. At(q) = LF /\ At(q - 1) = CR
  BY <1>1, <1>2
<1>c. At(c) = LF /\ At(c - 1) = CR
  <2>1. CASE r.close
    BY <1>1, <1>2, <2>1
  <2>2. CASE ~r.close
    BY <1>1, <1>q, <2>2
  <2> QED
    BY <2>1, <2>2
<1>f. At(f) = LF /\ At(f - 1) = CR
  <2>1. CASE r.fill # 0
    <3>1. f - 1 = c + r.fill + 1
      BY <1>1, <1>3, <2>1
    <3> QED
      BY <1>2, <2>1, <3>1
  <2>2. CASE r.fill = 0
    BY <1>1, <1>c, <2>2
  <2> QED
    BY <2>1, <2>2
<1>l. At(l) = LF /\ At(l - 1) = CR
  <2>1. CASE r.len # -1
    BY <1>1, <1>2, <2>1
  <2>2. CASE r.len = -1
    BY <1>1, <1>f, <2>2
  <2> QED
    BY <2>1, <2>2
<1>h. At(h) = LF /\ At(h - 1) = CR
  BY <1>1, <1>2
<1> QED
  BY <1>q, <1>c, <1>f, <1>l, <1>h DEF At

\* What can only stand in one place.
LEMMA WhereItStands ==
  ASSUME NEW r \in Request, NEW e \in {1, 2},
         NEW q \in Nat, NEW c \in Nat, NEW f \in Nat, NEW l \in Nat, NEW h \in Nat,
         Lay(r, e, q, c, f, l, h), NEW k \in Nat
  PROVE  LET t == TokAt(r, EndOf(r, e), e, k)
         IN /\ t = LF => k = q \/ k = c \/ k = f \/ k = l \/ k = h
            /\ t.k = "request" => k = 1
            /\ t.k = "close" => r.close /\ k = q + 1
            /\ t.k = "len" => r.len # -1 /\ k = f + 1
<1> DEFINE m == EndOf(r, e)
<1>1. q = m.request /\ c = m.close /\ f = m.fill /\ l = m.len /\ h = m.head
  BY DEF Lay
<1> HIDE DEF m
<1>2. TokAt(r, m, e, k) =
        IF k = 1 THEN Tok("request", IF r.http11 THEN 1 ELSE 0)
        ELSE IF k \in {q, c, f, l, h} THEN LF
        ELSE IF e = 2 /\ k + 1 \in {q, c, f, l, h} THEN CR
        ELSE IF r.close /\ k = q + 1 THEN Tok("close", 0)
        ELSE IF r.len # -1 /\ k = f + 1 THEN Tok("len", r.len)
        ELSE Other
  BY <1>1 DEF TokAt, Ends
<1>3. /\ TokAt(r, m, e, k) = LF => k \in {q, c, f, l, h}
      /\ TokAt(r, m, e, k).k = "request" => k = 1
      /\ TokAt(r, m, e, k).k = "close" => r.close /\ k = q + 1
      /\ TokAt(r, m, e, k).k = "len" => r.len # -1 /\ k = f + 1
  BY <1>2 DEF Tok, CR, LF, Other
<1> QED
  BY <1>3 DEF m

\* How much of the head has been read, line by line, if lines end in \n alone.
KeptByLine(r, q, c, f, l, h, q2, c2, f2, l2, h2) ==
  /\ \A i \in 0 .. q - 1 : Kept(r, i) = i
  /\ \A i \in q .. c - 1 : Kept(r, i) = q2 + (i - q)
  /\ \A i \in c .. f - 1 : Kept(r, i) = c2 + (i - c)
  /\ \A i \in f .. l - 1 : Kept(r, i) = f2 + (i - f)
  /\ Kept(r, l) = l2 /\ Kept(r, h) = h2

LEMMA KeptIs ==
  ASSUME NEW r \in Request, EolLen(r) = 1,
         NEW q \in Nat, NEW c \in Nat, NEW f \in Nat, NEW l \in Nat, NEW h \in Nat,
         Lay(r, 1, q, c, f, l, h),
         NEW q2 \in Nat, NEW c2 \in Nat, NEW f2 \in Nat, NEW l2 \in Nat, NEW h2 \in Nat,
         Lay(r, 2, q2, c2, f2, l2, h2)
  PROVE  KeptByLine(r, q, c, f, l, h, q2, c2, f2, l2, h2)
<1>1. /\ q = 2 /\ h = l + 1
      /\ (r.close => c = q + 2) /\ (~r.close => c = q)
      /\ (r.fill # 0 => f = c + r.fill + 1) /\ (r.fill = 0 => f = c)
      /\ (r.len # -1 => l = f + 2) /\ (r.len = -1 => l = f)
      /\ q <= c /\ c <= f /\ f <= l
  <2>1. /\ q = 1 + 1 /\ h = l + 1
        /\ (r.close => c = q + 1 + 1) /\ (~r.close => c = q)
        /\ (r.fill # 0 => f = c + r.fill + 1) /\ (r.fill = 0 => f = c)
        /\ (r.len # -1 => l = f + 1 + 1) /\ (r.len = -1 => l = f)
        /\ q <= c /\ c <= f /\ f <= l
    <3>1. 1 \in {1, 2}
      OBVIOUS
    <3> QED
      BY <3>1, PlacesOfLay, Zenon
  <2> QED
    BY <2>1
<1>2. /\ q2 = 3 /\ h2 = l2 + 2
      /\ (r.close => c2 = q2 + 3) /\ (~r.close => c2 = q2)
      /\ (r.fill # 0 => f2 = c2 + r.fill + 2) /\ (r.fill = 0 => f2 = c2)
      /\ (r.len # -1 => l2 = f2 + 3) /\ (r.len = -1 => l2 = f2)
      /\ q2 <= c2 /\ c2 <= f2 /\ f2 <= l2
  <2>1. /\ q2 = 1 + 2 /\ h2 = l2 + 2
        /\ (r.close => c2 = q2 + 1 + 2) /\ (~r.close => c2 = q2)
        /\ (r.fill # 0 => f2 = c2 + r.fill + 2) /\ (r.fill = 0 => f2 = c2)
        /\ (r.len # -1 => l2 = f2 + 1 + 2) /\ (r.len = -1 => l2 = f2)
        /\ q2 <= c2 /\ c2 <= f2 /\ f2 <= l2
    <3>1. 2 \in {1, 2}
      OBVIOUS
    <3> QED
      BY <3>1, PlacesOfLay, Zenon
  <2> QED
    BY <2>1
<1>3. r.fill \in Nat /\ r.len \in Nat \cup {-1} /\ r.close \in BOOLEAN
  BY DEF Request
<1>4. ASSUME NEW i \in Nat
      PROVE  Kept(r, i) = i + (IF i >= q THEN 1 ELSE 0)
                            + (IF r.close /\ i >= c THEN 1 ELSE 0)
                            + (IF r.fill # 0 /\ i >= f THEN 1 ELSE 0)
                            + (IF r.len # -1 /\ i >= l THEN 1 ELSE 0)
                            + (IF i >= h THEN 1 ELSE 0)
  <2> DEFINE m == EndOf(r, EolLen(r))
  <2>1. q = m.request /\ c = m.close /\ f = m.fill /\ l = m.len /\ h = m.head
    BY DEF Lay
  <2> HIDE DEF m
  <2>2. Kept(r, i) = i + (IF i >= m.request THEN 1 ELSE 0)
                       + (IF r.close /\ i >= m.close THEN 1 ELSE 0)
                       + (IF r.fill # 0 /\ i >= m.fill THEN 1 ELSE 0)
                       + (IF r.len # -1 /\ i >= m.len THEN 1 ELSE 0)
                       + (IF i >= m.head THEN 1 ELSE 0)
    BY DEF Kept, m
  <2> QED
    BY <2>1, <2>2
\* What is added, up to the end of each line.
<1>5. PICK C \in {0, 1} : (r.close => C = 1) /\ (~r.close => C = 0)
  OBVIOUS
<1>6. PICK F \in {0, 1} : (r.fill # 0 => F = 1) /\ (r.fill = 0 => F = 0)
  OBVIOUS
<1>7. PICK L \in {0, 1} : (r.len # -1 => L = 1) /\ (r.len = -1 => L = 0)
  OBVIOUS
<1>8. c2 = c + 1 + C /\ f2 = f + 1 + C + F /\ l2 = l + 1 + C + F + L
  <2>1. c2 = c + 1 + C
    BY <1>1, <1>2, <1>5
  <2>2. f2 = f + 1 + C + F
    BY <1>1, <1>2, <1>3, <1>6, <2>1
  <2>3. l2 = l + 1 + C + F + L
    BY <1>1, <1>2, <1>7, <2>2
  <2> QED
    BY <2>1, <2>2, <2>3
<1>9. ASSUME NEW i \in Nat
      PROVE  Kept(r, i) = i + (IF i >= q THEN 1 ELSE 0) + (IF i >= c THEN C ELSE 0)
                            + (IF i >= f THEN F ELSE 0) + (IF i >= l THEN L ELSE 0)
                            + (IF i >= h THEN 1 ELSE 0)
  <2>1. (IF r.close /\ i >= c THEN 1 ELSE 0) = (IF i >= c THEN C ELSE 0)
    BY <1>5
  <2>2. (IF r.fill # 0 /\ i >= f THEN 1 ELSE 0) = (IF i >= f THEN F ELSE 0)
    BY <1>6
  <2>3. (IF r.len # -1 /\ i >= l THEN 1 ELSE 0) = (IF i >= l THEN L ELSE 0)
    BY <1>7
  <2> QED
    BY <1>4, <2>1, <2>2, <2>3
<1>10. q <= c /\ c <= f /\ f <= l /\ l < h /\ h2 = l2 + 2 /\ h = l + 1 /\ q2 = q + 1
  BY <1>1, <1>2
<1>11. \A i \in 0 .. q - 1 : Kept(r, i) = i
  BY <1>9, <1>10
<1>12. \A i \in q .. c - 1 : Kept(r, i) = q2 + (i - q)
  BY <1>9, <1>10
<1>13. \A i \in c .. f - 1 : Kept(r, i) = c2 + (i - c)
  BY <1>8, <1>9, <1>10
<1>14. \A i \in f .. l - 1 : Kept(r, i) = f2 + (i - f)
  <2> TAKE i \in f .. l - 1
  <2>1. i \in Nat /\ i >= q /\ i >= c /\ i >= f /\ ~(i >= l) /\ ~(i >= h)
    BY <1>10
  <2>2. Kept(r, i) = i + 1 + C + F
    BY <1>9, <2>1
  <2> QED
    BY <1>8, <2>1, <2>2
<1>15. Kept(r, l) = l2 /\ Kept(r, h) = h2
  BY <1>8, <1>9, <1>10
<1> QED
  BY <1>11, <1>12, <1>13, <1>14, <1>15 DEF KeptByLine

\* The next byte of the head goes where it belongs; where a line ends in \n alone
\* the \r in front of it was missing.
NextIs(r, i) ==
  LET At(k) == TokAt(r, EndOf(r, EolLen(r)), EolLen(r), k)
      In(k) == TokAt(r, EndOf(r, 2), 2, k)
      n     == Kept(r, i)
  IN /\ n \in Nat /\ Kept(r, i + 1) <= EndOf(r, 2).head
     /\ Kept(r, i + 1) = EndOf(r, 2).head <=> i + 1 = EndOf(r, EolLen(r)).head
     /\ \/ /\ At(i + 1) # LF \/ (n # 0 /\ In(n) = CR)
           /\ Kept(r, i + 1) = n + 1 /\ In(n + 1) = At(i + 1)
        \/ /\ At(i + 1) = LF /\ n # 0 /\ In(n) # CR
           /\ Kept(r, i + 1) = n + 2 /\ In(n + 1) = CR /\ In(n + 2) = LF

LEMMA NextOfCrLf ==
  ASSUME NEW r \in Request, EolLen(r) = 2, NEW i \in 0 .. EndOf(r, EolLen(r)).head - 1
  PROVE  NextIs(r, i)
<1> DEFINE At(k) == TokAt(r, EndOf(r, 2), 2, k)
<1>1. PICK q \in Nat, c \in Nat, f \in Nat, l \in Nat, h \in Nat : Lay(r, 2, q, c, f, l, h)
  <2>1. 2 \in {1, 2}
    OBVIOUS
  <2> QED
    BY <2>1, LaidOut, Zenon
<1>2. /\ At(q) = LF /\ At(q - 1) = CR
      /\ At(c) = LF /\ At(c - 1) = CR
      /\ At(f) = LF /\ At(f - 1) = CR
      /\ At(l) = LF /\ At(l - 1) = CR
      /\ At(h) = LF /\ At(h - 1) = CR
  BY <1>1, LinesEnd
<1>3. h = EndOf(r, 2).head
  BY <1>1 DEF Lay
<1>4. i \in Nat /\ i + 1 <= h
  BY <1>3
<1>5. At(i + 1) = LF => i + 1 = q \/ i + 1 = c \/ i + 1 = f \/ i + 1 = l \/ i + 1 = h
  <2>1. 2 \in {1, 2}
    OBVIOUS
  <2>2. PICK k \in Nat : k = i + 1
    BY <1>4
  <2>3. At(k) = LF => k = q \/ k = c \/ k = f \/ k = l \/ k = h
    BY <1>1, <2>1, WhereItStands
  <2> QED
    BY <2>2, <2>3
<1>6. Kept(r, i) = i /\ Kept(r, i + 1) = i + 1
  BY DEF Kept
<1>7. At(1) # LF
  <2>1. At(1) = Tok("request", IF r.http11 THEN 1 ELSE 0)
    BY <1>1 DEF Lay
  <2> QED
    BY <2>1 DEF Tok, LF
<1> HIDE DEF At
<1>8. At(i + 1) # LF \/ (i # 0 /\ At(i) = CR)
  <2>1. CASE i = 0
    BY <1>7, <2>1
  <2>2. CASE i # 0 /\ At(i + 1) = LF
    BY <1>2, <1>4, <1>5, <2>2
  <2> QED
    BY <2>1, <2>2
<1> QED
  BY <1>3, <1>4, <1>6, <1>8 DEF NextIs, At

LEMMA NextOfLf ==
  ASSUME NEW r \in Request, EolLen(r) = 1, NEW i \in 0 .. EndOf(r, EolLen(r)).head - 1
  PROVE  NextIs(r, i)
<1> DEFINE At(k) == TokAt(r, EndOf(r, 1), 1, k)
           In(k) == TokAt(r, EndOf(r, 2), 2, k)
           K(k) == Kept(r, k)
           first == Tok("request", IF r.http11 THEN 1 ELSE 0)
           close == Tok("close", 0)
           length == Tok("len", r.len)
<1>1. 1 \in {1, 2} /\ 2 \in {1, 2}
  OBVIOUS
<1>2. PICK q \in Nat, c \in Nat, f \in Nat, l \in Nat, h \in Nat : Lay(r, 1, q, c, f, l, h)
  BY <1>1, LaidOut, Zenon
<1>3. PICK q2 \in Nat, c2 \in Nat, f2 \in Nat, l2 \in Nat, h2 \in Nat :
        Lay(r, 2, q2, c2, f2, l2, h2)
  BY <1>1, LaidOut, Zenon
<1>4. h = EndOf(r, EolLen(r)).head /\ h2 = EndOf(r, 2).head
  BY <1>2, <1>3 DEF Lay
<1>5. i \in Nat /\ i + 1 <= h
  BY <1>4
<1>6. /\ q = 2 /\ h = l + 1
      /\ (r.close => c = q + 2) /\ (~r.close => c = q)
      /\ (r.fill # 0 => f = c + r.fill + 1) /\ (r.fill = 0 => f = c)
      /\ (r.len # -1 => l = f + 2) /\ (r.len = -1 => l = f)
      /\ q <= c /\ c <= f /\ f <= l
  <2>1. /\ q = 1 + 1 /\ h = l + 1
        /\ (r.close => c = q + 1 + 1) /\ (~r.close => c = q)
        /\ (r.fill # 0 => f = c + r.fill + 1) /\ (r.fill = 0 => f = c)
        /\ (r.len # -1 => l = f + 1 + 1) /\ (r.len = -1 => l = f)
        /\ q <= c /\ c <= f /\ f <= l
    BY <1>1, <1>2, PlacesOfLay, Zenon
  <2> QED
    BY <2>1
<1>7. /\ q2 = 3 /\ h2 = l2 + 2
      /\ (r.close => c2 = q2 + 3) /\ (~r.close => c2 = q2)
      /\ (r.fill # 0 => f2 = c2 + r.fill + 2) /\ (r.fill = 0 => f2 = c2)
      /\ (r.len # -1 => l2 = f2 + 3) /\ (r.len = -1 => l2 = f2)
      /\ q2 <= c2 /\ c2 <= f2 /\ f2 <= l2
  <2>1. /\ q2 = 1 + 2 /\ h2 = l2 + 2
        /\ (r.close => c2 = q2 + 1 + 2) /\ (~r.close => c2 = q2)
        /\ (r.fill # 0 => f2 = c2 + r.fill + 2) /\ (r.fill = 0 => f2 = c2)
        /\ (r.len # -1 => l2 = f2 + 1 + 2) /\ (r.len = -1 => l2 = f2)
        /\ q2 <= c2 /\ c2 <= f2 /\ f2 <= l2
    BY <1>1, <1>3, PlacesOfLay, Zenon
  <2> QED
    BY <2>1
<1>8. /\ \A j \in 0 .. q - 1 : K(j) = j
      /\ \A j \in q .. c - 1 : K(j) = q2 + (j - q)
      /\ \A j \in c .. f - 1 : K(j) = c2 + (j - c)
      /\ \A j \in f .. l - 1 : K(j) = f2 + (j - f)
      /\ K(l) = l2 /\ K(h) = h2
  <2>1. KeptByLine(r, q, c, f, l, h, q2, c2, f2, l2, h2)
    BY <1>2, <1>3, KeptIs, Zenon
  <2> QED
    BY <2>1 DEF KeptByLine
<1>9. /\ At(1) = first /\ At(q) = LF
      /\ r.close => At(q + 1) = close /\ At(c) = LF
      /\ r.fill # 0 => (\A k \in 1 .. r.fill : At(c + k) = Other) /\ At(f) = LF
      /\ r.len # -1 => At(f + 1) = length /\ At(l) = LF
      /\ At(h) = LF
  BY <1>2 DEF Lay
<1>10. /\ In(1) = first /\ In(q2) = LF /\ In(2) = CR
       /\ r.close => In(q2 + 1) = close /\ In(c2) = LF /\ In(q2 + 2) = CR
       /\ r.fill # 0 => /\ \A k \in 1 .. r.fill : In(c2 + k) = Other
                        /\ In(f2) = LF /\ In(c2 + r.fill + 1) = CR
       /\ r.len # -1 => In(f2 + 1) = length /\ In(l2) = LF /\ In(f2 + 2) = CR
       /\ In(h2) = LF /\ In(l2 + 1) = CR
  BY <1>3 DEF Lay
<1>11. In(l2) = LF
  BY <1>3, LinesEnd
<1>12. /\ CR # LF /\ first # CR /\ first # LF /\ close # CR /\ close # LF
       /\ length # CR /\ length # LF /\ Other # CR /\ Other # LF
  BY DEF Tok, CR, LF, Other
<1>13. r.fill \in Nat /\ r.len \in Nat \cup {-1} /\ r.close \in BOOLEAN
  BY DEF Request
<1>14. K(f) = f2
  <2>1. CASE r.len # -1
    BY <1>6, <1>7, <1>8, <2>1
  <2>2. CASE r.len = -1
    BY <1>6, <1>7, <1>8, <2>2
  <2> QED
    BY <2>1, <2>2
<1>15. K(c) = c2
  <2>1. CASE r.fill # 0
    <3>1. c \in c .. f - 1
      BY <1>6, <1>13, <2>1
    <3> QED
      BY <1>8, <3>1
  <2>2. CASE r.fill = 0
    BY <1>6, <1>7, <1>14, <2>2
  <2> QED
    BY <2>1, <2>2
<1>16. K(q) = q2
  <2>1. CASE r.close
    <3>1. q \in q .. c - 1
      BY <1>6, <2>1
    <3> QED
      BY <1>8, <3>1
  <2>2. CASE ~r.close
    BY <1>6, <1>7, <1>15, <2>2
  <2> QED
    BY <2>1, <2>2
<1> HIDE DEF At, In, K, first, close, length
<1> DEFINE Goal == /\ K(i) \in Nat /\ K(i + 1) <= h2 /\ (K(i + 1) = h2 <=> i + 1 = h)
                   /\ \/ /\ At(i + 1) # LF \/ (K(i) # 0 /\ In(K(i)) = CR)
                         /\ K(i + 1) = K(i) + 1 /\ In(K(i) + 1) = At(i + 1)
                      \/ /\ At(i + 1) = LF /\ K(i) # 0 /\ In(K(i)) # CR
                         /\ K(i + 1) = K(i) + 2 /\ In(K(i) + 1) = CR /\ In(K(i) + 2) = LF
<1>18. ASSUME NEW n \in Nat, K(i) = n, K(i + 1) = n + 1, n + 1 <= l2, i + 1 <= l,
              In(n + 1) = At(i + 1), At(i + 1) # LF
       PROVE  Goal
  BY <1>6, <1>7, <1>18
<1>19. ASSUME NEW n \in Nat, K(i) = n, K(i + 1) = n + 2, n # 0, n + 2 <= l2, i + 1 <= l,
              At(i + 1) = LF, In(n) # CR, In(n + 1) = CR, In(n + 2) = LF
       PROVE  Goal
  BY <1>6, <1>7, <1>19
<1>r. ASSUME i < q
      PROVE  Goal
  <2>1. CASE i = 0
    <3>1. K(i) = 0 /\ K(i + 1) = 0 + 1
      BY <1>6, <1>8, <2>1
    <3>2. In(0 + 1) = At(i + 1) /\ At(i + 1) # LF
      BY <1>9, <1>10, <1>12, <2>1
    <3>3. 0 + 1 <= l2 /\ i + 1 <= l /\ 0 \in Nat
      BY <1>6, <1>7, <2>1
    <3> QED
      BY <1>18, <3>1, <3>2, <3>3
  <2>2. CASE i = 1
    <3>1. K(i) = 1 /\ K(i + 1) = 1 + 2
      BY <1>6, <1>7, <1>8, <1>16, <2>2
    <3>2. At(i + 1) = LF /\ In(1) # CR /\ In(1 + 1) = CR /\ In(1 + 2) = LF
      BY <1>6, <1>7, <1>9, <1>10, <1>12, <2>2
    <3>3. 1 + 2 <= l2 /\ i + 1 <= l /\ 1 \in Nat
      BY <1>6, <1>7, <2>2
    <3> QED
      BY <1>19, <3>1, <3>2, <3>3
  <2> QED
    BY <1>5, <1>6, <1>r, <2>1, <2>2
<1>c. ASSUME q <= i, i < c
      PROVE  Goal
  <2>0. r.close /\ c = q + 2 /\ c2 = q2 + 3
    BY <1>6, <1>7, <1>c
  <2>1. CASE i = q
    <3>1. K(i) = q2 /\ K(i + 1) = q2 + 1
      BY <1>6, <1>8, <2>0, <2>1
    <3>2. In(q2 + 1) = At(i + 1) /\ At(i + 1) # LF
      BY <1>9, <1>10, <1>12, <2>0, <2>1
    <3>3. q2 + 1 <= l2 /\ i + 1 <= l
      BY <1>6, <1>7, <2>0, <2>1
    <3> QED
      BY <1>18, <3>1, <3>2, <3>3
  <2>2. CASE i = q + 1
    <3>1. K(i) = q2 + 1 /\ K(i + 1) = (q2 + 1) + 2
      BY <1>6, <1>7, <1>8, <1>15, <2>0, <2>2
    <3>2. At(i + 1) = LF /\ In(q2 + 1) # CR /\ In((q2 + 1) + 1) = CR /\ In((q2 + 1) + 2) = LF
      BY <1>6, <1>7, <1>9, <1>10, <1>12, <2>0, <2>2
    <3>3. (q2 + 1) + 2 <= l2 /\ i + 1 <= l /\ q2 + 1 \in Nat /\ q2 + 1 # 0
      BY <1>6, <1>7, <2>0, <2>2
    <3> QED
      BY <1>19, <3>1, <3>2, <3>3
  <2> QED
    BY <1>5, <1>c, <2>0, <2>1, <2>2
<1>f. ASSUME c <= i, i < f
      PROVE  Goal
  <2>0. PICK n \in Nat : n = r.fill /\ n # 0 /\ f = c + n + 1 /\ f2 = c2 + n + 2
    BY <1>6, <1>7, <1>13, <1>f
  <2>1. PICK k \in 0 .. n : i = c + k
    <3>1. i - c \in 0 .. n /\ i = c + (i - c)
      BY <1>5, <1>f, <2>0
    <3> QED
      BY <3>1
  <2>2. K(i) = c2 + k
    BY <1>5, <1>8, <1>f, <2>1
  <2>3. CASE k < n
    <3>1. K(i + 1) = (c2 + k) + 1
      <4>1. i + 1 \in c .. f - 1
        BY <1>5, <1>f, <2>0, <2>1, <2>3
      <4>2. K(i + 1) = c2 + ((i + 1) - c)
        BY <1>8, <4>1
      <4> QED
        BY <1>5, <2>1, <4>2
    <3>2. At(i + 1) = Other /\ In((c2 + k) + 1) = Other
      <4>1. k + 1 \in 1 .. n /\ i + 1 = c + (k + 1) /\ (c2 + k) + 1 = c2 + (k + 1)
        BY <2>1, <2>3
      <4>2. At(c + (k + 1)) = Other
        BY <1>9, <2>0, <4>1
      <4>3. In(c2 + (k + 1)) = Other
        BY <1>10, <2>0, <4>1
      <4> QED
        BY <4>1, <4>2, <4>3
    <3>3. (c2 + k) + 1 <= l2 /\ i + 1 <= l /\ c2 + k \in Nat /\ Other # LF
      BY <1>6, <1>7, <1>12, <2>0, <2>1, <2>3
    <3> QED
      BY <1>18, <2>2, <3>1, <3>2, <3>3
  <2>4. CASE k = n
    <3>1. K(i + 1) = (c2 + n) + 2
      BY <1>14, <2>0, <2>1, <2>4
    <3>2. In(c2 + n) = Other
      BY <1>10, <2>0
    <3>3. At(i + 1) = LF /\ In((c2 + n) + 1) = CR /\ In((c2 + n) + 2) = LF
      <4>1. i + 1 = f /\ (c2 + n) + 2 = f2
        BY <2>0, <2>1, <2>4
      <4>2. At(f) = LF
        BY <1>9, <2>0
      <4>3. In(f2) = LF /\ In(c2 + n + 1) = CR
        BY <1>10, <2>0
      <4> QED
        BY <4>1, <4>2, <4>3
    <3>4. (c2 + n) + 2 <= l2 /\ i + 1 <= l /\ c2 + n \in Nat /\ c2 + n # 0 /\ Other # CR
      BY <1>6, <1>7, <1>12, <2>0, <2>1, <2>4
    <3> QED
      BY <1>19, <2>2, <2>4, <3>1, <3>2, <3>3, <3>4
  <2> QED
    BY <2>1, <2>3, <2>4
<1>l. ASSUME f <= i, i < l
      PROVE  Goal
  <2>0. r.len # -1 /\ l = f + 2 /\ l2 = f2 + 3
    BY <1>6, <1>7, <1>l
  <2>1. CASE i = f
    <3>1. K(i) = f2 /\ K(i + 1) = f2 + 1
      BY <1>6, <1>8, <2>0, <2>1
    <3>2. In(f2 + 1) = At(i + 1) /\ At(i + 1) # LF
      BY <1>9, <1>10, <1>12, <2>0, <2>1
    <3>3. f2 + 1 <= l2 /\ i + 1 <= l
      BY <1>6, <1>7, <2>0, <2>1
    <3> QED
      BY <1>18, <3>1, <3>2, <3>3
  <2>2. CASE i = f + 1
    <3>1. K(i) = f2 + 1 /\ K(i + 1) = (f2 + 1) + 2
      BY <1>6, <1>7, <1>8, <2>0, <2>2
    <3>2. At(i + 1) = LF /\ In(f2 + 1) # CR /\ In((f2 + 1) + 1) = CR /\ In((f2 + 1) + 2) = LF
      BY <1>6, <1>7, <1>9, <1>10, <1>12, <2>0, <2>2
    <3>3. (f2 + 1) + 2 <= l2 /\ i + 1 <= l /\ f2 + 1 \in Nat /\ f2 + 1 # 0
      BY <1>6, <1>7, <2>0, <2>2
    <3> QED
      BY <1>19, <3>1, <3>2, <3>3
  <2> QED
    BY <1>5, <1>l, <2>0, <2>1, <2>2
<1>h. ASSUME i = l
      PROVE  Goal
  <2>1. K(i) = l2 /\ K(i + 1) = l2 + 2 /\ i + 1 = h
    BY <1>6, <1>7, <1>8, <1>h
  <2>2. At(i + 1) = LF /\ In(l2) # CR /\ In(l2 + 1) = CR /\ In(l2 + 2) = LF
    BY <1>7, <1>9, <1>10, <1>11, <1>12, <2>1
  <2> QED
    BY <1>7, <2>1, <2>2
<1>17. Goal
  BY <1>5, <1>6, <1>r, <1>c, <1>f, <1>l, <1>h
<1> QED
  BY <1>4, <1>17 DEF NextIs, K, At, In

LEMMA Next1 ==
  ASSUME NEW r \in Request, NEW i \in 0 .. EndOf(r, EolLen(r)).head - 1
  PROVE  NextIs(r, i)
<1>1. EolLen(r) = 1 \/ EolLen(r) = 2
  BY EolIs
<1> QED
  BY <1>1, NextOfCrLf, NextOfLf, Zenon

LEMMA Added ==
  ASSUME NEW r \in Request, NEW i \in Nat, NextIs(r, i), EndOf(r, 2).head \in Nat,
         EndOf(r, 2).head <= MaxHead, NEW s, HeadIs(r, s, Kept(r, i)), NEW b \in Token,
         b = TokAt(r, EndOf(r, EolLen(r)), EolLen(r), i + 1)
  PROVE  HeadIs(r, AddToHead(s, b), Kept(r, i + 1))
<1> DEFINE In(k) == TokAt(r, EndOf(r, 2), 2, k)
           h == EndOf(r, 2).head
<1>1. PICK n \in Nat : n = Kept(r, i)
  BY DEF NextIs
<1>2. PICK t \in Seq(Token) : t = s /\ Len(t) = n /\ \A k \in 1 .. n : t[k] = In(k)
  BY <1>1 DEF HeadIs
<1>3. /\ Kept(r, i + 1) <= h
      /\ \/ /\ b # LF \/ (n # 0 /\ In(n) = CR)
            /\ Kept(r, i + 1) = n + 1 /\ In(n + 1) = b
         \/ /\ b = LF /\ n # 0 /\ In(n) # CR
            /\ Kept(r, i + 1) = n + 2 /\ In(n + 1) = CR /\ In(n + 2) = LF
  BY <1>1 DEF NextIs
<1>4. CR \in Token /\ LF \in Token
  BY Tokens
<1>5. n # 0 => t # <<>> /\ Last(t) = In(n)
  <2>1. n # 0 => t # <<>>
    BY <1>2, EmptySeq
  <2>2. Last(t) = t[n]
    BY <1>2 DEF Last
  <2>3. n # 0 => t[n] = In(n)
    BY <1>2
  <2> QED
    BY <2>1, <2>2, <2>3
<1>6. n = 0 => t = <<>>
  BY <1>2, EmptySeq
<1> HIDE DEF In, h
<1> DEFINE faked == IF b = LF /\ t # <<>> /\ Last(t) # CR THEN Append(t, CR) ELSE t
<1>7. AddToHead(s, b) = IF Len(faked) # MaxHead THEN Append(faked, b) ELSE faked
  BY <1>2 DEF AddToHead
<1>8. CASE b # LF \/ (n # 0 /\ In(n) = CR)
  <2>1. faked = t /\ Kept(r, i + 1) = n + 1 /\ In(n + 1) = b
    BY <1>3, <1>5, <1>6, <1>8
  <2>2. n # MaxHead
    BY <1>3, <2>1, RecvAssumption DEF h
  <2>3. AddToHead(s, b) = Append(t, b)
    BY <1>2, <1>7, <2>1, <2>2
  <2>4. /\ Append(t, b) \in Seq(Token) /\ Len(Append(t, b)) = n + 1
        /\ Append(t, b)[n + 1] = b
        /\ \A k \in 1 .. n : Append(t, b)[k] = t[k]
    BY <1>2, AppendProperties
  <2> DEFINE u == Append(t, b)
  <2> HIDE DEF u
  <2>5. \A k \in 1 .. n + 1 : u[k] = In(k)
    BY <1>2, <2>1, <2>4 DEF u
  <2> QED
    BY <2>1, <2>3, <2>4, <2>5 DEF HeadIs, u, In
<1>9. CASE b = LF /\ n # 0 /\ In(n) # CR
  <2>1. faked = Append(t, CR) /\ Kept(r, i + 1) = n + 2 /\ In(n + 1) = CR /\ In(n + 2) = LF
    BY <1>3, <1>5, <1>9
  <2>2. PICK u \in Seq(Token) : /\ u = Append(t, CR) /\ Len(u) = n + 1
                                /\ u[n + 1] = CR /\ \A k \in 1 .. n : u[k] = t[k]
    <3>1. /\ Append(t, CR) \in Seq(Token) /\ Len(Append(t, CR)) = n + 1
          /\ Append(t, CR)[n + 1] = CR
          /\ \A k \in 1 .. n : Append(t, CR)[k] = t[k]
      BY <1>2, <1>4, AppendProperties
    <3> QED
      BY <3>1, Zenon
  <2>3. n + 1 # MaxHead
    BY <1>3, <2>1, RecvAssumption DEF h
  <2>4. AddToHead(s, b) = Append(u, b)
    BY <1>7, <2>1, <2>2, <2>3
  <2>5. /\ Append(u, b) \in Seq(Token) /\ Len(Append(u, b)) = n + 2
        /\ Append(u, b)[n + 2] = b
        /\ \A k \in 1 .. n + 1 : Append(u, b)[k] = u[k]
    BY <2>2, AppendProperties
  <2> DEFINE v == Append(u, b)
  <2> HIDE DEF v
  <2>6. \A k \in 1 .. n + 2 : v[k] = In(k)
    BY <1>2, <1>9, <2>1, <2>2, <2>5 DEF v
  <2> QED
    BY <2>1, <2>4, <2>5, <2>6 DEF HeadIs, v, In
<1> QED
  BY <1>3, <1>8, <1>9

\* Four places in a row.
LEMMA Four ==
  ASSUME NEW S, NEW s \in Seq(S), NEW a \in S, NEW b \in S, NEW c \in S, NEW d \in S
  PROVE  \A k \in 1 .. Len(s) - 3 :
           SubSeq(s, k, k + 3) = <<a, b, c, d>> <=>
             s[k] = a /\ s[k + 1] = b /\ s[k + 2] = c /\ s[k + 3] = d
<1> TAKE k \in 1 .. Len(s) - 3
<1> DEFINE t == SubSeq(s, k, k + 3)
           u == <<a, b, c, d>>
<1>1. PICK n \in Nat : n = Len(s)
  BY LenProperties
<1>2. k \in Nat /\ k >= 1 /\ k + 3 <= n
  BY <1>1
<1>3. /\ t \in Seq(S) /\ Len(t) = 4
      /\ \A i \in 1 .. 4 : t[i] = s[k + i - 1]
  BY <1>1, <1>2, SubSeqProperties
<1>4. /\ u \in Seq(S) /\ Len(u) = 4
      /\ u[1] = a /\ u[2] = b /\ u[3] = c /\ u[4] = d
  OBVIOUS
<1> HIDE DEF t, u
<1>5. t[1] = s[k] /\ t[2] = s[k + 1] /\ t[3] = s[k + 2] /\ t[4] = s[k + 3]
  <2>1. t[1] = s[k + 1 - 1] /\ t[2] = s[k + 2 - 1] /\ t[3] = s[k + 3 - 1] /\ t[4] = s[k + 4 - 1]
    BY <1>3
  <2>2. k + 1 - 1 = k /\ k + 2 - 1 = k + 1 /\ k + 3 - 1 = k + 2 /\ k + 4 - 1 = k + 3
    BY <1>2
  <2> QED
    BY <2>1, <2>2
<1>6. ASSUME t[1] = a, t[2] = b, t[3] = c, t[4] = d
      PROVE  t = u
  <2>1. \A i \in 1 .. 4 : t[i] = u[i]
    BY <1>4, <1>6
  <2> QED
    BY <1>3, <1>4, <2>1, SeqEqual
<1> QED
  BY <1>4, <1>5, <1>6 DEF t, u

\* The empty line that ends the head is found when it is complete, and not before.
LEMMA HeadEnds ==
  ASSUME NEW r \in Request, NEW n \in Nat, n <= EndOf(r, 2).head, EndOf(r, 2).head \in Nat,
         NEW s, HeadIs(r, s, n), NEW b \in Token,
         n = EndOf(r, 2).head => b = LF
  PROVE  EndsHead(s, b) <=> n = EndOf(r, 2).head
<1> DEFINE In(k) == TokAt(r, EndOf(r, 2), 2, k)
<1>1. 2 \in {1, 2}
  OBVIOUS
<1>2. PICK q \in Nat, c \in Nat, f \in Nat, l \in Nat, h \in Nat : Lay(r, 2, q, c, f, l, h)
  BY <1>1, LaidOut, Zenon
<1>3. h = EndOf(r, 2).head
  BY <1>2 DEF Lay
<1>4. /\ q = 3 /\ h = l + 2
      /\ (r.close => c = q + 3) /\ (~r.close => c = q)
      /\ (r.fill # 0 => f = c + r.fill + 2) /\ (r.fill = 0 => f = c)
      /\ (r.len # -1 => l = f + 3) /\ (r.len = -1 => l = f)
      /\ q <= c /\ c <= f /\ f <= l
  <2>1. /\ q = 1 + 2 /\ h = l + 2
        /\ (r.close => c = q + 1 + 2) /\ (~r.close => c = q)
        /\ (r.fill # 0 => f = c + r.fill + 2) /\ (r.fill = 0 => f = c)
        /\ (r.len # -1 => l = f + 1 + 2) /\ (r.len = -1 => l = f)
        /\ q <= c /\ c <= f /\ f <= l
    BY <1>1, <1>2, PlacesOfLay, Zenon
  <2> QED
    BY <2>1
<1>5. r.fill \in Nat
  BY DEF Request
<1>6. \A k \in Nat : In(k) = LF => k = q \/ k = c \/ k = f \/ k = l \/ k = h
  <2>1. ASSUME NEW k \in Nat, In(k) = LF
        PROVE  k = q \/ k = c \/ k = f \/ k = l \/ k = h
    <3>1. /\ In(k) = LF => k = q \/ k = c \/ k = f \/ k = l \/ k = h
          /\ In(k).k = "request" => k = 1
          /\ In(k).k = "close" => r.close /\ k = q + 1
          /\ In(k).k = "len" => r.len # -1 /\ k = f + 1
      BY <1>1, <1>2, WhereItStands, SMTT(20)
    <3> QED
      BY <2>1, <3>1, Zenon
  <2> QED
    BY <2>1
<1>7. In(l) = LF /\ In(l - 1) = CR /\ In(h) = LF /\ In(h - 1) = CR
  BY <1>2, LinesEnd
\* Two lines are never one byte apart, but for the empty one.
<1>8. \A k \in Nat : In(k) = LF /\ In(k + 2) = LF => k + 2 = h
  <2> SUFFICES ASSUME NEW k \in Nat, In(k) = LF, In(k + 2) = LF
               PROVE  k + 2 = h
    OBVIOUS
  <2> HIDE DEF In
  <2>1. k = q \/ k = c \/ k = f \/ k = l \/ k = h
    BY <1>6
  <2>2. k + 2 = q \/ k + 2 = c \/ k + 2 = f \/ k + 2 = l \/ k + 2 = h
    BY <1>6
  <2>3. c = q \/ c = q + 3
    BY <1>4
  <2>4. f = c \/ f >= c + 3
    BY <1>4, <1>5
  <2>5. l = f \/ l = f + 3
    BY <1>4
  <2> QED
    BY <1>4, <2>1, <2>2, <2>3, <2>4, <2>5
<1> HIDE DEF In
<1>9. PICK t \in Seq(Token) : t = s /\ Len(t) = n /\ \A k \in 1 .. n : t[k] = In(k)
  BY DEF HeadIs, In
<1>10. EndsHead(s, b) <=>
         b = LF /\ \E k \in 1 .. n - 3 : SubSeq(t, k, k + 3) = <<CR, LF, CR, LF>>
  BY <1>9 DEF EndsHead
<1>11. \A k \in 1 .. n - 3 :
         SubSeq(t, k, k + 3) = <<CR, LF, CR, LF>> <=>
           t[k] = CR /\ t[k + 1] = LF /\ t[k + 2] = CR /\ t[k + 3] = LF
  <2>1. CR \in Token /\ LF \in Token
    BY Tokens
  <2>2. \A k \in 1 .. Len(t) - 3 :
          SubSeq(t, k, k + 3) = <<CR, LF, CR, LF>> <=>
            t[k] = CR /\ t[k + 1] = LF /\ t[k + 2] = CR /\ t[k + 3] = LF
    BY <2>1, Four, SMT
  <2>3. Len(t) = n
    BY <1>9
  <2> QED
    BY <2>2, <2>3, Zenon
<1>12. ASSUME NEW k \in 1 .. n - 3, t[k] = CR, t[k + 1] = LF, t[k + 2] = CR, t[k + 3] = LF
       PROVE  n = h
  <2>1. In(k + 1) = LF /\ In((k + 1) + 2) = LF
    BY <1>9, <1>12
  <2>2. (k + 1) + 2 = h
    BY <1>8, <2>1
  <2> QED
    BY <1>3, <2>2
<1>13. ASSUME n = h
       PROVE  \E k \in 1 .. n - 3 : t[k] = CR /\ t[k + 1] = LF /\ t[k + 2] = CR /\ t[k + 3] = LF
  <2>1. PICK k \in 1 .. n - 3 : k = n - 3
    BY <1>4, <1>13
  <2>2. k = l - 1 /\ k + 1 = l /\ k + 2 = h - 1 /\ k + 3 = h
    BY <1>4, <1>13, <2>1
  <2>3. t[k] = CR /\ t[k + 1] = LF /\ t[k + 2] = CR /\ t[k + 3] = LF
    BY <1>4, <1>7, <1>9, <1>13, <2>2
  <2> QED
    BY <2>3
<1> QED
  BY <1>3, <1>10, <1>11, <1>12, <1>13

\* What the lines of the whole head say.
LEMMA Parsed ==
  ASSUME NEW r \in Request, NEW s, HeadIs(r, s, EndOf(r, 2).head)
  PROVE  /\ Lines(s, "request") # {}
         /\ (Lines(s, "len") = {}) <=> (r.len = -1)
         /\ ContentLength(s) = BodyLen(r)
         /\ WantsChunks(s, FALSE) <=> r.http11 /\ ~r.close
<1> DEFINE In(k) == TokAt(r, EndOf(r, 2), 2, k)
<1>1. 2 \in {1, 2}
  OBVIOUS
<1>2. PICK q \in Nat, c \in Nat, f \in Nat, l \in Nat, h \in Nat : Lay(r, 2, q, c, f, l, h)
  BY <1>1, LaidOut, Zenon
<1>3. h = EndOf(r, 2).head
  BY <1>2 DEF Lay
<1>4. /\ q = 3 /\ h = l + 2
      /\ (r.close => c = q + 3)
      /\ (r.len # -1 => l = f + 3)
      /\ q <= c /\ c <= f /\ f <= l
  <2>1. /\ q = 1 + 2 /\ h = l + 2
        /\ (r.close => c = q + 1 + 2) /\ (~r.close => c = q)
        /\ (r.fill # 0 => f = c + r.fill + 2) /\ (r.fill = 0 => f = c)
        /\ (r.len # -1 => l = f + 1 + 2) /\ (r.len = -1 => l = f)
        /\ q <= c /\ c <= f /\ f <= l
    BY <1>1, <1>2, PlacesOfLay, Zenon
  <2> QED
    BY <2>1
<1>5. \A k \in Nat : /\ In(k).k = "request" => k = 1
                     /\ In(k).k = "close" => r.close /\ k = q + 1
                     /\ In(k).k = "len" => r.len # -1 /\ k = f + 1
  BY <1>1, <1>2, WhereItStands
<1>6. /\ In(1) = Tok("request", IF r.http11 THEN 1 ELSE 0)
      /\ r.close => In(q + 1) = Tok("close", 0)
      /\ r.len # -1 => In(f + 1) = Tok("len", r.len)
  BY <1>2 DEF Lay
<1>7. In(q) = LF /\ In(q - 1) = CR /\ In(f) = LF /\ In(f - 1) = CR
  BY <1>2, LinesEnd
<1>8. r.len \in Nat \cup {-1} /\ r.close \in BOOLEAN /\ r.http11 \in BOOLEAN
  BY DEF Request
<1> HIDE DEF In
<1>9. PICK t \in Seq(Token) : t = s /\ Len(t) = h /\ \A k \in 1 .. h : t[k] = In(k)
  BY <1>3 DEF HeadIs, In
<1>10. DOMAIN t = 1 .. h
  BY <1>9, LenProperties
<1>11. \A what : Lines(t, what) = {k \in 1 .. h : In(k).k = what /\ Starts(t, k)}
  BY <1>9, <1>10 DEF Lines
<1>r. Lines(t, "request") = {1} /\ t[1].n = (IF r.http11 THEN 1 ELSE 0)
  <2>1. 1 \in 1 .. h /\ Starts(t, 1) /\ In(1).k = "request"
    BY <1>4, <1>6 DEF Starts, Tok
  <2>2. t[1].n = (IF r.http11 THEN 1 ELSE 0)
    BY <1>6, <1>9, <2>1 DEF Tok
  <2> QED
    BY <1>5, <1>11, <2>1, <2>2
<1>c. Lines(t, "close") = {} <=> ~r.close
  <2>1. CASE r.close
    <3>1. PICK k \in 1 .. h : k = q + 1
      BY <1>4, <2>1
    <3>2. k - 2 = q - 1 /\ k - 1 = q /\ k > 2
      BY <1>4, <3>1
    <3>3. Starts(t, k)
      BY <1>4, <1>7, <1>9, <3>2 DEF Starts
    <3>4. In(k).k = "close"
      BY <1>6, <2>1, <3>1 DEF Tok
    <3> QED
      BY <1>11, <2>1, <3>3, <3>4
  <2>2. CASE ~r.close
    BY <1>5, <1>11, <2>2
  <2> QED
    BY <2>1, <2>2
<1>l. (r.len = -1 => Lines(t, "len") = {}) /\ (r.len # -1 => Lines(t, "len") = {f + 1})
  <2>1. CASE r.len # -1
    <3>1. PICK k \in 1 .. h : k = f + 1
      BY <1>4, <2>1
    <3>2. k - 2 = f - 1 /\ k - 1 = f /\ k > 2
      BY <1>4, <3>1
    <3>3. Starts(t, k)
      BY <1>4, <1>7, <1>9, <3>2 DEF Starts
    <3>4. In(k).k = "len"
      BY <1>6, <2>1, <3>1 DEF Tok
    <3> QED
      BY <1>5, <1>11, <2>1, <3>1, <3>3, <3>4
  <2>2. CASE r.len = -1
    BY <1>5, <1>11, <2>2
  <2> QED
    BY <2>1, <2>2
<1>12. ContentLength(t) = BodyLen(r)
  <2>1. CASE r.len # -1
    <3>1. (CHOOSE k \in {f + 1} : \A j \in {f + 1} : j <= k) = f + 1
      OBVIOUS
    <3>2. ContentLength(t) = t[f + 1].n
      BY <1>l, <2>1, <3>1 DEF ContentLength
    <3>3. t[f + 1] = Tok("len", r.len)
      BY <1>4, <1>6, <1>9, <2>1
    <3> QED
      BY <2>1, <3>2, <3>3 DEF BodyLen, Tok
  <2>2. CASE r.len = -1
    BY <1>l, <2>2 DEF ContentLength, BodyLen
  <2> QED
    BY <2>1, <2>2
<1>13. WantsChunks(t, FALSE) <=> r.http11 /\ ~r.close
  BY <1>8, <1>r, <1>c DEF WantsChunks
<1> QED
  BY <1>9, <1>r, <1>l, <1>12, <1>13

-----------------------------------------------------------------------------
(* Calls of the CGI.                                                        *)

Post == [len : Nat \cup {-1}, buffSize : 0 .. MaxPost, buffLen : 0 .. MaxPost, received : Nat]
Calls == [started : Nat, given : Nat, done : BOOLEAN, again : BOOLEAN, stale : BOOLEAN]

\* The history d after a call, and before it c.
IsAfter(d, c, n, lookup, r) ==
  /\ d \in Calls
  /\ d.started = (IF lookup THEN c.started + 1 ELSE c.started)
  /\ d.given = c.given + n
  /\ d.done = (r = "DONE")
  /\ d.again = (c.again \/ c.done)
  /\ d.stale = (c.stale \/ (c.done /\ ~lookup) \/ (lookup /\ c.started > 0 /\ ~c.done))

LEMMA CalledIs ==
  ASSUME NEW c \in Calls, NEW n \in Nat, NEW lookup \in BOOLEAN, NEW r \in {"MORE", "DONE"}
  PROVE  IsAfter(Called(c, n, lookup, r), c, n, lookup, r)
<1>1. PICK started \in Nat, given \in Nat, done \in BOOLEAN, again \in BOOLEAN, stale \in BOOLEAN :
        /\ started = (IF lookup THEN c.started + 1 ELSE c.started)
        /\ given = c.given + n /\ done = (r = "DONE") /\ again = (c.again \/ c.done)
        /\ stale = (c.stale \/ (c.done /\ ~lookup) \/ (lookup /\ c.started > 0 /\ ~c.done))
  <2>1. c.given + n \in Nat /\ (IF lookup THEN c.started + 1 ELSE c.started) \in Nat
    BY DEF Calls
  <2>2. /\ (c.again \/ c.done) \in BOOLEAN /\ (r = "DONE") \in BOOLEAN
        /\ (c.stale \/ (c.done /\ ~lookup) \/ (lookup /\ c.started > 0 /\ ~c.done)) \in BOOLEAN
    OBVIOUS
  <2> QED
    BY <2>1, <2>2, Zenon
<1> DEFINE d == [started |-> started, given |-> given, done |-> done, again |-> again,
                 stale |-> stale]
<1>2. Called(c, n, lookup, r) = d
  BY <1>1, Zenon DEF Called
<1>3. /\ d \in Calls /\ d.started = started /\ d.given = given
      /\ d.done = done /\ d.again = again /\ d.stale = stale
  BY DEF Calls
<1> HIDE DEF d
<1> QED
  BY <1>1, <1>2, <1>3, Zenon DEF IsAfter

\* What a call of a CGI that is not done does, with n bytes in the buffer.
CallDoes(n, lookup, r) ==
  /\ calls'.started = (IF lookup THEN calls.started + 1 ELSE calls.started)
  /\ calls'.given = calls.given + n
  /\ calls'.done = (r = "DONE") /\ calls'.again = FALSE
  /\ cgi' = (r = "MORE")

LEMMA CallIs ==
  ASSUME NEW n \in Nat, NEW p \in Post, NEW chunks \in BOOLEAN, NEW h, NEW lookup \in BOOLEAN,
         NEW r \in {"MORE", "DONE"}
  PROVE  calls \in Calls /\ calls.done = FALSE /\ calls.again = FALSE
           /\ CallCgi(n, p, chunks, h, lookup, r) => CallDoes(n, lookup, r)
<1>1. HAVE calls \in Calls /\ calls.done = FALSE /\ calls.again = FALSE
             /\ CallCgi(n, p, chunks, h, lookup, r)
<1>2. IsAfter(Called(calls, n, lookup, r), calls, n, lookup, r)
  BY <1>1, CalledIs, Zenon
<1>3. calls' = Called(calls, n, lookup, r) /\ cgi' = (r = "MORE")
  BY <1>1, Zenon DEF CallCgi, CgiAfter
<1>4. IsAfter(calls', calls, n, lookup, r)
  BY <1>2, <1>3, Zenon
<1>5. (calls.again \/ calls.done) = FALSE
  BY <1>1
<1> QED
  BY <1>3, <1>4, <1>5, Zenon DEF IsAfter, CallDoes

LEMMA CallMore ==
  ASSUME NEW n \in Nat, NEW p \in Post, NEW chunks \in BOOLEAN, NEW h, NEW lookup \in BOOLEAN
  PROVE  CallCgi(n, p, chunks, h, lookup, "MORE") =>
         post' = p /\ discon' = discon /\ chunked' = chunks /\ head' = h
BY DEF CallCgi

LEMMA CallDone ==
  ASSUME NEW n \in Nat, NEW p \in Post, NEW chunks \in BOOLEAN, NEW h, NEW lookup \in BOOLEAN
  PROVE  CallCgi(n, p, chunks, h, lookup, "DONE") =>
         /\ post' \in Post /\ post'.buffSize = p.buffSize
         /\ chunks = TRUE =>
              post'.len = -1 /\ post'.buffLen = 0 /\ post'.received = 0 /\ head' = <<>>
         /\ chunks = FALSE => post' = p /\ head' = h
         /\ discon' = "marked" /\ chunked' = FALSE
<1>1. HAVE CallCgi(n, p, chunks, h, lookup, "DONE")
<1> DEFINE q == [p EXCEPT !.len = -1, !.buffLen = 0, !.received = 0]
<1>2. /\ post' = IF chunks THEN q ELSE p
      /\ discon' = "marked" /\ chunked' = FALSE
      /\ head' = IF chunks THEN <<>> ELSE h
  BY <1>1 DEF CallCgi, CgiIsDone
<1>3. /\ q \in Post /\ q.len = -1 /\ q.buffSize = p.buffSize
      /\ q.buffLen = 0 /\ q.received = 0
  <2>1. 0 \in 0 .. MaxPost
    BY RecvAssumption
  <2>2. PICK minus \in Nat \cup {-1} : minus = -1
    OBVIOUS
  <2>3. LET x == [p EXCEPT !.len = minus, !.buffLen = 0, !.received = 0]
        IN /\ x \in Post /\ x.len = minus /\ x.buffSize = p.buffSize
           /\ x.buffLen = 0 /\ x.received = 0
    BY <2>1 DEF Post
  <2> QED
    BY <2>2, <2>3
<1> HIDE DEF q
<1>4. CASE chunks = TRUE
  BY <1>2, <1>3, <1>4, Zenon
<1>5. CASE chunks = FALSE
  BY <1>2, <1>5, Zenon
<1> QED
  BY <1>4, <1>5

-----------------------------------------------------------------------------
(* Every step keeps the invariant.                                          *)

RecvInv == TypeOK /\ Phases

\* As long as nothing loose happened.
TightInv == loose = FALSE => Phases

LEMMA Sizes ==
  ASSUME NEW r \in Requests
  PROVE  /\ r \in Request /\ EolLen(r) \in {1, 2}
         /\ EndOf(r, EolLen(r)).head \in Nat \ {0} /\ EndOf(r, 2).head \in Nat
         /\ BodyLen(r) \in Nat
         /\ BuffSize(BodyLen(r)) \in 0 .. MaxPost
         /\ BodyLen(r) > 0 => BuffSize(BodyLen(r)) > 0
         /\ KeepsOpen(r) \in BOOLEAN
<1>1. r \in Request
  BY RecvAssumption
<1>2. EolLen(r) \in {1, 2}
  BY <1>1, EolIs
<1>3. EndOf(r, EolLen(r)).head \in Nat \ {0}
  <2>1. EndOf(r, EolLen(r)).len \in Nat
    BY <1>1, <1>2, Places
  <2>2. EndOf(r, EolLen(r)).head = EndOf(r, EolLen(r)).len + EolLen(r)
    BY <1>1, <1>2, Places
  <2> QED
    BY <1>2, <2>1, <2>2
<1>4. EndOf(r, 2).head \in Nat
  <2>1. 2 \in {1, 2}
    OBVIOUS
  <2> QED
    BY <1>1, <2>1, Places
<1>5. BodyLen(r) \in Nat
  BY <1>1 DEF Request, BodyLen
<1>6. BuffSize(BodyLen(r)) \in 0 .. MaxPost /\ (BodyLen(r) > 0 => BuffSize(BodyLen(r)) > 0)
  BY <1>5, RecvAssumption DEF BuffSize
<1>7. KeepsOpen(r) \in BOOLEAN
  BY DEF KeepsOpen
<1> QED
  BY <1>1, <1>2, <1>3, <1>4, <1>5, <1>6, <1>7

\* Nothing of the head has been read.
LEMMA Fresh ==
  ASSUME NEW r \in Requests
  PROVE  /\ Kept(r, 0) = 0
         /\ Stands(Bytes(r), r, 0, EndOf(r, EolLen(r)).head + BodyLen(r))
         /\ HeadIs(r, <<>>, Kept(r, 0))
<1>1. r \in Request /\ EolLen(r) \in {1, 2}
  BY Sizes
<1>2. Kept(r, 0) = 0
  <2> DEFINE e == EolLen(r)
             m == EndOf(r, e)
  <2>1. PICK q \in Nat, c \in Nat, f \in Nat, l \in Nat, h \in Nat : Lay(r, e, q, c, f, l, h)
    BY <1>1, LaidOut, Zenon
  <2>2. q = m.request /\ c = m.close /\ f = m.fill /\ l = m.len /\ h = m.head
    BY <2>1 DEF Lay
  <2>3. q = 1 + e /\ q <= c /\ c <= f /\ f <= l /\ h = l + e
    BY <1>1, <2>1, PlacesOfLay
  <2>4. q > 0 /\ c > 0 /\ f > 0 /\ l > 0 /\ h > 0
    BY <1>1, <2>3
  <2> HIDE DEF m
  <2>5. CASE e = 2
    BY <2>5 DEF Kept
  <2>6. CASE e # 2
    BY <2>2, <2>4, <2>6 DEF Kept, m
  <2> QED
    BY <2>5, <2>6
<1>3. Stands(Bytes(r), r, 0, EndOf(r, EolLen(r)).head + BodyLen(r))
  BY <1>1, BytesAt
<1>4. HeadIs(r, <<>>, Kept(r, 0))
  BY <1>2, EmptySeq DEF HeadIs
<1> QED
  BY <1>2, <1>3, <1>4

LEMMA Typed ==
  TypeOK <=> /\ input \in Seq(Token) /\ asked \in Request /\ follow \in 0 .. Follow
             /\ head \in Seq(Token) /\ post \in Post
             /\ url \in BOOLEAN /\ chunked \in BOOLEAN /\ cgi \in BOOLEAN
             /\ discon \in {"no", "marked", "closed"} /\ calls \in Calls
             /\ loose \in BOOLEAN
BY DEF TypeOK, Token, Post, Calls

\* Where the server can be when it reads a byte.
LEMMA ByteRead ==
  RecvInv /\ input # <<>> =>
    /\ post.len < 0 => HeadPhase
    /\ post.len > 0 => BodyPhase
    /\ post.len = 0 => AnswerPhase \/ DonePhase
<1> SUFFICES ASSUME RecvInv, input # <<>>
             PROVE  /\ post.len < 0 => HeadPhase
                    /\ post.len > 0 => BodyPhase
                    /\ post.len = 0 => AnswerPhase \/ DonePhase
  OBVIOUS
<1>1. asked \in Requests /\ (HeadPhase \/ BodyPhase \/ AnswerPhase \/ DonePhase)
  BY DEF RecvInv, Phases
<1>2. PICK n \in Nat : n = BodyLen(asked)
  BY <1>1, Sizes
<1>3. HeadPhase => post.len = -1
  BY DEF HeadPhase, PostIs
<1>4. BodyPhase => post.len = n /\ n > 0
  BY <1>2 DEF BodyPhase, PostIs
<1>5. AnswerPhase => post.len = n /\ n = 0
  BY <1>2 DEF AnswerPhase, PostIs
<1>6. DonePhase => post.len = n /\ n = 0
  BY <1>2 DEF DonePhase, PostIs
<1> QED
  BY <1>1, <1>2, <1>3, <1>4, <1>5, <1>6

\* What is left when a byte has been read.
LEMMA Rest ==
  ASSUME NEW s \in Seq(Token), s # <<>>
  PROVE  /\ Head(s) = s[1] /\ Head(s) \in Token
         /\ Tail(s) \in Seq(Token) /\ Len(Tail(s)) = Len(s) - 1
         /\ \A k \in 1 .. Len(s) - 1 : Tail(s)[k] = s[k + 1]
BY HeadTailProperties

LEMMA StandsRest ==
  ASSUME NEW r, NEW s, NEW a \in Nat, NEW b \in Nat, a < b, Stands(s, r, a, b)
  PROVE  /\ s # <<>> /\ Head(s) \in Token
         /\ Head(s) = TokAt(r, EndOf(r, EolLen(r)), EolLen(r), a + 1)
         /\ Stands(Tail(s), r, a + 1, b)
<1> DEFINE At(k) == TokAt(r, EndOf(r, EolLen(r)), EolLen(r), k)
<1>1. s \in Seq(Token) /\ Len(s) = b - a /\ \A k \in 1 .. b - a : s[k] = At(a + k)
  BY DEF Stands
<1> HIDE DEF At
<1>2. s # <<>>
  BY <1>1, EmptySeq
<1>3. PICK t \in Seq(Token) :
        /\ Head(s) = s[1] /\ Head(s) \in Token
        /\ t = Tail(s) /\ Len(t) = Len(s) - 1
        /\ \A k \in 1 .. Len(s) - 1 : t[k] = s[k + 1]
  BY <1>1, <1>2, Rest
<1>4. \A k \in 1 .. b - (a + 1) : t[k] = At((a + 1) + k)
  <2> TAKE k \in 1 .. b - (a + 1)
  <2>1. k \in 1 .. Len(s) - 1 /\ k + 1 \in 1 .. b - a /\ a + (k + 1) = (a + 1) + k
    BY <1>1
  <2> QED
    BY <1>1, <1>3, <2>1
<1>5. Len(t) = b - (a + 1) /\ Head(s) = At(a + 1)
  BY <1>1, <1>3
<1> QED
  BY <1>2, <1>3, <1>4, <1>5 DEF Stands, At

\* The next byte of the head.
LEMMA HeadGrows ==
  ASSUME HeadsFit, NEW r \in Requests, NEW i \in 0 .. EndOf(r, EolLen(r)).head - 1,
         NEW s, Stands(s, r, i, EndOf(r, EolLen(r)).head + BodyLen(r)),
         NEW h, HeadIs(r, h, Kept(r, i))
  PROVE  LET b == Head(s)
         IN /\ s # <<>>
            /\ Stands(Tail(s), r, i + 1, EndOf(r, EolLen(r)).head + BodyLen(r))
            /\ HeadIs(r, AddToHead(h, b), Kept(r, i + 1))
            /\ EndsHead(AddToHead(h, b), b) <=> i + 1 = EndOf(r, EolLen(r)).head
            /\ i + 1 = EndOf(r, EolLen(r)).head => Kept(r, i + 1) = EndOf(r, 2).head
<1> DEFINE m == EndOf(r, EolLen(r)).head
           m2 == EndOf(r, 2).head
           b == Head(s)
<1>1. /\ r \in Request /\ m \in Nat \ {0} /\ m2 \in Nat /\ BodyLen(r) \in Nat
      /\ EolLen(r) \in {1, 2}
  BY Sizes
<1>2. NextIs(r, i)
  BY <1>1, Next1
<1>3. i \in Nat /\ i < m + BodyLen(r) /\ m + BodyLen(r) \in Nat
  BY <1>1
<1>4. /\ s # <<>> /\ b \in Token
      /\ b = TokAt(r, EndOf(r, EolLen(r)), EolLen(r), i + 1)
      /\ Stands(Tail(s), r, i + 1, m + BodyLen(r))
  BY <1>3, StandsRest, Zenon
<1>5. m2 <= MaxHead
  BY DEF HeadsFit
<1>6. HeadIs(r, AddToHead(h, b), Kept(r, i + 1))
  BY <1>1, <1>2, <1>3, <1>4, <1>5, Added, Zenon
<1>7. PICK n \in Nat : n = Kept(r, i + 1) /\ n <= m2 /\ (n = m2 <=> i + 1 = m)
  <2>1. Kept(r, i + 1) <= m2 /\ (Kept(r, i + 1) = m2 <=> i + 1 = m)
    BY <1>2 DEF NextIs
  <2>2. Kept(r, i + 1) \in Nat
    BY <1>6, LenProperties, Zenon DEF HeadIs
  <2> QED
    BY <2>1, <2>2
<1>8. n = m2 => b = LF
  <2>1. PICK q \in Nat, c \in Nat, f \in Nat, l \in Nat, e \in Nat :
          Lay(r, EolLen(r), q, c, f, l, e)
    BY <1>1, LaidOut, Zenon
  <2>2. e = m /\ TokAt(r, EndOf(r, EolLen(r)), EolLen(r), e) = LF
    BY <2>1 DEF Lay
  <2>3. n = m2 => i + 1 = e
    BY <1>7, <2>2
  <2> QED
    BY <1>4, <2>2, <2>3, Zenon
<1>9. EndsHead(AddToHead(h, b), b) <=> n = m2
  <2>1. HeadIs(r, AddToHead(h, b), n)
    BY <1>6, <1>7
  <2> QED
    BY <1>1, <1>4, <1>7, <1>8, <2>1, HeadEnds, Zenon
<1> QED
  BY <1>4, <1>6, <1>7, <1>9

LEMMA HeadByteKeeps ==
  ASSUME HeadsFit, RecvInv, HeadByte, loose' = FALSE
  PROVE  Phases'
<1> DEFINE m == EndOf(asked, EolLen(asked)).head
           b == Head(input)
           h == AddToHead(head, b)
<1>1. /\ input # <<>> /\ post.len < 0 /\ input' = Tail(input)
      /\ asked' = asked /\ follow' = follow
  BY DEF HeadByte
<1>2. HeadPhase /\ asked \in Requests
  BY <1>1, ByteRead DEF RecvInv, Phases
<1>n. PICK body \in Nat, keeps \in BOOLEAN : body = BodyLen(asked) /\ keeps = KeepsOpen(asked)
  BY <1>2, Sizes
<1>p. BodyLen(asked)' = body /\ KeepsOpen(asked)' = keeps
  BY <1>1, <1>n
<1>3. /\ asked \in Request /\ m \in Nat \ {0} /\ EndOf(asked, 2).head \in Nat
      /\ BuffSize(body) \in 0 .. MaxPost
      /\ (body > 0 => BuffSize(body) > 0)
  BY <1>2, <1>n, Sizes
<1>4. PICK i \in 0 .. m - 1 :
        Stands(input, asked, i, m + body) /\ HeadIs(asked, head, Kept(asked, i))
  BY <1>2, <1>n DEF HeadPhase
<1>5. /\ post.len = -1 /\ post.buffLen = 0 /\ post.received = 0
      /\ cgi = FALSE /\ chunked = FALSE
      /\ calls.started = 0 /\ calls.given = 0 /\ calls.done = FALSE /\ calls.again = FALSE
  BY <1>2 DEF HeadPhase, PostIs, CallsAre
<1>6. /\ Stands(Tail(input), asked, i + 1, m + body)
      /\ HeadIs(asked, h, Kept(asked, i + 1))
      /\ EndsHead(h, b) <=> i + 1 = m
      /\ i + 1 = m => Kept(asked, i + 1) = EndOf(asked, 2).head
  BY <1>2, <1>4, <1>n, HeadGrows
<1>7. /\ follow \in 0 .. Follow /\ post \in Post /\ url \in BOOLEAN
      /\ discon \in {"no", "marked", "closed"} /\ calls \in Calls
  BY Typed DEF RecvInv
<1>8. h \in Seq(Token) /\ input' \in Seq(Token)
  BY <1>1, <1>6 DEF HeadIs, Stands
<1>9. CASE ~EndsHead(h, b)
  <2>1. /\ head' = h /\ url' = url /\ chunked' = chunked /\ post' = post
        /\ cgi' = cgi /\ discon' = discon /\ calls' = calls
    BY <1>9 DEF HeadByte
  <2>2. PICK j \in 0 .. m - 1 : j = i + 1
    <3> HIDE DEF m, h
    <3>1. i + 1 # m
      BY <1>6, <1>9
    <3> QED
      BY <1>3, <3>1
  <2>3. Stands(input', asked, j, m + body) /\ HeadIs(asked, head', Kept(asked, j))
    BY <1>1, <1>6, <2>1, <2>2
  <2>4. HeadPhase'
    BY <1>1, <1>5, <1>n, <2>1, <2>3 DEF HeadPhase, PostIs, CallsAre
  <2> QED
    BY <1>1, <1>2, <2>4 DEF RecvInv, Phases
<1>10. CASE EndsHead(h, b)
  <2> DEFINE len == ContentLength(h)
             p == [post EXCEPT !.len = len,
                     !.buffSize = IF Lines(h, "len") = {} THEN @ ELSE BuffSize(len)]
             chunks == WantsChunks(h, chunked)
  <2>1. /\ url' = (Lines(h, "request") # {})
        /\ IF len = 0 /\ url'
           THEN \E r \in {"MORE", "DONE"} : CallCgi(p.buffLen, p, chunks, h, TRUE, r)
           ELSE /\ post' = p /\ chunked' = chunks /\ head' = h
                /\ UNCHANGED <<cgi, discon, calls>>
    BY <1>10 DEF HeadByte
  <2>2. /\ Lines(h, "request") # {}
        /\ (Lines(h, "len") = {}) <=> (asked.len = -1)
        /\ len = body
        /\ WantsChunks(h, FALSE) <=> keeps
    <3>1. HeadIs(asked, h, EndOf(asked, 2).head)
      BY <1>6, <1>10
    <3> QED
      BY <1>3, <1>n, <3>1, Parsed DEF KeepsOpen
  <2>3. url' = TRUE
    BY <2>1, <2>2
  <2>4. chunks = keeps /\ chunks \in BOOLEAN
    <3>1. WantsChunks(h, FALSE) \in BOOLEAN
      BY DEF WantsChunks
    <3> QED
      BY <1>5, <2>2, <3>1
  <2>5. /\ p \in Post /\ p.len = body /\ p.buffLen = 0 /\ p.received = 0
        /\ asked.len # -1 => p.buffSize = BuffSize(body)
    <3>1. PICK size \in 0 .. MaxPost :
            /\ size = (IF Lines(h, "len") = {} THEN post.buffSize ELSE BuffSize(len))
            /\ asked.len # -1 => size = BuffSize(body)
      <4>1. post.buffSize \in 0 .. MaxPost
        BY <1>7 DEF Post
      <4> QED
        BY <1>3, <2>2, <4>1
    <3>2. p = [post EXCEPT !.len = body, !.buffSize = size]
      BY <2>2, <3>1
    <3> QED
      BY <1>3, <1>5, <1>7, <3>1, <3>2 DEF Post
  <2>6. Len(input') = body /\ (body = 0 => input' = <<>>)
    <3>1. Len(input') = body
      BY <1>1, <1>3, <1>6, <1>10 DEF Stands
    <3> QED
      BY <1>8, <3>1, EmptySeq
  <2> HIDE DEF len, p, chunks, h, b, m
  <2>7. CASE body = 0
    <3>1. PICK r \in {"MORE", "DONE"}, n \in Nat : n = p.buffLen /\ CallCgi(n, p, chunks, h, TRUE, r)
      BY <2>1, <2>2, <2>3, <2>5, <2>7
    <3>2. /\ calls'.started = calls.started + 1 /\ calls'.given = calls.given + n
          /\ calls'.done = (r = "DONE") /\ calls'.again = FALSE
          /\ cgi' = (r = "MORE")
      <4>1. calls \in Calls /\ calls.done = FALSE /\ calls.again = FALSE
             /\ CallCgi(n, p, chunks, h, TRUE, r)
        BY <1>5, <1>7, <3>1
      <4>2. TRUE \in BOOLEAN
        OBVIOUS
      <4>3. CallDoes(n, TRUE, r)
        BY <2>4, <2>5, <4>1, <4>2, CallIs, Zenon
      <4> QED
        BY <4>3 DEF CallDoes
    <3>3. CASE r = "MORE"
      <4>1. /\ post' \in Post /\ post'.len = 0 /\ post'.buffLen = 0 /\ post'.received = 0
            /\ discon' = discon /\ chunked' = chunks /\ head' = h
        BY <1>3, <2>4, <2>5, <2>7, <3>1, <3>3, CallMore
      <4>2. AnswerPhase'
        <5>1. /\ post'.len = body /\ post'.buffLen = 0 /\ post'.received = body
              /\ calls'.started = 1 /\ calls'.given = body
          BY <1>5, <2>5, <2>7, <3>1, <3>2, <4>1
        <5>2. /\ calls'.done = FALSE /\ calls'.again = FALSE
              /\ cgi' = TRUE /\ chunked' = keeps /\ input' = <<>>
          BY <2>4, <2>6, <2>7, <3>2, <3>3, <4>1
        <5> QED
          BY <1>p, <5>1, <5>2 DEF AnswerPhase, PostIs, CallsAre
      <4> QED
        BY <1>1, <1>2, <4>2 DEF RecvInv, Phases
    <3>4. CASE r = "DONE"
      <4>1. /\ post' \in Post /\ post'.buffLen = 0 /\ post'.received = 0
            /\ chunks = TRUE => post'.len = -1 /\ head' = <<>>
            /\ chunks = FALSE => post'.len = 0 /\ head' = h
            /\ discon' = "marked" /\ chunked' = FALSE
        BY <1>3, <2>4, <2>5, <2>7, <3>1, <3>4, CallDone
      <4>2. DonePhase'
        <5>1. /\ post'.buffLen = 0 /\ post'.received = 0 /\ body = 0
              /\ calls'.started = 1 /\ calls'.given = body
          BY <1>5, <2>5, <2>7, <3>1, <3>2, <4>1
        <5>2. /\ calls'.done = TRUE /\ calls'.again = FALSE /\ discon' # "no"
              /\ cgi' = FALSE /\ chunked' = FALSE /\ input' = <<>>
          BY <2>6, <2>7, <3>2, <3>4, <4>1
        <5>3. CASE keeps = TRUE
          BY <1>p, <2>4, <4>1, <5>1, <5>2, <5>3 DEF DonePhase, PostIs, CallsAre
        <5>4. CASE keeps = FALSE
          BY <1>p, <2>4, <4>1, <5>1, <5>2, <5>4 DEF DonePhase, PostIs, CallsAre
        <5> QED
          BY <5>3, <5>4
      <4>3. head' \in Seq(Token)
        BY <1>3, <1>8, <2>4, <4>1, EmptySeq
      <4> QED
        BY <1>1, <1>2, <4>2 DEF RecvInv, Phases
    <3> QED
      BY <3>3, <3>4
  <2>8. CASE body # 0
    <3>1. /\ post' = p /\ chunked' = chunks /\ head' = h
          /\ cgi' = cgi /\ discon' = discon /\ calls' = calls
      BY <2>1, <2>2, <2>8
    <3>2. asked.len # -1 /\ body > 0
      BY <1>n, <2>8 DEF BodyLen
    <3>3. 0 \in 0 .. body - 1 /\ 0 \in 0 .. BuffSize(body) - 1
      BY <1>3, <3>2
    <3>4. /\ post'.len = body /\ post'.buffSize = BuffSize(body)
          /\ post'.buffLen = 0 /\ post'.received = 0
          /\ calls'.started = 0 /\ calls'.given = 0 - 0
          /\ calls'.done = FALSE /\ calls'.again = FALSE
          /\ Len(input') = body - 0 /\ 0 <= 0 /\ cgi' = FALSE
      BY <1>5, <2>5, <2>6, <3>1, <3>2
    <3>5. BodyPhase'
      BY <1>p, <2>3, <2>4, <3>1, <3>3, <3>4 DEF BodyPhase, PostIs, CallsAre
    <3> QED
      BY <1>1, <1>2, <3>5 DEF RecvInv, Phases
  <2> QED
    BY <2>7, <2>8
<1> QED
  BY <1>9, <1>10

LEMMA BodyByteKeeps ==
  ASSUME RecvInv, BodyByte, loose' = FALSE
  PROVE  Phases'
<1> DEFINE p == [post EXCEPT !.buffLen = @ + 1, !.received = @ + 1]
<1>1. /\ input # <<>> /\ post.len > 0 /\ input' = Tail(input)
      /\ asked' = asked /\ follow' = follow /\ url' = url
  BY DEF BodyByte
<1>2. BodyPhase /\ asked \in Requests
  BY <1>1, ByteRead DEF RecvInv, Phases
<1>3. PICK body \in Nat, keeps \in BOOLEAN, size \in 0 .. MaxPost :
        /\ body = BodyLen(asked) /\ keeps = KeepsOpen(asked)
        /\ size = BuffSize(BodyLen(asked)) /\ size = BuffSize(body)
  BY <1>2, Sizes
<1>4. /\ BodyLen(asked)' = body /\ KeepsOpen(asked)' = keeps
      /\ BuffSize(BodyLen(asked))' = size
  BY <1>1, <1>3
<1>5. PICK received \in 0 .. body - 1, waiting \in 0 .. size - 1 :
        /\ waiting <= received
        /\ post.len = body /\ post.buffSize = size
        /\ post.buffLen = waiting /\ post.received = received
        /\ calls.started = (IF cgi THEN 1 ELSE 0) /\ calls.given = received - waiting
        /\ calls.done = FALSE /\ calls.again = FALSE
        /\ Len(input) = body - received
  BY <1>2, <1>3 DEF BodyPhase, PostIs, CallsAre
<1>6. url = TRUE /\ chunked = keeps
  BY <1>2, <1>3 DEF BodyPhase
<1>7. /\ input \in Seq(Token) /\ head \in Seq(Token) /\ follow \in 0 .. Follow
      /\ asked \in Request /\ post \in Post /\ cgi \in BOOLEAN
      /\ discon \in {"no", "marked", "closed"} /\ calls \in Calls
  BY Typed DEF RecvInv
<1>8. input' \in Seq(Token) /\ Len(input') = body - (received + 1)
  BY <1>1, <1>5, <1>7, Rest
<1> DEFINE emptied == [p EXCEPT !.buffLen = 0]
<1>9. /\ p \in Post /\ p.len = body /\ p.buffSize = size
      /\ p.buffLen = waiting + 1 /\ p.received = received + 1
      /\ emptied \in Post /\ emptied.len = body /\ emptied.buffSize = size
      /\ emptied.buffLen = 0 /\ emptied.received = received + 1
  <2>1. PICK w \in 0 .. MaxPost, n \in Nat : w = waiting + 1 /\ n = received + 1
    BY RecvAssumption
  <2>2. p = [post EXCEPT !.buffLen = w, !.received = n]
    BY <1>5, <2>1
  <2>3. /\ p \in Post /\ p.len = body /\ p.buffSize = size
        /\ p.buffLen = waiting + 1 /\ p.received = received + 1
    BY <1>5, <1>7, <2>1, <2>2 DEF Post
  <2>4. 0 \in 0 .. MaxPost
    BY RecvAssumption
  <2> HIDE DEF p
  <2> QED
    BY <2>3, <2>4 DEF Post
<1>10. IF ~BlockComplete(p) \/ ~(cgi \/ url)
       THEN /\ post' = IF BlockComplete(p) THEN emptied ELSE p
            /\ UNCHANGED <<head, chunked, cgi, discon, calls, loose>>
       ELSE \E r \in {"MORE", "DONE"} :
              /\ CallCgi(p.buffLen, emptied, chunked, head, ~cgi, r)
              /\ loose' = (loose \/ (r = "DONE" /\ ~BodyComplete(p)))
  BY DEF BodyByte
<1> HIDE DEF p, emptied
<1>11. BlockComplete(p) <=> waiting + 1 >= size \/ received + 1 = body
  BY <1>9 DEF BlockComplete
<1>12. CASE ~BlockComplete(p)
  <2>1. /\ post' = p /\ head' = head /\ chunked' = chunked /\ cgi' = cgi
        /\ discon' = discon /\ calls' = calls
    BY <1>10, <1>12
  <2>2. PICK n \in 0 .. body - 1, w \in 0 .. size - 1 : n = received + 1 /\ w = waiting + 1
    <3>1. received + 1 \in 0 .. body - 1 /\ waiting + 1 \in 0 .. size - 1
      BY <1>11, <1>12
    <3> QED
      BY <3>1
  <2>3. /\ w <= n /\ post'.len = body /\ post'.buffSize = size
        /\ post'.buffLen = w /\ post'.received = n
        /\ calls'.started = (IF cgi' THEN 1 ELSE 0) /\ calls'.given = n - w
        /\ calls'.done = FALSE /\ calls'.again = FALSE
        /\ Len(input') = body - n
    BY <1>5, <1>8, <1>9, <2>1, <2>2
  <2>4. BodyPhase'
    BY <1>1, <1>4, <1>6, <2>1, <2>3 DEF BodyPhase, PostIs, CallsAre
  <2> QED
    BY <1>1, <1>2, <2>4 DEF RecvInv, Phases
<1>13. CASE BlockComplete(p)
  <2>1. PICK lookup \in BOOLEAN : lookup = ~cgi
    OBVIOUS
  <2>2. PICK r \in {"MORE", "DONE"} :
          /\ CallCgi(p.buffLen, emptied, chunked, head, lookup, r)
          /\ loose' = (loose \/ (r = "DONE" /\ ~BodyComplete(p)))
    BY <1>6, <1>10, <1>13, <2>1
  <2>3. received + 1 < body => r = "MORE"
    <3>1. SUFFICES ASSUME received + 1 < body, r = "DONE"
                   PROVE  FALSE
      BY <2>2
    <3>2. ~BodyComplete(p)
      BY <1>9, <3>1 DEF BodyComplete
    <3> QED
      BY <2>2, <3>1, <3>2
  <2>4. /\ calls'.started = (IF lookup THEN calls.started + 1 ELSE calls.started)
        /\ calls'.given = calls.given + p.buffLen
        /\ calls'.done = (r = "DONE") /\ calls'.again = FALSE
        /\ cgi' = (r = "MORE")
    <3>1. calls \in Calls /\ calls.done = FALSE /\ calls.again = FALSE
           /\ CallCgi(p.buffLen, emptied, chunked, head, lookup, r)
      BY <1>5, <1>7, <2>2
    <3>2. chunked \in BOOLEAN /\ p.buffLen \in Nat
      BY <1>6, <1>9
    <3> QED
      <4>1. CallDoes(p.buffLen, lookup, r)
        BY <1>9, <3>1, <3>2, CallIs, Zenon
      <4> QED
        BY <4>1 DEF CallDoes
  <2>5. calls'.started = 1 /\ calls'.given = received + 1
    <3>1. calls'.given = (received - waiting) + (waiting + 1)
      BY <1>5, <1>9, <2>4
    <3>2. (received - waiting) + (waiting + 1) = received + 1
      OBVIOUS
    <3>3. cgi = TRUE => calls.started = 1 /\ lookup = FALSE
      BY <1>5, <2>1
    <3>4. cgi = FALSE => calls.started = 0 /\ lookup = TRUE
      BY <1>5, <2>1
    <3>5. calls'.started = IF lookup THEN calls.started + 1 ELSE calls.started
      BY <2>4
    <3>6. calls'.started = 1
      BY <1>7, <3>3, <3>4, <3>5
    <3> QED
      BY <3>1, <3>2, <3>6
  <2>6. CASE r = "MORE"
    <3>1. /\ post' \in Post /\ post'.len = body /\ post'.buffSize = size
          /\ post'.buffLen = 0 /\ post'.received = received + 1
          /\ discon' = discon /\ chunked' = keeps /\ head' = head
      <4>1. p.buffLen \in Nat
        BY <1>9
      <4> QED
        BY <1>6, <1>9, <2>2, <2>6, <4>1, CallMore
    <3>2. calls'.done = FALSE /\ cgi' = TRUE
      BY <2>4, <2>6
    <3>4. CASE received + 1 = body
      <4>1. input' = <<>>
        BY <1>8, <3>4, EmptySeq
      <4>2. AnswerPhase'
        BY <1>4, <2>4, <2>5, <3>1, <3>2, <3>4, <4>1 DEF AnswerPhase, PostIs, CallsAre
      <4> QED
        BY <1>1, <1>2, <4>2 DEF RecvInv, Phases
    <3>5. CASE received + 1 # body
      <4>1. PICK n \in 0 .. body - 1, w \in 0 .. size - 1 : n = received + 1 /\ w = 0
        <5>1. received + 1 \in 0 .. body - 1 /\ 0 \in 0 .. size - 1
          BY <3>5
        <5> QED
          BY <5>1
      <4>2. /\ w <= n /\ post'.len = body /\ post'.buffSize = size
            /\ post'.buffLen = w /\ post'.received = n
            /\ calls'.started = (IF cgi' THEN 1 ELSE 0) /\ calls'.given = n - w
            /\ calls'.done = FALSE /\ calls'.again = FALSE
            /\ Len(input') = body - n
        BY <1>8, <2>4, <2>5, <3>1, <3>2, <4>1
      <4>3. BodyPhase'
        BY <1>1, <1>4, <1>6, <3>1, <4>2 DEF BodyPhase, PostIs, CallsAre
      <4> QED
        BY <1>1, <1>2, <4>3 DEF RecvInv, Phases
    <3> QED
      BY <3>4, <3>5
  <2>7. CASE r = "DONE"
    <3>1. /\ post' \in Post /\ post'.buffLen = 0
          /\ keeps = TRUE => post'.len = -1 /\ post'.received = 0 /\ head' = <<>>
          /\ keeps = FALSE => post'.len = body /\ post'.received = received + 1 /\ head' = head
          /\ discon' = "marked" /\ chunked' = FALSE
      <4>1. p.buffLen \in Nat
        BY <1>9
      <4> QED
        <5>1. CallCgi(p.buffLen, emptied, chunked, head, lookup, "DONE") /\ chunked \in BOOLEAN
          BY <1>6, <2>2, <2>7
        <5>2. /\ post' \in Post /\ post'.buffSize = emptied.buffSize
              /\ chunked = TRUE =>
                   post'.len = -1 /\ post'.buffLen = 0 /\ post'.received = 0 /\ head' = <<>>
              /\ chunked = FALSE => post' = emptied /\ head' = head
              /\ discon' = "marked" /\ chunked' = FALSE
          BY <1>9, <4>1, <5>1, CallDone
        <5>3. CASE keeps = TRUE
          BY <1>6, <5>2, <5>3
        <5>4. CASE keeps = FALSE
          BY <1>6, <1>9, <5>2, <5>4
        <5> QED
          BY <5>2, <5>3, <5>4
    <3>2. received + 1 = body
      BY <2>3, <2>7
    <3>3. input' = <<>>
      BY <1>8, <3>2, EmptySeq
    <3>4. calls'.done = TRUE /\ cgi' = FALSE /\ discon' # "no"
      BY <2>4, <2>7, <3>1
    <3>5. head' \in Seq(Token)
      BY <1>3, <1>7, <3>1, EmptySeq
    <3>7. DonePhase'
      <4>1. CASE keeps = TRUE
        BY <1>4, <2>4, <2>5, <3>1, <3>2, <3>3, <3>4, <4>1 DEF DonePhase, PostIs, CallsAre
      <4>2. CASE keeps = FALSE
        BY <1>4, <2>4, <2>5, <3>1, <3>2, <3>3, <3>4, <4>2 DEF DonePhase, PostIs, CallsAre
      <4> QED
        BY <4>1, <4>2
    <3> QED
      BY <1>1, <1>2, <3>7 DEF RecvInv, Phases
  <2> QED
    BY <2>6, <2>7
<1> QED
  BY <1>12, <1>13

LEMMA OtherByteKeeps ==
  ASSUME RecvInv, OtherByte, loose' = FALSE
  PROVE  Phases'
<1>1. /\ input # <<>> /\ post.len = 0 /\ input' = Tail(input)
      /\ asked' = asked /\ follow' = follow /\ head' = head /\ url' = url
      /\ chunked' = chunked /\ post' = post /\ cgi' = cgi /\ discon' = discon /\ calls' = calls
  BY DEF OtherByte
<1>2. (AnswerPhase \/ DonePhase) /\ asked \in Requests
  BY <1>1, ByteRead DEF RecvInv, Phases
<1>3. input \in Seq(Token) /\ TypeOK
  BY Typed DEF RecvInv
<1>4. input' \in Seq(Token)
  BY <1>1, <1>3, Rest
<1>6. AnswerPhase => AnswerPhase'
  BY <1>1 DEF AnswerPhase, PostIs, CallsAre
<1>7. DonePhase => DonePhase'
  BY <1>1 DEF DonePhase, PostIs, CallsAre
<1> QED
  BY <1>1, <1>2, <1>6, <1>7 DEF RecvInv, Phases

LEMMA CloseKeeps ==
  ASSUME RecvInv, Close, loose' = FALSE
  PROVE  Phases'
<1>1. /\ discon' = "closed" /\ input' = input
      /\ asked' = asked /\ follow' = follow /\ head' = head /\ url' = url
      /\ chunked' = chunked /\ post' = post /\ cgi' = cgi /\ calls' = calls
  BY DEF Close
<1>2. asked \in Requests /\ (HeadPhase \/ BodyPhase \/ AnswerPhase \/ DonePhase)
  BY DEF RecvInv, Phases
<1>4. HeadPhase => HeadPhase'
  BY <1>1 DEF HeadPhase, PostIs, CallsAre
<1>5. BodyPhase => BodyPhase'
  BY <1>1 DEF BodyPhase, PostIs, CallsAre
<1>6. AnswerPhase => AnswerPhase'
  BY <1>1 DEF AnswerPhase, PostIs, CallsAre
<1>7. DonePhase => DonePhase'
  BY <1>1 DEF DonePhase, PostIs, CallsAre
<1> QED
  BY <1>1, <1>2, <1>4, <1>5, <1>6, <1>7 DEF RecvInv, Phases

\* While the body is received some of it is missing, and has not been read.
LEMMA InBody ==
  asked \in Requests /\ BodyPhase =>
    /\ post.len = BodyLen(asked) /\ post.len \in Nat \ {0} /\ post.received \in 0 .. post.len - 1
    /\ Len(input) # 0
<1>1. HAVE asked \in Requests /\ BodyPhase
<1>2. PICK body \in Nat : body = BodyLen(asked)
  BY <1>1, Sizes
<1>3. PICK received \in 0 .. body - 1 :
        /\ post.len = body /\ post.received = received
        /\ Len(input) = body - received
  BY <1>1, <1>2 DEF BodyPhase, PostIs
<1> QED
  BY <1>2, <1>3

\* And while the head is.
LEMMA InHead ==
  asked \in Requests /\ HeadPhase => post.len = -1 /\ Len(input) # 0
<1>1. HAVE asked \in Requests /\ HeadPhase
<1>2. PICK h \in Nat \ {0}, body \in Nat :
        h = EndOf(asked, EolLen(asked)).head /\ body = BodyLen(asked)
  BY <1>1, Sizes
<1>3. \E i \in 0 .. h - 1 : Len(input) = (h + body) - i
  BY <1>1, <1>2 DEF HeadPhase, Stands
<1>4. post.len = -1
  BY <1>1 DEF HeadPhase, PostIs
<1> QED
  BY <1>2, <1>3, <1>4

LEMMA ContinueKeeps ==
  ASSUME RecvInv, Continue, loose' = FALSE
  PROVE  Phases'
<1>1. /\ cgi /\ BodyComplete(post)
      /\ input' = input /\ asked' = asked /\ follow' = follow /\ url' = url
      /\ \E r \in {"MORE", "DONE"} : CallCgi(post.buffLen, post, chunked, head, FALSE, r)
  BY DEF Continue
<1>2. asked \in Requests /\ (HeadPhase \/ BodyPhase \/ AnswerPhase \/ DonePhase)
  BY DEF RecvInv, Phases
<1>3. PICK body \in Nat, keeps \in BOOLEAN : body = BodyLen(asked) /\ keeps = KeepsOpen(asked)
  BY <1>2, Sizes
<1>4. BodyLen(asked)' = body /\ KeepsOpen(asked)' = keeps
  BY <1>1, <1>3
<1>5. AnswerPhase
  <2>1. ~HeadPhase
    BY <1>1 DEF HeadPhase
  <2>2. ~BodyPhase
    BY <1>1, <1>2, InBody DEF BodyComplete
  <2>3. ~DonePhase
    BY <1>1 DEF DonePhase
  <2> QED
    BY <1>2, <2>1, <2>2, <2>3
<1>6. /\ post.len = body /\ post.buffLen = 0 /\ post.received = body
      /\ chunked = keeps
      /\ calls.started = 1 /\ calls.given = body /\ calls.done = FALSE /\ calls.again = FALSE
      /\ input # <<>> => body = 0 /\ keeps = FALSE
  BY <1>3, <1>5 DEF AnswerPhase, PostIs, CallsAre
<1>7. /\ input \in Seq(Token) /\ head \in Seq(Token) /\ follow \in 0 .. Follow
      /\ asked \in Request /\ post \in Post /\ url \in BOOLEAN
      /\ discon \in {"no", "marked", "closed"} /\ calls \in Calls
  BY Typed DEF RecvInv
<1>8. PICK r \in {"MORE", "DONE"}, lookup \in BOOLEAN :
        lookup = FALSE /\ CallCgi(post.buffLen, post, chunked, head, lookup, r)
  BY <1>1
<1>9. /\ calls'.started = (IF lookup THEN calls.started + 1 ELSE calls.started)
      /\ calls'.given = calls.given + post.buffLen
      /\ calls'.done = (r = "DONE") /\ calls'.again = FALSE
      /\ cgi' = (r = "MORE")
  <2>1. calls \in Calls /\ calls.done = FALSE /\ calls.again = FALSE
         /\ CallCgi(post.buffLen, post, chunked, head, lookup, r)
    BY <1>6, <1>7, <1>8
  <2>2. chunked \in BOOLEAN /\ post.buffLen \in Nat
    BY <1>6
  <2> QED
    <3>1. CallDoes(post.buffLen, lookup, r)
      BY <1>7, <2>1, <2>2, CallIs, Zenon
    <3> QED
      BY <3>1 DEF CallDoes
<1>10. calls'.started = 1 /\ calls'.given = body
  BY <1>6, <1>8, <1>9
<1>11. CASE r = "MORE"
  <2>1. /\ post' \in Post /\ post'.len = body /\ post'.buffLen = 0 /\ post'.received = body
        /\ discon' = discon /\ chunked' = keeps /\ head' = head
    BY <1>6, <1>7, <1>8, <1>11, CallMore
  <2>2. calls'.done = FALSE /\ cgi' = TRUE
    BY <1>9, <1>11
  <2>4. AnswerPhase'
    BY <1>1, <1>4, <1>6, <1>9, <1>10, <2>1, <2>2 DEF AnswerPhase, PostIs, CallsAre
  <2> QED
    BY <1>1, <1>2, <2>4 DEF RecvInv, Phases
<1>12. CASE r = "DONE"
  <2>1. /\ post' \in Post /\ post'.buffLen = 0
        /\ keeps = TRUE => post'.len = -1 /\ post'.received = 0 /\ head' = <<>>
        /\ keeps = FALSE => post'.len = body /\ post'.received = body /\ head' = head
        /\ discon' = "marked" /\ chunked' = FALSE
    <3>1. /\ CallCgi(post.buffLen, post, chunked, head, lookup, "DONE")
          /\ chunked \in BOOLEAN /\ post.buffLen \in Nat
      BY <1>6, <1>8, <1>12
    <3>2. /\ post' \in Post /\ post'.buffSize = post.buffSize
          /\ chunked = TRUE =>
               post'.len = -1 /\ post'.buffLen = 0 /\ post'.received = 0 /\ head' = <<>>
          /\ chunked = FALSE => post' = post /\ head' = head
          /\ discon' = "marked" /\ chunked' = FALSE
      BY <1>7, <3>1, CallDone
    <3>3. CASE keeps = TRUE
      BY <1>6, <3>2, <3>3
    <3>4. CASE keeps = FALSE
      BY <1>6, <3>2, <3>4
    <3> QED
      BY <3>2, <3>3, <3>4
  <2>2. calls'.done = TRUE /\ cgi' = FALSE /\ discon' # "no"
    BY <1>9, <1>12, <2>1
  <2>3. head' \in Seq(Token)
    BY <1>3, <1>7, <2>1, EmptySeq
  <2>5. DonePhase'
    <3>1. CASE keeps = TRUE
      BY <1>1, <1>4, <1>6, <1>9, <1>10, <2>1, <2>2, <3>1 DEF DonePhase, PostIs, CallsAre
    <3>2. CASE keeps = FALSE
      BY <1>1, <1>4, <1>6, <1>9, <1>10, <2>1, <2>2, <3>2 DEF DonePhase, PostIs, CallsAre
    <3> QED
      BY <3>1, <3>2
  <2> QED
    BY <1>1, <1>2, <2>5 DEF RecvInv, Phases
<1> QED
  BY <1>11, <1>12

\* With nothing to read the server is done with the request, but perhaps the answer.
LEMMA AllRead ==
  RecvInv /\ input = <<>> => AnswerPhase \/ DonePhase
<1> SUFFICES ASSUME RecvInv, input = <<>>
             PROVE  AnswerPhase \/ DonePhase
  OBVIOUS
<1>1. asked \in Requests /\ (HeadPhase \/ BodyPhase \/ AnswerPhase \/ DonePhase)
  BY DEF RecvInv, Phases
<1>2. Len(input) = 0
  BY EmptySeq
<1>3. ~HeadPhase
  BY <1>1, <1>2, InHead
<1>4. ~BodyPhase
  BY <1>1, <1>2, InBody
<1> QED
  BY <1>1, <1>3, <1>4

LEMMA StrayLineKeeps ==
  ASSUME RecvInv, StrayLine, loose' = FALSE
  PROVE  Phases'
<1>1. /\ input = <<>> /\ follow > 0 /\ follow' = follow - 1 /\ input' = Eol(asked)
      /\ ~(asked.len > 0) /\ (asked.http11 => asked.close)
      /\ asked' = asked /\ head' = head /\ url' = url
      /\ chunked' = chunked /\ post' = post /\ cgi' = cgi /\ discon' = discon /\ calls' = calls
  BY DEF StrayLine
<1>2. (AnswerPhase \/ DonePhase) /\ asked \in Requests
  BY <1>1, AllRead DEF RecvInv, Phases
<1>3. asked \in Request /\ TypeOK /\ follow \in 0 .. Follow
  BY Typed DEF RecvInv
<1>4. input' \in Seq(Token)
  BY <1>1, <1>3, EolIs
<1>5. BodyLen(asked) = 0 /\ ~KeepsOpen(asked)
  BY <1>1, <1>3 DEF BodyLen, KeepsOpen, Request
<1>7. BodyLen(asked)' = 0 /\ KeepsOpen(asked)' = KeepsOpen(asked)
  BY <1>1, <1>5
<1>8. AnswerPhase => AnswerPhase'
  BY <1>1, <1>5, <1>7 DEF AnswerPhase, PostIs, CallsAre
<1>9. DonePhase => DonePhase'
  BY <1>1, <1>5, <1>7 DEF DonePhase, PostIs, CallsAre
<1> QED
  BY <1>1, <1>2, <1>8, <1>9 DEF RecvInv, Phases

LEMMA NextRequestKeeps ==
  ASSUME RecvInv, NEW r \in Requests, NextRequest(r), loose' = FALSE
  PROVE  Phases'
<1>1. /\ input = <<>> /\ calls.done /\ post.len < 0
      /\ follow > 0 /\ follow' = follow - 1 /\ asked' = r /\ input' = Bytes(r)
      /\ calls' = NoCalls /\ head' = head /\ url' = url
      /\ chunked' = chunked /\ post' = post /\ cgi' = cgi /\ discon' = discon
  BY DEF NextRequest
<1>2. (AnswerPhase \/ DonePhase) /\ asked \in Requests
  BY <1>1, AllRead DEF RecvInv, Phases
<1>3. TypeOK /\ follow \in 0 .. Follow
  BY Typed DEF RecvInv
<1>4. PICK body \in Nat, keeps \in BOOLEAN : body = BodyLen(asked) /\ keeps = KeepsOpen(asked)
  BY <1>2, Sizes
<1>5. DonePhase /\ KeepsOpen(asked)
  <2>1. AnswerPhase => post.len = body
    BY <1>4 DEF AnswerPhase, PostIs
  <2>2. DonePhase
    BY <1>1, <1>2, <1>4, <2>1
  <2>3. ~keeps => post.len = body
    BY <1>4, <2>2 DEF DonePhase, PostIs
  <2> QED
    BY <1>1, <1>4, <2>2, <2>3
<1>6. /\ post.len = -1 /\ post.buffLen = 0 /\ post.received = 0
      /\ head = <<>> /\ cgi = FALSE /\ chunked = FALSE
  BY <1>5 DEF DonePhase, PostIs
<1>7. /\ r \in Request /\ EndOf(r, EolLen(r)).head \in Nat \ {0}
      /\ Stands(Bytes(r), r, 0, EndOf(r, EolLen(r)).head + BodyLen(r))
      /\ HeadIs(r, <<>>, Kept(r, 0))
  BY Sizes, Fresh
<1>8. /\ calls' \in Calls /\ calls'.started = 0 /\ calls'.given = 0
      /\ calls'.done = FALSE /\ calls'.again = FALSE
  BY <1>1 DEF NoCalls, Calls
<1>9. HeadPhase'
  <2>1. 0 \in 0 .. EndOf(r, EolLen(r)).head - 1
    BY <1>7
  <2> QED
    BY <1>1, <1>6, <1>7, <1>8, <2>1 DEF HeadPhase, PostIs, CallsAre
<1> QED
  BY <1>1, <1>9 DEF RecvInv, Phases

LEMMA RecvStarts == Init => RecvInv
<1> SUFFICES ASSUME Init
             PROVE  RecvInv
  OBVIOUS
<1>1. /\ asked \in Requests /\ input = Bytes(asked) /\ follow \in 0 .. Follow
      /\ head = <<>> /\ url = FALSE /\ chunked = FALSE /\ cgi = FALSE /\ discon = "no"
      /\ post = NoPost /\ calls = NoCalls /\ loose = FALSE
  BY DEF Init
<1>2. /\ asked \in Request /\ EndOf(asked, EolLen(asked)).head \in Nat \ {0}
      /\ Stands(Bytes(asked), asked, 0, EndOf(asked, EolLen(asked)).head + BodyLen(asked))
      /\ HeadIs(asked, <<>>, Kept(asked, 0))
  BY <1>1, Sizes, Fresh
<1>3. post \in Post /\ post.len = -1 /\ post.buffLen = 0 /\ post.received = 0
  BY <1>1, RecvAssumption DEF NoPost, Post
<1>4. /\ calls \in Calls /\ calls.started = 0 /\ calls.given = 0
      /\ calls.done = FALSE /\ calls.again = FALSE
  BY <1>1 DEF NoCalls, Calls
<1>5. HeadPhase
  <2>1. 0 \in 0 .. EndOf(asked, EolLen(asked)).head - 1
    BY <1>2
  <2> QED
    BY <1>1, <1>2, <1>3, <1>4, <2>1 DEF HeadPhase, PostIs, CallsAre
<1>6. TypeOK
  <2>1. input \in Seq(Token) /\ head \in Seq(Token)
    BY <1>1, <1>2, EmptySeq DEF Stands
  <2> QED
    BY <1>1, <1>2, <1>3, <1>4, <2>1, Typed
<1> QED
  BY <1>1, <1>5, <1>6 DEF RecvInv, Phases

-----------------------------------------------------------------------------
(* What holds whatever the CGI functions do and the client sends.           *)

\* A set of places in a sequence has a last one: the segment from it to the end is
\* minimal for inclusion.
LEMMA LastPlace ==
  ASSUME NEW n \in Nat, NEW S \in SUBSET (1 .. n), S # {}
  PROVE  \E m \in S : \A j \in S : j <= m
<1> DEFINE D == {x .. n : x \in S}
<1>1. D \subseteq FiniteSubsetsOf(Nat) /\ D # {}
  <2>1. ASSUME NEW x \in S PROVE x .. n \in FiniteSubsetsOf(Nat)
    <3>1. IsFiniteSet(x .. n)
      BY <2>1, FS_Interval
    <3> QED
      BY <3>1 DEF FiniteSubsetsOf
  <2> QED
    BY <2>1
<1>2. PICK T \in D : \A U \in D : ~(<<U, T>> \in StrictSubsetOrdering(Nat))
  <2> HIDE DEF D
  <2> QED
    BY <1>1, FS_StrictSubsetOrderingWellFounded, WFMin, Zenon
<1>3. PICK x \in S : T = x .. n
  BY <1>2
<1>4. ASSUME NEW y \in S PROVE y <= x
  <2>1. SUFFICES ASSUME x < y PROVE FALSE
    OBVIOUS
  <2>2. y .. n \subseteq x .. n /\ x \in x .. n /\ x \notin y .. n
    BY <2>1
  <2>3. y .. n \in SUBSET Nat /\ x .. n \in SUBSET Nat
    OBVIOUS
  <2>4. <<y .. n, T>> \in StrictSubsetOrdering(Nat)
    BY <1>3, <2>2, <2>3, Zenon DEF StrictSubsetOrdering
  <2> QED
    BY <1>2, <2>4
<1> QED
  BY <1>4

\* The length that a head states is one that some line of it states.
LEMMA LengthStated ==
  ASSUME NEW h \in Seq(Token)
  PROVE  ContentLength(h) \in Nat /\ (Lines(h, "len") = {} => ContentLength(h) = 0)
<1>1. CASE Lines(h, "len") = {}
  BY <1>1 DEF ContentLength
<1>2. CASE Lines(h, "len") # {}
  <2>1. PICK n \in Nat : n = Len(h) /\ DOMAIN h = 1 .. n
    BY LenProperties
  <2>2. Lines(h, "len") \in SUBSET (1 .. n)
    BY <2>1 DEF Lines
  <2>3. PICK m \in Lines(h, "len") : \A j \in Lines(h, "len") : j <= m
    <3> HIDE DEF Lines
    <3> QED
      BY <1>2, <2>2, LastPlace
  <2> DEFINE last == CHOOSE k \in Lines(h, "len") : \A j \in Lines(h, "len") : j <= k
  <2>4. last \in Lines(h, "len")
    BY <2>3
  <2>5. ContentLength(h) = h[last].n
    BY <1>2 DEF ContentLength
  <2>6. last \in 1 .. Len(h)
    BY <2>1, <2>2, <2>4
  <2> HIDE DEF last
  <2>7. h[last] \in Token
    BY <2>6, ElementOfSeq
  <2> QED
    BY <1>2, <2>5, <2>7 DEF Token
<1> QED
  BY <1>1, <1>2

\* The block of the body never outgrows the buffer; a CGI that is set is one that is
\* not done, and one that is not set has not been looked up or is done; so no call
\* was stale.
Sound ==
  /\ TypeOK
  /\ post.len < 0 => post.buffLen = 0 /\ cgi = FALSE
  /\ post.len > 0 => post.buffLen < post.buffSize
  /\ cgi = TRUE => calls.done = FALSE
  /\ cgi = FALSE => calls.started = 0 \/ calls.done = TRUE
  /\ calls.stale = FALSE

\* What Sound says of a call: of the CGI that is set, or else of one that is looked up.
LEMMA CallSound ==
  ASSUME NEW n \in Nat, NEW p \in Post, NEW chunks \in BOOLEAN, NEW h \in Seq(Token),
         NEW lookup \in BOOLEAN, NEW r \in {"MORE", "DONE"},
         Sound, lookup = TRUE <=> cgi = FALSE,
         p.len \in Nat, p.len > 0 => p.buffLen < p.buffSize,
         CallCgi(n, p, chunks, h, lookup, r)
  PROVE  /\ calls' \in Calls /\ calls'.stale = FALSE /\ cgi' \in BOOLEAN
         /\ cgi' = TRUE => calls'.done = FALSE
         /\ cgi' = FALSE => calls'.started = 0 \/ calls'.done = TRUE
         /\ post' \in Post /\ chunked' \in BOOLEAN /\ head' \in Seq(Token)
         /\ discon' \in {"no", "marked", "closed"}
         /\ post'.len < 0 => post'.buffLen = 0 /\ cgi' = FALSE
         /\ post'.len > 0 => post'.buffLen < post'.buffSize
<1>1. /\ calls \in Calls /\ cgi \in BOOLEAN /\ discon \in {"no", "marked", "closed"}
      /\ calls.stale = FALSE /\ (cgi = TRUE => calls.done = FALSE)
      /\ (cgi = FALSE => calls.started = 0 \/ calls.done = TRUE)
  BY Typed DEF Sound
<1>2. IsAfter(Called(calls, n, lookup, r), calls, n, lookup, r)
  BY <1>1, CalledIs, Zenon
<1>3. calls' = Called(calls, n, lookup, r) /\ cgi' = (r = "MORE")
  BY Zenon DEF CallCgi, CgiAfter
<1>t. IsAfter(calls', calls, n, lookup, r)
  BY <1>2, <1>3, Zenon
<1>d. calls' \in Calls /\ calls'.done = (r = "DONE")
  BY <1>t DEF IsAfter
<1>4. calls'.stale = FALSE
  <2>1. calls'.stale = (\/ calls.stale
                        \/ calls.done /\ ~lookup
                        \/ lookup /\ calls.started > 0 /\ ~calls.done)
    BY <1>t, Zenon DEF IsAfter
  <2>2. CASE cgi = TRUE
    <3>1. lookup = FALSE /\ calls.done = FALSE
      BY <1>1, <2>2
    <3> QED
      BY <1>1, <2>1, <3>1
  <2>3. CASE cgi = FALSE
    <3>1. lookup = TRUE /\ ~(calls.started > 0 /\ ~calls.done)
      BY <1>1, <2>3
    <3> QED
      BY <1>1, <2>1, <3>1
  <2> QED
    BY <1>1, <2>2, <2>3
<1>5. CASE r = "MORE"
  <2>1. post' = p /\ discon' = discon /\ chunked' = chunks /\ head' = h
    BY <1>5, CallMore
  <2>2. cgi' = TRUE /\ calls'.done = FALSE
    BY <1>3, <1>5, <1>d
  <2> QED
    BY <1>1, <1>4, <1>d, <2>1, <2>2
<1>6. CASE r = "DONE"
  <2>1. /\ post' \in Post /\ post'.buffSize = p.buffSize
        /\ chunks = TRUE =>
             post'.len = -1 /\ post'.buffLen = 0 /\ post'.received = 0 /\ head' = <<>>
        /\ chunks = FALSE => post' = p /\ head' = h
        /\ discon' = "marked" /\ chunked' = FALSE
    BY <1>6, CallDone
  <2>2. cgi' = FALSE /\ calls'.done = TRUE
    BY <1>3, <1>6, <1>d
  <2>3. head' \in Seq(Token)
    BY <2>1, EmptySeq
  <2>4. post'.len < 0 => post'.buffLen = 0
    <3>1. CASE chunks = TRUE
      BY <2>1, <3>1
    <3>2. CASE chunks = FALSE
      BY <2>1, <3>2
    <3> QED
      BY <3>1, <3>2
  <2>5. post'.len > 0 => post'.buffLen < post'.buffSize
    <3>1. CASE chunks = TRUE
      BY <2>1, <3>1
    <3>2. CASE chunks = FALSE
      BY <2>1, <3>2
    <3> QED
      BY <3>1, <3>2
  <2> QED
    BY <1>4, <1>d, <2>1, <2>2, <2>3, <2>4, <2>5
<1> QED
  BY <1>5, <1>6

LEMMA SoundHeadByte ==
  ASSUME Sound, HeadByte
  PROVE  Sound'
<1> DEFINE b == Head(input)
           h == AddToHead(head, b)
<1>1. /\ input # <<>> /\ post.len < 0 /\ input' = Tail(input)
      /\ asked' = asked /\ follow' = follow /\ loose' = loose
  BY DEF HeadByte
<1>2. /\ input \in Seq(Token) /\ asked \in Request /\ follow \in 0 .. Follow
      /\ head \in Seq(Token) /\ post \in Post
      /\ url \in BOOLEAN /\ chunked \in BOOLEAN /\ cgi \in BOOLEAN
      /\ discon \in {"no", "marked", "closed"} /\ calls \in Calls /\ loose \in BOOLEAN
  BY Typed DEF Sound
<1>3. input' \in Seq(Token) /\ b \in Token
  BY <1>1, <1>2, Rest
<1>4. h \in Seq(Token)
  <2> DEFINE faked == IF b = LF /\ head # <<>> /\ Last(head) # CR THEN Append(head, CR) ELSE head
  <2>1. faked \in Seq(Token)
    BY <1>2, Tokens, AppendProperties
  <2>2. Append(faked, b) \in Seq(Token)
    <3> HIDE DEF faked, b
    <3> QED
      BY <1>3, <2>1, AppendProperties
  <2>3. h = IF Len(faked) # MaxHead THEN Append(faked, b) ELSE faked
    BY DEF AddToHead
  <2> QED
    BY <2>1, <2>2, <2>3
<1>5. /\ post.buffLen = 0 /\ cgi = FALSE /\ calls.stale = FALSE
      /\ calls.started = 0 \/ calls.done = TRUE
  BY <1>1 DEF Sound
<1> DEFINE len == ContentLength(h)
           p == [post EXCEPT !.len = len,
                   !.buffSize = IF Lines(h, "len") = {} THEN @ ELSE BuffSize(len)]
           chunks == WantsChunks(h, chunked)
<1>6. IF ~EndsHead(h, b)
      THEN head' = h /\ UNCHANGED <<url, chunked, post, cgi, discon, calls>>
      ELSE /\ url' = (Lines(h, "request") # {})
           /\ IF len = 0 /\ url'
              THEN \E r \in {"MORE", "DONE"} : CallCgi(p.buffLen, p, chunks, h, TRUE, r)
              ELSE /\ post' = p /\ chunked' = chunks /\ head' = h
                   /\ UNCHANGED <<cgi, discon, calls>>
  BY DEF HeadByte
<1> HIDE DEF h, b
<1>7. len \in Nat /\ (Lines(h, "len") = {} => len = 0)
  BY <1>4, LengthStated
<1>8. p \in Post /\ p.len = len /\ p.buffLen = 0 /\ (len > 0 => 0 < p.buffSize)
  <2>1. PICK size \in 0 .. MaxPost :
          /\ size = (IF Lines(h, "len") = {} THEN post.buffSize ELSE BuffSize(len))
          /\ len > 0 => 0 < size
    <3>1. post.buffSize \in 0 .. MaxPost
      BY <1>2 DEF Post
    <3>2. BuffSize(len) \in 0 .. MaxPost /\ (len > 0 => 0 < BuffSize(len))
      BY <1>7, RecvAssumption DEF BuffSize
    <3> QED
      BY <1>7, <3>1, <3>2
  <2>2. p = [post EXCEPT !.len = len, !.buffSize = size]
    BY <2>1
  <2> HIDE DEF len
  <2> QED
    BY <1>2, <1>5, <1>7, <2>1, <2>2 DEF Post
<1>9. chunks \in BOOLEAN
  BY DEF WantsChunks
<1> HIDE DEF len, p, chunks
<1>10. CASE ~EndsHead(h, b)
  <2>1. /\ head' = h /\ url' = url /\ chunked' = chunked /\ post' = post
        /\ cgi' = cgi /\ discon' = discon /\ calls' = calls
    BY <1>6, <1>10
  <2>2. TypeOK'
    BY <1>1, <1>2, <1>3, <1>4, <2>1 DEF TypeOK, Token, Post, Calls
  <2> QED
    BY <2>1, <2>2 DEF Sound
<1>11. CASE EndsHead(h, b)
  <2>1. url' \in BOOLEAN
    BY <1>6, <1>11
  <2>2. CASE len = 0 /\ url'
    <3>1. PICK r \in {"MORE", "DONE"}, n \in Nat, lookup \in BOOLEAN :
            lookup = TRUE /\ n = p.buffLen /\ CallCgi(n, p, chunks, h, lookup, r)
      <4>1. PICK r \in {"MORE", "DONE"} : CallCgi(p.buffLen, p, chunks, h, TRUE, r)
        BY <1>6, <1>11, <2>2
      <4>2. p.buffLen \in Nat /\ TRUE \in BOOLEAN
        BY <1>8
      <4> QED
        BY <4>1, <4>2
    <3>2. /\ p.len \in Nat /\ (p.len > 0 => p.buffLen < p.buffSize)
          /\ (lookup = TRUE <=> cgi = FALSE)
      BY <1>5, <1>7, <1>8, <3>1
    <3>3. /\ calls' \in Calls /\ calls'.stale = FALSE /\ cgi' \in BOOLEAN
          /\ cgi' = TRUE => calls'.done = FALSE
          /\ cgi' = FALSE => calls'.started = 0 \/ calls'.done = TRUE
          /\ post' \in Post /\ chunked' \in BOOLEAN /\ head' \in Seq(Token)
          /\ discon' \in {"no", "marked", "closed"}
          /\ post'.len < 0 => post'.buffLen = 0 /\ cgi' = FALSE
          /\ post'.len > 0 => post'.buffLen < post'.buffSize
      BY <1>4, <1>8, <1>9, <3>1, <3>2, CallSound, Zenon
    <3>4. TypeOK'
      BY <1>1, <1>2, <1>3, <2>1, <3>3 DEF TypeOK, Token, Post, Calls
    <3> QED
      BY <3>3, <3>4 DEF Sound
  <2>3. CASE ~(len = 0 /\ url')
    <3>1. /\ post' = p /\ chunked' = chunks /\ head' = h
          /\ cgi' = cgi /\ discon' = discon /\ calls' = calls
      BY <1>6, <1>11, <2>3
    <3>2. TypeOK'
      BY <1>1, <1>2, <1>3, <1>4, <1>8, <1>9, <2>1, <3>1 DEF TypeOK, Token, Post, Calls
    <3> QED
      BY <1>5, <1>7, <1>8, <3>1, <3>2 DEF Sound
  <2> QED
    BY <2>2, <2>3
<1> QED
  BY <1>10, <1>11

LEMMA SoundBodyByte ==
  ASSUME Sound, BodyByte
  PROVE  Sound'
<1> DEFINE p == [post EXCEPT !.buffLen = @ + 1, !.received = @ + 1]
           emptied == [p EXCEPT !.buffLen = 0]
<1>1. /\ input # <<>> /\ post.len > 0 /\ input' = Tail(input)
      /\ asked' = asked /\ follow' = follow /\ url' = url
  BY DEF BodyByte
<1>2. /\ input \in Seq(Token) /\ asked \in Request /\ follow \in 0 .. Follow
      /\ head \in Seq(Token) /\ post \in Post
      /\ url \in BOOLEAN /\ chunked \in BOOLEAN /\ cgi \in BOOLEAN
      /\ discon \in {"no", "marked", "closed"} /\ calls \in Calls /\ loose \in BOOLEAN
  BY Typed DEF Sound
<1>3. input' \in Seq(Token)
  BY <1>1, <1>2, Rest
<1>4. post.buffLen < post.buffSize
  BY <1>1 DEF Sound
<1>5. /\ p \in Post /\ p.len = post.len /\ p.buffSize = post.buffSize
      /\ p.buffLen = post.buffLen + 1
      /\ emptied \in Post /\ emptied.len = post.len /\ emptied.buffSize = post.buffSize
      /\ emptied.buffLen = 0
  <2>1. PICK w \in 0 .. MaxPost, n \in Nat : w = post.buffLen + 1 /\ n = post.received + 1
    BY <1>2, <1>4, RecvAssumption DEF Post
  <2>2. p = [post EXCEPT !.buffLen = w, !.received = n]
    BY <2>1
  <2>3. /\ p \in Post /\ p.len = post.len /\ p.buffSize = post.buffSize
        /\ p.buffLen = post.buffLen + 1
    BY <1>2, <2>1, <2>2 DEF Post
  <2>4. 0 \in 0 .. MaxPost
    BY RecvAssumption
  <2> HIDE DEF p
  <2> QED
    BY <2>3, <2>4 DEF Post
<1>6. IF ~BlockComplete(p) \/ ~(cgi \/ url)
      THEN /\ post' = IF BlockComplete(p) THEN emptied ELSE p
           /\ UNCHANGED <<head, chunked, cgi, discon, calls, loose>>
      ELSE \E r \in {"MORE", "DONE"} :
             /\ CallCgi(p.buffLen, emptied, chunked, head, ~cgi, r)
             /\ loose' = (loose \/ (r = "DONE" /\ ~BodyComplete(p)))
  BY DEF BodyByte
<1> HIDE DEF p, emptied
<1>7. CASE ~BlockComplete(p) \/ ~(cgi \/ url)
  <2>1. /\ head' = head /\ chunked' = chunked /\ cgi' = cgi
        /\ discon' = discon /\ calls' = calls /\ loose' = loose
        /\ post' = IF BlockComplete(p) THEN emptied ELSE p
    BY <1>6, <1>7
  <2>2. post' \in Post /\ post'.len = post.len /\ post'.buffLen < post'.buffSize
    <3>1. CASE BlockComplete(p)
      BY <1>2, <1>4, <1>5, <2>1, <3>1 DEF Post
    <3>2. CASE ~BlockComplete(p)
      BY <1>2, <1>5, <2>1, <3>2 DEF Post, BlockComplete
    <3> QED
      BY <3>1, <3>2
  <2>3. TypeOK'
    BY <1>1, <1>2, <1>3, <2>1, <2>2 DEF TypeOK, Token, Post, Calls
  <2> QED
    BY <1>1, <1>2, <2>1, <2>2, <2>3 DEF Sound, Post
<1>8. CASE ~(~BlockComplete(p) \/ ~(cgi \/ url))
  <2>1. PICK r \in {"MORE", "DONE"}, n \in Nat, lookup \in BOOLEAN :
          /\ lookup = ~cgi /\ n = p.buffLen
          /\ CallCgi(n, emptied, chunked, head, lookup, r)
          /\ loose' = (loose \/ (r = "DONE" /\ ~BodyComplete(p)))
    <3>1. p.buffLen \in Nat /\ (~cgi) \in BOOLEAN
      BY <1>5 DEF Post
    <3> QED
      BY <1>6, <1>8, <3>1
  <2>2. /\ emptied.len \in Nat /\ (emptied.len > 0 => emptied.buffLen < emptied.buffSize)
        /\ (lookup = TRUE <=> cgi = FALSE)
    <3>1. post.len \in Nat /\ post.buffLen \in Nat /\ post.buffSize \in Nat
      BY <1>1, <1>2, RecvAssumption DEF Post
    <3>2. lookup = TRUE <=> cgi = FALSE
      BY <1>2, <2>1
    <3> QED
      BY <1>4, <1>5, <3>1, <3>2
  <2>3. /\ calls' \in Calls /\ calls'.stale = FALSE /\ cgi' \in BOOLEAN
        /\ cgi' = TRUE => calls'.done = FALSE
        /\ cgi' = FALSE => calls'.started = 0 \/ calls'.done = TRUE
        /\ post' \in Post /\ chunked' \in BOOLEAN /\ head' \in Seq(Token)
        /\ discon' \in {"no", "marked", "closed"}
        /\ post'.len < 0 => post'.buffLen = 0 /\ cgi' = FALSE
        /\ post'.len > 0 => post'.buffLen < post'.buffSize
    BY <1>2, <1>5, <2>1, <2>2, CallSound, Zenon
  <2>4. loose' \in BOOLEAN
    BY <2>1
  <2>5. TypeOK'
    BY <1>1, <1>2, <1>3, <2>3, <2>4 DEF TypeOK, Token, Post, Calls
  <2> QED
    BY <2>3, <2>5 DEF Sound
<1> QED
  BY <1>7, <1>8

LEMMA SoundContinue ==
  ASSUME Sound, Continue
  PROVE  Sound'
<1>1. /\ cgi = TRUE
      /\ input' = input /\ asked' = asked /\ follow' = follow /\ url' = url
      /\ loose' = (loose \/ ~BodyComplete(post))
      /\ \E r \in {"MORE", "DONE"} : CallCgi(post.buffLen, post, chunked, head, FALSE, r)
  BY Typed DEF Continue, Sound
<1>2. /\ input \in Seq(Token) /\ asked \in Request /\ follow \in 0 .. Follow
      /\ head \in Seq(Token) /\ post \in Post
      /\ url \in BOOLEAN /\ chunked \in BOOLEAN /\ loose \in BOOLEAN
  BY Typed DEF Sound
<1>3. PICK r \in {"MORE", "DONE"}, n \in Nat, lookup \in BOOLEAN :
        lookup = FALSE /\ n = post.buffLen /\ CallCgi(n, post, chunked, head, lookup, r)
  <2>1. post.buffLen \in Nat
    BY <1>2 DEF Post
  <2> QED
    BY <1>1, <2>1
<1>4. /\ post.len \in Nat /\ (post.len > 0 => post.buffLen < post.buffSize)
      /\ (lookup = TRUE <=> cgi = FALSE)
  BY <1>1, <1>2, <1>3 DEF Sound, Post
<1>5. /\ calls' \in Calls /\ calls'.stale = FALSE /\ cgi' \in BOOLEAN
      /\ cgi' = TRUE => calls'.done = FALSE
      /\ cgi' = FALSE => calls'.started = 0 \/ calls'.done = TRUE
      /\ post' \in Post /\ chunked' \in BOOLEAN /\ head' \in Seq(Token)
      /\ discon' \in {"no", "marked", "closed"}
      /\ post'.len < 0 => post'.buffLen = 0 /\ cgi' = FALSE
      /\ post'.len > 0 => post'.buffLen < post'.buffSize
  BY <1>2, <1>3, <1>4, CallSound, Zenon
<1>6. TypeOK'
  BY <1>1, <1>2, <1>5 DEF TypeOK, Token, Post, Calls
<1> QED
  BY <1>5, <1>6 DEF Sound

\* The steps of the client, and those of the server that call no CGI.
LEMMA SoundOthers ==
  ASSUME Sound, \/ OtherByte \/ Close \/ StrayLine \/ UNCHANGED vars
                \/ \E r \in Requests : NextRequest(r)
  PROVE  Sound'
<1>1. /\ input \in Seq(Token) /\ asked \in Request /\ follow \in 0 .. Follow
      /\ head \in Seq(Token) /\ post \in Post
      /\ url \in BOOLEAN /\ chunked \in BOOLEAN /\ cgi \in BOOLEAN
      /\ discon \in {"no", "marked", "closed"} /\ calls \in Calls /\ loose \in BOOLEAN
  BY Typed DEF Sound
<1>2. /\ post' = post /\ cgi' = cgi /\ head' = head /\ url' = url /\ chunked' = chunked
  BY DEF OtherByte, Close, StrayLine, NextRequest, vars
<1>3. follow' \in 0 .. Follow
  <2>1. follow' = follow \/ (follow > 0 /\ follow' = follow - 1)
    BY DEF OtherByte, Close, StrayLine, NextRequest, vars
  <2> QED
    BY <1>1, <2>1, RecvAssumption
<1>4. discon' \in {"no", "marked", "closed"} /\ loose' \in BOOLEAN
  BY <1>1 DEF OtherByte, Close, StrayLine, NextRequest, vars
<1>5. input' \in Seq(Token) /\ asked' \in Request
  <2>1. CASE OtherByte
    BY <1>1, <2>1, Rest DEF OtherByte
  <2>2. CASE Close \/ UNCHANGED vars
    BY <1>1, <2>2 DEF Close, vars
  <2>3. CASE StrayLine
    BY <1>1, <2>3, EolIs DEF StrayLine
  <2>4. ASSUME NEW r \in Requests, NextRequest(r)
        PROVE  input' \in Seq(Token) /\ asked' \in Request
    <3>1. asked' = r /\ input' = Bytes(r)
      BY <2>4 DEF NextRequest
    <3> QED
      BY <3>1, Sizes, Fresh DEF Stands
  <2> QED
    BY <2>1, <2>2, <2>3, <2>4
<1>6. /\ calls' \in Calls /\ calls'.stale = FALSE
      /\ cgi' = TRUE => calls'.done = FALSE
      /\ cgi' = FALSE => calls'.started = 0 \/ calls'.done = TRUE
  <2>1. CASE calls' = calls
    BY <1>1, <1>2, <2>1 DEF Sound
  <2>2. CASE calls' = NoCalls
    BY <2>2 DEF NoCalls, Calls
  <2>3. calls' = calls \/ calls' = NoCalls
    BY DEF OtherByte, Close, StrayLine, NextRequest, vars
  <2> QED
    BY <2>1, <2>2, <2>3
<1>7. TypeOK'
  BY <1>1, <1>2, <1>3, <1>4, <1>5, <1>6 DEF TypeOK, Token, Post, Calls
<1> QED
  BY <1>2, <1>6, <1>7 DEF Sound

LEMMA SoundInvariant == Spec => []Sound
<1>1. Init => Sound
  <2> SUFFICES ASSUME Init
               PROVE  Sound
    OBVIOUS
  <2>1. TypeOK
    BY RecvStarts DEF RecvInv
  <2>2. /\ post.len = -1 /\ post.buffLen = 0 /\ cgi = FALSE
        /\ calls.started = 0 /\ calls.stale = FALSE
    BY DEF Init, NoPost, NoCalls
  <2> QED
    BY <2>1, <2>2 DEF Sound
<1>2. Sound /\ [Next]_vars => Sound'
  BY SoundHeadByte, SoundBodyByte, SoundContinue, SoundOthers DEF Next
<1> QED
  BY <1>1, <1>2, PTL DEF Spec

-----------------------------------------------------------------------------
(* As long as CGI functions wait for the body and nothing is sent behind it. *)

LEMMA TightStep ==
  ASSUME HeadsFit
  PROVE  Sound /\ TightInv /\ [Next]_vars => TightInv'
<1> SUFFICES ASSUME Sound, TightInv, [Next]_vars, loose' = FALSE
             PROVE  Phases'
  BY DEF TightInv
<1>0. loose = FALSE
  <2>1. loose \in BOOLEAN
    BY Typed DEF Sound
  <2>2. loose' = loose \/ \E early \in BOOLEAN : loose' = (loose \/ early)
    <3>1. CASE HeadByte \/ OtherByte \/ Close \/ UNCHANGED vars
               \/ \E r \in Requests : NextRequest(r)
      BY <3>1 DEF HeadByte, OtherByte, Close, NextRequest, vars
    <3>2. CASE BodyByte
      <4> DEFINE p == [post EXCEPT !.buffLen = @ + 1, !.received = @ + 1]
      <4>1. \/ loose' = loose
            \/ \E r \in {"MORE", "DONE"} :
                 loose' = (loose \/ (r = "DONE" /\ ~BodyComplete(p)))
        BY <3>2 DEF BodyByte
      <4> HIDE DEF p
      <4>2. ASSUME NEW r \in {"MORE", "DONE"}
            PROVE  (r = "DONE" /\ ~BodyComplete(p)) \in BOOLEAN
        OBVIOUS
      <4> QED
        BY <4>1, <4>2, Zenon
    <3>3. CASE Continue
      <4>1. loose' = (loose \/ ~BodyComplete(post)) /\ (~BodyComplete(post)) \in BOOLEAN
        BY <3>3 DEF Continue
      <4> QED
        BY <4>1, Zenon
    <3>4. CASE StrayLine
      BY <3>4 DEF StrayLine
    <3> QED
      BY <3>1, <3>2, <3>3, <3>4 DEF Next
  <2> QED
    BY <2>1, <2>2
<1>r. RecvInv
  BY <1>0 DEF Sound, TightInv, RecvInv
<1>1. CASE HeadByte
  BY <1>r, <1>1, HeadByteKeeps
<1>2. CASE BodyByte
  BY <1>r, <1>2, BodyByteKeeps
<1>3. CASE OtherByte
  BY <1>r, <1>3, OtherByteKeeps
<1>4. CASE Continue
  BY <1>r, <1>4, ContinueKeeps
<1>5. CASE Close
  BY <1>r, <1>5, CloseKeeps
<1>6. CASE StrayLine
  BY <1>r, <1>6, StrayLineKeeps
<1>7. ASSUME NEW r \in Requests, NextRequest(r)
      PROVE  Phases'
  BY <1>r, <1>7, NextRequestKeeps
<1>8. CASE UNCHANGED vars
  BY <1>r, <1>8 DEF vars, RecvInv, Phases, HeadPhase, BodyPhase, AnswerPhase, DonePhase,
    PostIs, CallsAre
<1> QED
  BY <1>1, <1>2, <1>3, <1>4, <1>5, <1>6, <1>7, <1>8 DEF Next

LEMMA TightInvariant ==
  ASSUME HeadsFit
  PROVE  Spec => [](Sound /\ TightInv)
<1>1. Init => TightInv
  BY RecvStarts DEF TightInv, RecvInv
<1>2. Sound /\ TightInv /\ [Next]_vars => TightInv'
  BY TightStep
<1> QED
  BY <1>1, <1>2, SoundInvariant, PTL DEF Spec

\* Where the server is with a request when nothing loose happened.
LEMMA WhenTight == Sound /\ TightInv /\ loose = FALSE => RecvInv
BY DEF Sound, TightInv, RecvInv

-----------------------------------------------------------------------------
(* The theorems.                                                            *)

\* The state of a request stays well formed, whatever CGI functions do and the client
\* sends: the block of the body that waits never outgrows the POST buffer.
\* (httpdRecvCb, httpdParseHeader)
THEOREM RequestTypes == Spec => []TypeOK
<1>1. Sound => TypeOK
  BY DEF Sound
<1> QED
  BY <1>1, SoundInvariant, PTL

\* For every size of the two buffers and every set of requests whose heads fit, with
\* line ends of either kind and on a connection that is used again: when all of a
\* request has been read a CGI function has been looked up for it, once. (httpdRecvCb)
THEOREM OneLookup ==
  ASSUME HeadsFit
  PROVE  Spec => []LookedUpOnce
<1>1. Sound /\ TightInv => LookedUpOnce
  <2>1. SUFFICES ASSUME Sound, TightInv, loose = FALSE, input = <<>>
                 PROVE  calls.started = 1
    BY Typed DEF LookedUpOnce, Sound
  <2> QED
    BY <2>1, WhenTight, AllRead DEF AnswerPhase, DonePhase, CallsAre
<1> QED
  BY <1>1, TightInvariant, PTL

\* Under the same conditions the CGI is given the whole body and nothing else, and the
\* count it is shown is that of the bytes it has had and those that wait for it.
\* (httpdParseHeader, httpdRecvCb)
THEOREM WholeBodyArrives ==
  ASSUME HeadsFit
  PROVE  Spec => []BodyArrives
<1>1. RecvInv => BodyIsGiven
  BY AllRead DEF BodyIsGiven, AnswerPhase, DonePhase, CallsAre, BodyLen
<1>2. RecvInv => ReceivedIsTotal
  <2>0. SUFFICES ASSUME RecvInv, post.len > 0
                 PROVE  post.received = calls.given + post.buffLen /\ post.received <= post.len
    BY DEF ReceivedIsTotal
  <2>1. asked \in Requests /\ (HeadPhase \/ BodyPhase \/ AnswerPhase \/ DonePhase)
    BY <2>0 DEF RecvInv, Phases
  <2>2. PICK body \in Nat : body = BodyLen(asked)
    BY <2>1, Sizes
  <2>3. ~HeadPhase
    BY <2>0, <2>1, InHead
  <2>4. CASE BodyPhase
    BY <2>2, <2>4 DEF BodyPhase, PostIs, CallsAre
  <2>5. CASE AnswerPhase
    BY <2>2, <2>5 DEF AnswerPhase, PostIs, CallsAre
  <2>6. CASE DonePhase
    <3>1. KeepsOpen(asked) => post.len = -1
      BY <2>6 DEF DonePhase, PostIs
    <3>2. ~KeepsOpen(asked) => post.len = body /\ post.buffLen = 0 /\ post.received = body
      BY <2>2, <2>6 DEF DonePhase, PostIs
    <3>3. calls.given = body
      BY <2>2, <2>6 DEF DonePhase, CallsAre
    <3> QED
      BY <2>0, <3>1, <3>2, <3>3
  <2> QED
    BY <2>1, <2>3, <2>4, <2>5, <2>6
<1>3. Sound /\ TightInv => BodyArrives
  <2>1. SUFFICES ASSUME Sound, TightInv, loose = FALSE
                 PROVE  BodyIsGiven /\ ReceivedIsTotal
    BY Typed DEF BodyArrives, Sound
  <2> QED
    BY <1>1, <1>2, <2>1, WhenTight
<1> QED
  BY <1>3, TightInvariant, PTL

\* Whatever CGI functions do and the client sends, a CGI function that has finished is
\* not called but by looking it up again, with cgiData = NULL, and none is looked up in
\* place of another that has not. (httpdCgiIsDone, httpdRecvCb, httpdContinue,
\* httpdProcessRequest)
THEOREM NoStaleCall == Spec => []NeverStale
<1>1. Sound => NeverStale
  BY DEF Sound, NeverStale
<1> QED
  BY <1>1, SoundInvariant, PTL

\* A CGI function that has finished with a request is called again for it only if it
\* finished, or sent, before it had the whole body, or the client sent something behind
\* the request. (httpdRecvCb, httpdCgiIsDone)
THEOREM DoneIsDone ==
  ASSUME HeadsFit
  PROVE  Spec => []CalledAgainOnlyAnew
<1>1. Sound => NeverStale
  BY DEF Sound, NeverStale
<1>2. Sound /\ TightInv => (calls.again => loose)
  <2>1. SUFFICES ASSUME Sound, TightInv, loose = FALSE
                 PROVE  calls.again = FALSE
    BY Typed DEF Sound
  <2> QED
    BY <2>1, WhenTight DEF RecvInv, Phases, HeadPhase, BodyPhase, AnswerPhase, DonePhase,
      CallsAre
<1>3. Sound /\ TightInv => CalledAgainOnlyAnew
  BY <1>1, <1>2 DEF CalledAgainOnlyAnew
<1> QED
  BY <1>3, TightInvariant, PTL
=============================================================================
