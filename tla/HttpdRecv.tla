------------------------------ MODULE HttpdRecv ------------------------------
(***************************************************************************)
(* How httpdRecvCb takes a request apart, byte by byte: the head is        *)
(* collected in a buffer of fixed size until an empty line ends it, its    *)
(* lines are parsed, and the body is handed to the CGI function in blocks. *)
(*                                                                         *)
(* One connection and one client that sends whole requests. A token stands *)
(* for one byte of the head, except that a request line or a header that   *)
(* the server looks at is one token as a whole.                            *)
(***************************************************************************)
EXTENDS Integers, Sequences, SequencesExt

CONSTANTS
  MaxHead,     \* HTTPD_MAX_HEAD_LEN
  MaxPost,     \* HTTPD_MAX_POST_LEN
  Requests,    \* what the client may send: [http11, close, fill, eol, len]
  Follow,      \* the client may send this many more requests or stray lines
  MaxGiven     \* bound: a CGI that has had this many bytes is given none again

Tok(k, n) == [k |-> k, n |-> n]
CR == Tok("cr", 0)
LF == Tok("lf", 0)
Other == Tok("other", 0)

\* fill: bytes of headers the server ignores. eol: "crlf", or "lf" for a client
\* that ends its lines in \n only. len: Content-Length, -1 for none.
Request ==
  [http11 : BOOLEAN, close : BOOLEAN, fill : Nat, eol : {"crlf", "lf"},
   len : Nat \cup {-1}]

ASSUME RecvAssumption ==
  /\ MaxHead \in Nat \ {0} /\ MaxPost \in Nat \ {0}
  /\ \A r \in Requests : r \in Request
  /\ Follow \in Nat /\ MaxGiven \in Nat

Eol(r) == IF r.eol = "crlf" THEN <<CR, LF>> ELSE <<LF>>

Bytes(r) ==
  <<Tok("request", IF r.http11 THEN 1 ELSE 0)>> \o Eol(r)
  \o (IF r.close THEN <<Tok("close", 0)>> \o Eol(r) ELSE <<>>)
  \o (IF r.fill = 0 THEN <<>> ELSE [k \in 1 .. r.fill |-> Other] \o Eol(r))
  \o (IF r.len = -1 THEN <<>> ELSE <<Tok("len", r.len)>> \o Eol(r))
  \o Eol(r)
  \o [k \in 1 .. (IF r.len = -1 THEN 0 ELSE r.len) |-> Other]

VARIABLES
  input,    \* what the client has sent and the server has not read
  asked,    \* history: the request the client sent last
  follow,   \* how many more requests or stray lines the client will send
  head,     \* priv->head, up to headPos
  url,      \* conn->url is set
  chunked,  \* HFL_CHUNKED
  post,     \* conn->post
  cgi,      \* conn->cgi is set
  discon,   \* "no"; "marked", by HFL_DISCONAFTERSENT; or "closed"
  calls,    \* history of the calls of the CGI for the current request
  loose     \* history: a CGI did not wait for the whole body, or the client sent
            \* a stray line behind a body or on a connection that is kept open

vars == <<input, asked, follow, head, url, chunked, post, cgi, discon, calls, loose>>

\* len: < 0 while the head is received, 0 without a body.
NoPost == [len |-> -1, buffSize |-> 0, buffLen |-> 0, received |-> 0]

\* started: times a CGI was looked up; given: bytes of the body it has had; done:
\* it returned DONE; again: it, or another, was called after that; stale: it was
\* called after that without having been looked up again, or another one was
\* looked up before it was done.
NoCalls == [started |-> 0, given |-> 0, done |-> FALSE, again |-> FALSE, stale |-> FALSE]

TypeOK ==
  /\ input \in Seq([k : {"cr", "lf", "other", "request", "close", "len"}, n : Nat])
  /\ asked \in Request
  /\ follow \in 0 .. Follow
  /\ head \in Seq([k : {"cr", "lf", "other", "request", "close", "len"}, n : Nat])
  /\ post \in [len : Nat \cup {-1}, buffSize : 0 .. MaxPost, buffLen : 0 .. MaxPost,
               received : Nat]
  /\ {url, chunked, cgi, loose} \subseteq BOOLEAN
  /\ discon \in {"no", "marked", "closed"}
  /\ calls \in [started : Nat, given : Nat, done : BOOLEAN, again : BOOLEAN,
                stale : BOOLEAN]

Init ==
  /\ asked \in Requests
  /\ input = Bytes(asked)
  /\ follow \in 0 .. Follow
  /\ head = <<>> /\ url = FALSE /\ chunked = FALSE
  /\ post = NoPost
  /\ cgi = FALSE
  /\ discon = "no"
  /\ calls = NoCalls
  /\ loose = FALSE

-----------------------------------------------------------------------------
(* The head.                                                                *)

\* A line may end in \n alone: a \r is put in front of it. Then the byte is
\* added if there is room; the \r is added without a look at the room.
AddToHeadBare(h, b) == IF Len(h) # MaxHead THEN Append(h, b) ELSE h
AddToHead(h, b) ==
  LET faked == IF b = LF /\ h # <<>> /\ Last(h) # CR THEN Append(h, CR) ELSE h
  IN IF Len(faked) # MaxHead THEN Append(faked, b) ELSE faked

\* strstr(head, "\r\n\r\n")
EndsHead(h, b) ==
  b = LF /\ \E k \in 1 .. Len(h) - 3 : SubSeq(h, k, k + 3) = <<CR, LF, CR, LF>>

\* httpdParseHeader, for the lines of the head.
Starts(h, k) == k = 1 \/ (k > 2 /\ h[k - 2] = CR /\ h[k - 1] = LF)
Lines(h, what) == {k \in DOMAIN h : h[k].k = what /\ Starts(h, k)}

ContentLength(h) ==
  IF Lines(h, "len") = {} THEN 0
  ELSE h[CHOOSE k \in Lines(h, "len") : \A j \in Lines(h, "len") : j <= k].n

\* HTTP/1.1 sets chunked mode, a later "Connection: close" clears it.
WantsChunks(h, before) ==
  (before \/ \E k \in Lines(h, "request") : h[k].n = 1) /\ Lines(h, "close") = {}

BuffSize(len) == IF len > MaxPost THEN MaxPost ELSE len

-----------------------------------------------------------------------------
(* Calling the CGI.                                                         *)

\* Nothing of the body is missing.
BodyComplete(p) == p.received >= p.len

Called(c, n, lookup, r) ==
  [started |-> IF lookup THEN c.started + 1 ELSE c.started,
   given   |-> c.given + n,
   done    |-> r = "DONE",
   again   |-> c.again \/ c.done,
   stale   |-> \/ c.stale
               \/ c.done /\ ~lookup
               \/ lookup /\ c.started > 0 /\ ~c.done]

\* httpdCgiIsDone. A chunked response makes the connection ready for the next
\* request; otherwise the state of the request stays as it is. Either way the
\* connection is marked: the next sent callback closes it.
CgiIsDoneAlwaysReady(p, chunks) ==
  [p EXCEPT !.len = -1, !.buffLen = 0, !.received = 0]
CgiIsDone(p, chunks) ==
  IF chunks THEN [p EXCEPT !.len = -1, !.buffLen = 0, !.received = 0] ELSE p

\* httpdCgiIsDone clears conn->cgi.
CgiAfterKept(r) == TRUE
CgiAfter(r) == r = "MORE"

\* The CGI, or after httpdProcessRequest has looked one up, is called with n bytes
\* in the buffer of the body, and returns r. p is what the caller leaves of post.
CallCgi(n, p, chunks, h, lookup, r) ==
  /\ calls' = Called(calls, n, lookup, r)
  /\ cgi' = CgiAfter(r)
  /\ IF r = "DONE"
     THEN /\ discon' = "marked"
          /\ post' = CgiIsDone(p, chunks)
          /\ chunked' = FALSE
          /\ head' = IF chunks THEN <<>> ELSE h
     ELSE /\ UNCHANGED discon
          /\ post' = p
          /\ chunked' = chunks
          /\ head' = h

-----------------------------------------------------------------------------
(* One byte in httpdRecvCb.                                                 *)

HeadByte ==
  LET b == Head(input)
      h == AddToHead(head, b)
      len == ContentLength(h)
      p == [post EXCEPT !.len = len,
                        !.buffSize = IF Lines(h, "len") = {} THEN @ ELSE BuffSize(len)]
      chunks == WantsChunks(h, chunked)
  IN /\ input # <<>> /\ discon # "closed"
     /\ post.len < 0
     /\ input' = Tail(input)
     /\ IF ~EndsHead(h, b)
        THEN head' = h /\ UNCHANGED <<url, chunked, post, cgi, discon, calls>>
        ELSE /\ url' = (Lines(h, "request") # {})
             /\ IF len = 0 /\ url'
                THEN \E r \in {"MORE", "DONE"} :
                       CallCgi(p.buffLen, p, chunks, h, TRUE, r)
                ELSE /\ post' = p /\ chunked' = chunks /\ head' = h
                     /\ UNCHANGED <<cgi, discon, calls>>
     /\ UNCHANGED <<asked, follow, loose>>

\* A block of the body is complete: the buffer is full, or nothing is missing.
BlockFull(p) == p.buffLen >= p.buffSize
BlockComplete(p) == p.buffLen >= p.buffSize \/ p.received = p.len

BodyByte ==
  LET p == [post EXCEPT !.buffLen = @ + 1, !.received = @ + 1]
      emptied == [p EXCEPT !.buffLen = 0]
  IN /\ input # <<>> /\ discon # "closed"
     /\ post.len > 0
     /\ input' = Tail(input)
     /\ IF ~BlockComplete(p) \/ ~(cgi \/ url)
        THEN /\ post' = IF BlockComplete(p) THEN emptied ELSE p
             /\ UNCHANGED <<head, chunked, cgi, discon, calls, loose>>
        ELSE \E r \in {"MORE", "DONE"} :
               /\ CallCgi(p.buffLen, emptied, chunked, head, ~cgi, r)
               /\ loose' = (loose \/ (r = "DONE" /\ ~BodyComplete(p)))
     /\ UNCHANGED <<asked, follow, url>>

\* Unexpected bytes are ignored.
OtherByte ==
  /\ input # <<>> /\ discon # "closed"
  /\ post.len = 0
  /\ input' = Tail(input)
  /\ UNCHANGED <<asked, follow, head, url, chunked, post, cgi, discon, calls, loose>>

\* The sent callback calls the CGI with what there is of the body, and does not
\* empty the buffer: one that sends before it has the whole body is given the
\* same bytes once more.
Continue ==
  /\ discon = "no"
  /\ cgi
  /\ post.buffLen = 0 \/ calls.given < MaxGiven
  /\ \E r \in {"MORE", "DONE"} : CallCgi(post.buffLen, post, chunked, head, FALSE, r)
  /\ loose' = (loose \/ ~BodyComplete(post))
  /\ UNCHANGED <<input, asked, follow, url>>

\* The sent callback of a connection that is marked.
Close ==
  /\ discon = "marked"
  /\ discon' = "closed"
  /\ UNCHANGED <<input, asked, follow, head, url, chunked, post, cgi, calls, loose>>

\* The client sends the next request when it has the answer to the last one, and
\* the server has not closed the connection yet.
NextRequest(r) ==
  /\ follow > 0 /\ discon # "closed"
  /\ input = <<>> /\ calls.done
  /\ post.len < 0
  /\ follow' = follow - 1
  /\ asked' = r
  /\ input' = Bytes(r)
  /\ calls' = NoCalls
  /\ UNCHANGED <<head, url, chunked, post, cgi, discon, loose>>

\* The client sends an empty line more than the request, as some old clients do.
StrayLine ==
  /\ follow > 0 /\ discon # "closed"
  /\ input = <<>>
  /\ follow' = follow - 1
  /\ input' = Eol(asked)
  /\ loose' = (loose \/ asked.len > 0 \/ (asked.http11 /\ ~asked.close))
  /\ UNCHANGED <<asked, head, url, chunked, post, cgi, discon, calls>>

Next ==
  \/ HeadByte \/ BodyByte \/ OtherByte \/ Continue \/ Close \/ StrayLine
  \/ \E r \in Requests : NextRequest(r)

Spec == Init /\ [][Next]_vars

-----------------------------------------------------------------------------
\* When all of a request has been read a CGI function has been looked up for it,
\* exactly once, whatever the lines end in and whether or not the connection was
\* used before. (httpdRecvCb)
LookedUpOnce == ~loose /\ input = <<>> => calls.started = 1

\* The CGI is given the whole body, and nothing but the body. (httpdRecvCb)
BodyIsGiven ==
  input = <<>> => calls.given = (IF asked.len = -1 THEN 0 ELSE asked.len)

\* post->received counts the bytes the CGI has had and the bytes that wait in the
\* buffer, so that the CGI can tell from it when the body is complete.
\* (README: "will always contain the total amount of POST data received for the
\* request, including the data passed to the CGI")
ReceivedIsTotal ==
  post.len > 0 => post.received = calls.given + post.buffLen /\ post.received <= post.len

\* A CGI that waits for the whole body gets it, and can tell from the count that it has.
\* (httpdParseHeader, httpdRecvCb)
BodyArrives == ~loose => BodyIsGiven /\ ReceivedIsTotal

\* A call never meets state that a CGI has freed: after DONE the CGI of the request
\* is called only by looking it up anew, with cgiData = NULL. Nor is one looked up
\* in place of another that is not done and still has its state.
\* (httpdCgiIsDone, httpdRecvCb, httpdContinue, httpdProcessRequest)
NeverStale == ~calls.stale

\* A CGI that returned DONE is called again for the same request, from the start,
\* only if it did not wait for the body or the client sent something behind it;
\* else it is not. (README: "if the CGI function returns HTTPD_CGI_DONE, it will
\* not be called again")
CalledAgainOnlyAnew == NeverStale /\ (calls.again => loose)
=============================================================================
