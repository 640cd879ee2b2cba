---------------------------- MODULE StaticFiles ----------------------------
(***************************************************************************)
(* The CGI functions that answer over several calls: serveStaticFile,      *)
(* cgiEspFsTemplate and cgiTestbed.  One request to one of them, from its  *)
(* first call to the one in which it is done, or to the call that tells it *)
(* that the connection is gone.                                            *)
(***************************************************************************)
EXTENDS EspFs

CONSTANTS
  Requests,    \* [cgi, path, accept], a path being [segs, slash]; or [cgi, method, len],
               \* len being the value of the field or NoLen
  Extension,   \* of the path segments with a dot: what follows the last one
  NoLen,
  ChunkLens,   \* the values of FILE_CHUNK_LEN to consider
  TestLen,     \* the buffer of cgiTestbed
  TokenMax,    \* how many characters of a token are kept
  Parts(_)     \* what the application sends for a token, call by call

VARIABLES
  req,      \* the request
  chunk,    \* FILE_CHUNK_LEN
  st,       \* connData->cgiData: a file handle or a TplData; Null before the first call
  sent,     \* what was given to httpdSend, headers left out
  status,   \* the result of the last call
  reply,    \* what was sent, [kind, type, gzip]: the content type, the content encoding
  live,     \* how many allocations were made and not freed
  short     \* an allocation failed in the middle of a file

vars == <<image, req, chunk, st, sent, status, reply, live, short>>

Null == <<>>
Percent == 37
NoReply == [kind |-> "none", type |-> "", gzip |-> FALSE]

\* The flash may have no image.
Init ==
  /\ image = <<>> \/ \E o \in Options : image = Image(o)
  /\ req \in Requests
  /\ chunk \in ChunkLens
  /\ st = Null /\ sent = <<>> /\ status = "none" /\ reply = NoReply
  /\ live = 0 /\ short = FALSE

-----------------------------------------------------------------------------
(* Opening *)

IndexNames == <<"index.html", "index.htm", "index.tpl.html", "index.tpl">>

\* tryOpenIndex: no index is looked for if there is a dot in the path.
TryOpenIndex(path) ==
  LET Candidate(k) == OpenFile(Append(path.segs, IndexNames[k]))
      found == {k \in DOMAIN IndexNames : Candidate(k) # NoFile}
  IN IF found = {} \/ \E k \in DOMAIN path.segs : path.segs[k] \in DOMAIN Extension
     THEN NoFile ELSE Candidate(Min(found))

\* No stored name ends in a slash.
OpenOrIndex(path) ==
  LET file == IF path.slash THEN NoFile ELSE OpenFile(path.segs)
  IN IF file = NoFile THEN TryOpenIndex(path) ELSE file

MimeTypes ==
  [htm |-> "text/htm", html |-> "text/html", css |-> "text/css", js |-> "text/javascript",
   txt |-> "text/plain", csv |-> "text/csv", ico |-> "image/x-icon", jpg |-> "image/jpeg",
   jpeg |-> "image/jpeg", png |-> "image/png", svg |-> "image/svg+xml", xml |-> "text/xml",
   json |-> "application/json"]

\* httpdGetMimetype, for paths with no dot but in their last segment.
GetMimetype(path) ==
  LET ext == IF ~path.slash /\ path.segs # <<>> /\ Last(path.segs) \in DOMAIN Extension
             THEN Extension[Last(path.segs)] ELSE ""
  IN CASE ext \in DOMAIN MimeTypes -> MimeTypes[ext]
       [] ext \notin DOMAIN MimeTypes /\ path.segs # <<>> /\ path.segs[1] = "json"
            /\ (Len(path.segs) > 1 \/ path.slash) ->
            "application/json"
       [] OTHER -> "text/html"

Head200(type, gzip) == reply' = [kind |-> "file", type |-> type, gzip |-> gzip]

\* espFsOpen allocates a handle, and a decoder for a compressed file.
Allocations(file) == IF file.header.heatshrink THEN 2 ELSE 1

NotFound == /\ status' = "NOTFOUND"
            /\ UNCHANGED <<image, req, chunk, st, sent, reply, live, short>>

Active == status = "MORE"
First(cgi) == status = "none" /\ req.cgi = cgi

-----------------------------------------------------------------------------
(* serveStaticFile *)

\* httpdGetHeader leaves the buffer as it is if there is no such header, and the
\* buffer is not initialised.
SaysGzip == IF req.accept = "none" THEN BOOLEAN ELSE {req.accept = "gzip"}

StaticFirst ==
  LET file == OpenOrIndex(req.path)
  IN /\ First("static")
     /\ file # NoFile
     /\ \E ok \in SaysGzip :
          IF IsGzip(file) /\ ~ok
          THEN /\ status' = "DONE"
               /\ reply' = [kind |-> "warning", type |-> "text/plain", gzip |-> FALSE]
               /\ UNCHANGED <<st, live>>
          ELSE /\ status' = "MORE" /\ Head200(GetMimetype(req.path), IsGzip(file))
               /\ st' = file
               /\ live' = live + Allocations(file)
     /\ UNCHANGED <<image, req, chunk, sent, short>>

\* There is no such file, or no memory for its handle.
OpenFails ==
  /\ First("static") \/ First("template")
  /\ NotFound

\* Mutants.
CloseHandleOnly(file) == live' = live - 1
LastReadNever(n, wanted) == n > wanted

CloseFile(file) == live' = live - Allocations(file)
\* A read that gives less than was asked for is the last.
LastRead(n, wanted) == n # wanted

StaticNext ==
  /\ Active /\ req.cgi = "static"
  /\ \E r \in {ReadFile(st, chunk + 1)} :
       LET done == LastRead(Len(r[2]), chunk + 1)
       IN /\ sent' = sent \o r[2]
          /\ st' = r[1]
          /\ IF done THEN CloseFile(st) ELSE UNCHANGED live
          /\ status' = IF done THEN "DONE" ELSE "MORE"
  /\ UNCHANGED <<image, req, chunk, reply, short>>

\* No memory for the buffer: the rest of the file is not sent.
StaticNoBuffer ==
  /\ Active /\ req.cgi = "static"
  /\ CloseFile(st)
  /\ status' = "DONE" /\ short' = TRUE
  /\ UNCHANGED <<image, req, chunk, st, sent, reply>>

StaticAbort ==
  /\ Active /\ req.cgi = "static"
  /\ CloseFile(st)
  /\ status' = "ABORTED"
  /\ UNCHANGED <<image, req, chunk, st, sent, reply, short>>

-----------------------------------------------------------------------------
(* cgiEspFsTemplate *)

\* A TplData. part says how many parts of the current token were sent, which is
\* what the application keeps behind tplArg; raw is the text from e that waits to
\* be sent; a negative pos is ordinary text.
Template(file) ==
  [file |-> file, part |-> 0, token |-> <<>>, pos |-> -1, resume |-> FALSE,
   buff |-> <<>>, x |-> 1, raw |-> <<>>, out |-> <<>>]

TemplateFirst ==
  LET file == OpenOrIndex(req.path)
  IN /\ First("template")
     /\ file # NoFile
     /\ IF IsGzip(file)
        THEN NotFound
        ELSE /\ st' = Template(file)
             /\ live' = live + Allocations(file) + 1
             /\ status' = "MORE" /\ Head200(GetMimetype(req.path), FALSE)
             /\ UNCHANGED <<image, req, chunk, sent, short>>

Text(t) == t.pos < 0
Here(t) == t.buff[t.x]
Resumed(t) == [t EXCEPT !.x = @ + 1, !.pos = -1, !.raw = <<>>]

StartsToken(t) == [t EXCEPT !.x = @ + 1, !.pos = 0, !.token = <<>>,
                            !.out = @ \o t.raw, !.raw = <<>>]
Collects(t) ==
  IF t.pos < TokenMax
  THEN [t EXCEPT !.x = @ + 1, !.pos = @ + 1, !.token = Append(@, Here(t))]
  ELSE [t EXCEPT !.x = @ + 1]
Escapes(t) == [Resumed(t) EXCEPT !.out = Append(@, Percent)]

\* The application's function: it sends one part and says whether there is more.
Substitutes(t) ==
  LET parts == Parts(t.token)
      more == t.part + 1 < Len(parts)
      said == [t EXCEPT !.out = @ \o (IF parts = <<>> THEN <<>> ELSE parts[t.part + 1]),
                        !.part = IF more THEN @ + 1 ELSE 0,
                        !.resume = more]
  IN IF more THEN said ELSE Resumed(said)

\* The loop over the buffer, which a substitution that wants to send more leaves.
RECURSIVE Parse(_)
Parse(t) ==
  CASE t.x > Len(t.buff) -> t
    [] t.x <= Len(t.buff) /\ Here(t) = Percent /\ ~Text(t) /\ t.pos > 0 ->
         LET s == Substitutes(t) IN IF s.resume THEN s ELSE Parse(s)
    [] t.x <= Len(t.buff) /\ Here(t) = Percent /\ t.pos = 0 -> Parse(Escapes(t))
    [] t.x <= Len(t.buff) /\ Here(t) = Percent /\ Text(t) -> Parse(StartsToken(t))
    [] t.x <= Len(t.buff) /\ Here(t) # Percent /\ ~Text(t) -> Parse(Collects(t))
    [] OTHER -> Parse([t EXCEPT !.x = @ + 1, !.raw = Append(@, Here(t))])

NextChunk(t, r) == [t EXCEPT !.file = r[1], !.buff = r[2], !.x = 1, !.raw = <<>>]

\* Mutant: the next chunk is read although the substitution is not complete.
BeginReadsOn(t) == NextChunk(t, ReadFile(t.file, chunk))

\* The part of a call before the loop: go on where the last one stopped, or read
\* the next chunk.
Begin(t) == IF t.resume THEN t ELSE NextChunk(t, ReadFile(t.file, chunk))

TemplateNext ==
  /\ Active /\ req.cgi = "template"
  /\ \E t \in {Parse(Begin(st))} :
       LET done == ~t.resume /\ LastRead(Len(t.buff), chunk)
       IN /\ sent' = sent \o t.out \o (IF t.resume THEN <<>> ELSE t.raw)
          /\ st' = [t EXCEPT !.out = <<>>]
          /\ IF done THEN live' = live - Allocations(t.file) - 1 ELSE UNCHANGED live
          /\ status' = IF done THEN "DONE" ELSE "MORE"
  /\ UNCHANGED <<image, req, chunk, reply, short>>

TemplateAbort ==
  /\ Active /\ req.cgi = "template"
  /\ live' = live - Allocations(st.file) - 1
  /\ status' = "ABORTED"
  /\ UNCHANGED <<image, req, chunk, st, sent, reply, short>>

-----------------------------------------------------------------------------
(* cgiTestbed: so many bytes for a GET, the count of what was received for a POST. *)

\* The allocation of the state is not checked: the code clears it at once, and what that does
\* without memory is left out. The text that is sent is known by its places.
TestData(p, n) == [i \in 1 .. n |-> p + i]

TestbedFirstGet ==
  /\ First("testbed") /\ req.method = "GET"
  /\ live' = live + 1
  /\ st' = [len |-> IF req.len = NoLen THEN TestLen ELSE req.len, sendPos |-> 0]
  /\ status' = "MORE" /\ Head200("application/data", FALSE)
  /\ UNCHANGED <<image, req, chunk, sent, short>>

\* httpdSend takes a negative length for that of a text, and the buffer holds none: it
\* sends what is before the first zero in there.
TestbedNext ==
  LET l == Least(TestLen, st.len - st.sendPos)
      done == st.len <= st.sendPos + l
  IN /\ Active /\ req.cgi = "testbed" /\ req.method = "GET"
     /\ \E n \in IF l < 0 THEN 0 .. TestLen ELSE {l} :
          sent' = sent \o TestData(st.sendPos, n)
     /\ st' = [st EXCEPT !.sendPos = @ + l]
     /\ live' = IF done THEN live - 1 ELSE live
     /\ status' = IF done THEN "DONE" ELSE "MORE"
     /\ UNCHANGED <<image, req, chunk, reply, short>>

\* Called with each part of the body; the state is allocated, and not freed in the end.
TestbedPost ==
  /\ req.cgi = "testbed" /\ req.method = "POST"
  /\ status \in {"none", "MORE"}
  /\ IF st = Null THEN live' = live + 1 /\ st' = [len |-> 0, sendPos |-> 0]
                   ELSE UNCHANGED <<live, st>>
  /\ \/ status' = "MORE" /\ UNCHANGED reply
     \/ status' = "DONE" /\ Head200("text/plain", FALSE)
  /\ UNCHANGED <<image, req, chunk, sent, short>>

TestbedAbort ==
  /\ Active /\ req.cgi = "testbed"
  /\ live' = live - 1
  /\ status' = "ABORTED"
  /\ UNCHANGED <<image, req, chunk, st, sent, reply, short>>

-----------------------------------------------------------------------------
Next ==
  \/ StaticFirst \/ OpenFails \/ StaticNext \/ StaticNoBuffer \/ StaticAbort
  \/ TemplateFirst \/ TemplateNext \/ TemplateAbort
  \/ TestbedFirstGet \/ TestbedNext \/ TestbedPost \/ TestbedAbort

Spec == Init /\ [][Next]_vars

-----------------------------------------------------------------------------
(* Properties *)

\* The file that a name stands for.
Meant(name) == {k \in DOMAIN Files : Files[k].name = name}
Wanted ==
  LET direct == IF req.path.slash THEN {} ELSE Meant(req.path.segs)
      index == {i \in DOMAIN IndexNames :
                  Meant(Append(req.path.segs, IndexNames[i])) # {}}
      dotted == \E k \in DOMAIN req.path.segs : req.path.segs[k] \in DOMAIN Extension
  IN IF image = <<>> THEN {}
     ELSE IF direct # {} THEN direct
     ELSE IF dotted \/ index = {} THEN {}
     ELSE Meant(Append(req.path.segs, IndexNames[Min(index)]))

\* What may arrive of a file: what was packed, or what zlib made of it, which the answer
\* must say and the client must be able to read.
Content(f) ==
  IF reply.gzip /\ (req.accept # "other") THEN f.deflated ELSE f.data

StaticAsStored ==
  req.cgi = "static" /\ reply.kind # "warning" =>
    /\ \A k \in Wanted :
         /\ IsPrefix(sent, Content(Files[k]))
         /\ reply.kind = "file" /\ Files[k].ext \in DOMAIN MimeTypes =>
              reply.type = MimeTypes[Files[k].ext]
    /\ status = "DONE" /\ ~short => \E k \in Wanted : sent = Content(Files[k])
    /\ Wanted = {} => status \in {"none", "NOTFOUND"}

TestDataAsAsked ==
  req.cgi = "testbed" /\ req.method = "GET" /\ st # Null /\ st.len >= 0 =>
    /\ sent = TestData(0, Len(sent))
    /\ status = "DONE" => Len(sent) = st.len

\* A static file arrives as it was packed, byte for byte and with its type, whatever its
\* compression, the length of the chunks and the place of the file in the image; a file
\* that was not packed is not found. The test page gets as many bytes as it asks for.
\* (mkespfsimage/main.c:183, espfs.c:122, :192, httpd.c:70, httpdespfs.c:86, cgi-test.c:49)
FileAsStored == StaticAsStored /\ TestDataAsAsked

\* The text of a template with every token replaced, read at once.
RECURSIVE Substituted(_)
Substituted(s) ==
  LET open == {i \in DOMAIN s : s[i] = Percent}
      a == Min(open)
      b == Min(open \ {a})
      token == SubSeq(s, a + 1, Least(b - 1, a + TokenMax))
  IN IF open = {} THEN s
     ELSE IF Cardinality(open) = 1 THEN SubSeq(s, 1, a - 1)
     ELSE SubSeq(s, 1, a - 1)
            \o (IF b = a + 1 THEN <<Percent>> ELSE FlattenSeq(Parts(token)))
            \o Substituted(SubSeq(s, b + 1, Len(s)))

\* What a template sends is its text with the tokens replaced, wherever the chunks
\* cut a token, an escape, or a substitution that takes several calls.
\* (httpdespfs.c:248-332)
TemplateAsSubstituted ==
  req.cgi = "template" /\ Wanted # {} =>
    \A k \in Wanted :
      /\ status = "DONE" => sent = Substituted(Files[k].data)
      /\ IsPrefix(sent, Substituted(Files[k].data))

\* Every handle, decoder, TplData and TestbedState is freed exactly once, on every way
\* out: the end of the file, a refused request, a lost connection; but that of a POST to
\* the test page is left when it is done. (httpdespfs.c:95, :130, :148, :158, :200, :325,
\* cgi-test.c:38, :66)
NothingLeaks ==
  /\ status = "MORE" => live > 0
  /\ status # "MORE" =>
       live = IF req.cgi = "testbed" /\ status = "DONE" /\ req.method = "POST" THEN 1 ELSE 0

\* No request goes on for ever: a call that returns MORE has read more of the file,
\* sent more parts of a token or more of the test data, so the last chunk is recognised
\* whatever the length, and a decoder without input does not spin. A POST waits for its
\* body. (espfs.c:228, httpdespfs.c:156, :295, :322, cgi-test.c:65)
EachCallAdvances ==
  [][Active /\ status' = "MORE" =>
       CASE req.cgi = "static" -> st'.decomp > st.decomp
         [] req.cgi = "template" ->
              st'.file.decomp > st.file.decomp \/ st'.x > st.x \/ st'.part > st.part
         [] OTHER -> req.method = "GET" => st'.sendPos > st.sendPos]_vars
=============================================================================
