--------------------------- MODULE MCStaticFiles ---------------------------
(* Instances of StaticFiles for TLC: an image with files that are empty, of one  *)
(* byte, incompressible, compressible over several windows, deflated to more and *)
(* to less, and templates; file names of every alignment.                        *)
EXTENDS StaticFiles

Extensions ==
  [x \in {"empty.txt", "one.txt", "text.txt", "absent.txt"} |-> "txt"]
    @@ [x \in {"index.tpl", "open.tpl"} |-> "tpl"] @@ [x \in {"page.js", "small.js"} |-> "js"]
    @@ ("random.bin" :> "bin") @@ ("index.html" :> "html")

F(name, namelen, deflated, data) ==
  [name |-> name, namelen |-> namelen, ext |-> Extensions[Last(name)],
   deflated |-> deflated, data |-> data]

\* Repetitions that begin in one window and end in the next.
Repetitive == [i \in 1 .. 90 |-> IF i % 29 < 25 THEN (i * i) % 7 ELSE i]
Random == [i \in 1 .. 11 |-> (i * i * 41) % 251]
\* x%a%%%y%bb%%cc%%zzz%%%, and 12%%, then a token that does not end.
Tpl == <<120, 37, 1, 37, 37, 37, 121, 37, 2, 2, 37, 37, 3, 3, 3, 37, 37, 9, 9, 37, 37, 37>>
Open == <<37, 1, 37, 49, 50, 37, 37, 37, 1>>

Deflated(n) == [i \in 1 .. n |-> 200 + i]

PackedFiles ==
  <<F(<<"empty.txt">>, 10, Deflated(20), <<>>),
    F(<<"one.txt">>, 8, Deflated(20), <<65>>),
    F(<<"d", "index.tpl">>, 12, Deflated(20), Tpl),
    F(<<"random.bin">>, 11, Deflated(20), Random),
    F(<<"page.js">>, 9, Deflated(20), Repetitive),
    F(<<"small.js">>, 9, Deflated(20), Random),
    F(<<"text.txt">>, 9, Deflated(20), Repetitive),
    F(<<"open.tpl">>, 9, Deflated(20), Open),
    F(<<"index.html">>, 11, Deflated(20), [i \in 1 .. 16 |-> 7])>>

P(segs, slash) == [segs |-> segs, slash |-> slash]
Paths ==
  {P(Files[k].name, FALSE) : k \in DOMAIN Files}
    \cup {P(<<>>, TRUE), P(<<"d">>, TRUE), P(<<"d">>, FALSE), P(<<"e">>, FALSE),
          P(<<"absent.txt">>, FALSE), P(<<"text.txt">>, TRUE)}

AllRequests ==
  [cgi : {"static"}, path : Paths, accept : {"gzip", "other", "none"}]
    \cup [cgi : {"template"}, path : Paths, accept : {"gzip"}]
    \cup [cgi : {"testbed"}, method : {"GET"}, len : {NoLen, -1, 0, 1, 3, 4, 6, 7}]
    \cup [cgi : {"testbed"}, method : {"POST"}, len : {NoLen}]

\* Three levels of heatshrink, with other extensions deflated, and no compression.
CommandLines ==
  {[NoArguments EXCEPT !.compLvl = 1], [NoArguments EXCEPT !.compLvl = 4, !.gzip = <<"">>],
   [NoArguments EXCEPT !.compLvl = 5, !.gzip = <<"txt", "", "js">>],
   [NoArguments EXCEPT !.compType = COMPRESS_NONE, !.gzip = <<>>]}

\* One token is replaced in one call, one in three; one, cut off, by nothing in one.
Substitutions(token) ==
  CASE token = <<1>> -> <<<<11>>>>
    [] token = <<2, 2>> -> <<<<21>>, <<>>, <<22, 23>>>>
    [] token = <<3, 3>> -> <<<<>>>>
    [] OTHER -> <<>>
=============================================================================
