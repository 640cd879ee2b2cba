---------------------------- MODULE MCHttpdServer ----------------------------
(* Instances of HttpdServer for TLC. *)
EXTENDS HttpdServer, TLC

More(sends) == [r |-> "MORE", send |-> sends]
Done(sends) == [r |-> "DONE", send |-> sends]

\* Every CGI function there is.
AnyReply == [call \in {"first", "later"} |-> Reply]
\* A CGI function as the README describes it: each call sends something.
TalkingReply ==
  [call \in {"first", "later"} |-> {More(TRUE), Done(TRUE)}]
\* serveStaticFile: the first call sends the headers; if the length of the file
\* is a multiple of the chunk it reads, the last one reads nothing, sends
\* nothing, and is done.
StaticFileReply ==
  ("first" :> {More(TRUE)}) @@ ("later" :> {More(TRUE), Done(FALSE)})

\* Clients are alike.
ClientSymmetry == Permutations(Addrs)
=============================================================================
