---------------------------- MODULE MCWebsocket ----------------------------
(* Instances of Websocket for TLC. *)
EXTENDS Websocket

CONSTANTS c1, c2, c3

F(op, masked, ext, len) == [op |-> op, masked |-> masked, ext |-> ext, len |-> len]

\* Payloads shorter and longer than a mask, an extended length, a ping that is
\* short and one that is too long, a client that does not mask.
Mixed ==
  {F("data", TRUE, 0, 6), F("data", TRUE, 2, 1), F("data", FALSE, 0, 1),
   F("ping", TRUE, 0, 3), F("ping", FALSE, 8, 4), F("close", TRUE, 0, 2),
   F("other", TRUE, 0, 0)}
=============================================================================
