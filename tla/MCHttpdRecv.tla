----------------------------- MODULE MCHttpdRecv -----------------------------
(* Instances of HttpdRecv for TLC. *)
EXTENDS HttpdRecv

Kinds(fills, lens) ==
  [http11 : BOOLEAN, close : BOOLEAN, fill : fills, eol : {"crlf", "lf"}, len : lens]

\* Heads that fit, bodies below, at and above the size of the POST buffer.
Fitting == Kinds({0, 1, 3}, {-1, 0, 1, 2, 3, 4, 5})
=============================================================================
