----------------------------- MODULE ByteStream -----------------------------
(***************************************************************************)
(* What the sending half of a connection promises to a CGI function: what  *)
(* it was given to send reaches the client in that order, without a gap    *)
(* and without a repetition. The pieces are numbered in the order in which *)
(* they were accepted.                                                     *)
(***************************************************************************)
EXTENDS Naturals, Sequences

VARIABLES
  accepted,   \* how many pieces were accepted for sending
  received    \* the sequence of pieces that reached the client

vars == <<accepted, received>>

FirstPieces(n) == [k \in 1 .. n |-> k]

Init == accepted = 0 /\ received = <<>>

\* A callback that sends what it was just given accepts and delivers in one step,
\* and a packet carries several pieces.
Next ==
  /\ accepted' >= accepted
  /\ \E n \in Len(received) .. accepted' : received' = FirstPieces(n)

Spec == Init /\ [][Next]_vars
=============================================================================
