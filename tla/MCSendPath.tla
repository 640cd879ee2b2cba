----------------------------- MODULE MCSendPath -----------------------------
(* Instances of SendPath for TLC. The lengths of HTTP's framing are the real *)
(* ones; the buffer is scaled down so that it holds two or three pieces.     *)
EXTENDS SendPath

\* Both feature sets the runs use.
OneAtATime == {}
Everything == AllFeatures
=============================================================================
