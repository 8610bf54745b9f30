----------------------------- MODULE MCService ------------------------------
(***************************************************************************)
(* Values of the constants of Service for TLC: every message is one chunk. *)
(***************************************************************************)
EXTENDS Service

OneChunk == [t \in {"N", "R", "S", "Z", "T", "D", "C", "E"} |-> {1}]
=============================================================================
