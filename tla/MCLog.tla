------------------------------- MODULE MCLog --------------------------------
(***************************************************************************)
(* Values of the constants of Log for TLC: a line that fits into one write *)
(* of asio, and one that logs a query of more than 64 KiB.                 *)
(***************************************************************************)
EXTENDS Log

TwoLines == {"short", "long"}
ShortAndLong == [l \in TwoLines |-> IF l = "long" THEN 2 ELSE 1]
=============================================================================
