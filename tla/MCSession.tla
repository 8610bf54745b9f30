----------------------------- MODULE MCSession ------------------------------
(***************************************************************************)
(* Values of the Session's constants for TLC.                              *)
(***************************************************************************)
EXTENDS Session

\* Every message fits one write, except that a batch of rows may be empty or
\* take two.
SmallSizes == [t \in Tags |-> IF t = "D" THEN {0, 2} ELSE {1}]

\* A RowDescription or a ReadyForQuery may take two as well.
SplitSizes == [t \in Tags |-> IF t = "D" THEN {0, 2}
                              ELSE IF t \in {"T", "Z"} THEN {1, 2} ELSE {1}]

AllKinds == Kinds
=============================================================================
