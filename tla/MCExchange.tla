----------------------------- MODULE MCExchange ------------------------------
(***************************************************************************)
(* Values of the constants of Exchange for TLC.                            *)
(***************************************************************************)
EXTENDS Exchange

\* A numeric column, one that is sent as text, one the switch has a case for
\* but g_typemap no Oid, one g_typemap has no Oid for, and one that neither has.
MixedTypes == {"DOUBLE", "TIMESTAMP", "BOOLEAN", "TINYINT"}

\* Names that the server keeps and one that it does not; values that are empty,
\* plain, and the name of a parameter.
SomeNames == {"user", "database", "application_name"}
SomeTexts == {"", "alice", "user"}
SomeQueries == {"", "select"}

AllTexts == SomeNames \cup SomeTexts \cup SomeQueries
Lens == [t \in AllTexts |-> CASE t = "" -> 0 [] t \in {"user"} -> 4
                              [] t = "alice" -> 5 [] t = "select" -> 6
                              [] t = "database" -> 8 [] OTHER -> 16]

ColumnNames == [t \in MixedTypes |-> IF t = "DOUBLE" THEN "" ELSE "select"]
Status == <<[name |-> "user", value |-> "alice"], [name |-> "database", value |-> ""]>>
=============================================================================
