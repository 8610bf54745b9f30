---------------------------- MODULE SessionLife -----------------------------
(***************************************************************************)
(* The life of a session, as the server depends on it: it reads, until its *)
(* chain of promises ends and the server erases it, or until a read is     *)
(* rejected.  A session lost that way neither reads nor ends ever after.   *)
(***************************************************************************)
VARIABLE life       \* "reading", "lost" or "done"

Init == life = "reading"

Done == life = "reading" /\ life' = "done"
Lose == life = "reading" /\ life' = "lost"

Next == Done \/ Lose

Spec == Init /\ [][Next]_life
=============================================================================
