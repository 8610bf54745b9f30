---------------------------- MODULE ServerProofs -----------------------------
(***************************************************************************)
(* Theorems about the module Server, for any number of connections and of  *)
(* descriptors.                                                            *)
(*                                                                         *)
(* They all rest on one count.  Connections leave the listen queue in the  *)
(* order they came in, one at a time, and each that is accepted raises the *)
(* counter of ids: so the n-th connection gets the id n, those up to the   *)
(* counter have a session, then comes the one that was just accepted, and  *)
(* the listen queue goes on from there.  An id that is not reused finds no *)
(* entry in the map, and finds its own when it is erased.                  *)
(***************************************************************************)
EXTENDS Server, TLAPS

\* The connections that have left the listen queue.
Taken == sess_id_counter + (IF accept = "socket" THEN 1 ELSE 0)

Counted ==
    /\ made \in 0..MaxConns
    /\ accept \in {"armed", "error", "socket"}
    /\ sess_id_counter \in Nat
    /\ accepted = IF accept = "socket" THEN sess_id_counter + 1 ELSE 0

InOrder ==
    /\ backlog \in Seq(Nat)
    /\ Taken + Len(backlog) = made
    /\ \A k \in 1..Len(backlog) : backlog[k] = Taken + k

OwnIds ==
    /\ life \in [1..sess_id_counter -> {"reading", "lost", "done"}]
    /\ id \in [1..sess_id_counter -> Nat]
    /\ \A c \in 1..sess_id_counter : id[c] = c
    /\ DOMAIN _sessions = {c \in 1..sess_id_counter : life[c] # "done"}
    /\ \A n \in DOMAIN _sessions : _sessions[n] = n

ServerInv == Counted /\ InOrder /\ OwnIds

-----------------------------------------------------------------------------
(***************************************************************************)
(* The invariant is inductive                                              *)
(***************************************************************************)
LEMMA InitCounts == Init => ServerInv
  <1> SUFFICES ASSUME Init PROVE ServerInv
    OBVIOUS
  <1>1. Counted
    BY ServerAssumption DEF Init, Counted
  <1>2. InOrder
    BY DEF Init, InOrder, Taken
  <1>3. OwnIds
    BY DEF Init, OwnIds
  <1> QED
    BY <1>1, <1>2, <1>3 DEF ServerInv

LEMMA ConnectCounts == ASSUME ServerInv, Connect PROVE ServerInv'
  <1>1. Counted'
    BY ServerAssumption DEF ServerInv, Counted, Connect, sessionVars
  <1>2. InOrder'
    <2>1. /\ Taken \in Nat /\ Taken' = Taken
          /\ backlog \in Seq(Nat) /\ made' = made + 1 /\ made \in Nat
          /\ Taken + Len(backlog) = made
          /\ \A k \in 1..Len(backlog) : backlog[k] = Taken + k
      BY DEF ServerInv, Counted, InOrder, Taken, Connect, sessionVars
    <2>2. /\ backlog' \in Seq(Nat) /\ Len(backlog') = Len(backlog) + 1
          /\ \A k \in 1..Len(backlog) : backlog'[k] = backlog[k]
          /\ backlog'[Len(backlog) + 1] = made + 1
      BY <2>1 DEF Connect
    <2>3. ASSUME NEW k \in 1..Len(backlog')
          PROVE  backlog'[k] = Taken' + k
      <3>1. k \in 1..Len(backlog) \/ k = Len(backlog) + 1
        BY <2>1, <2>2
      <3>2. CASE k \in 1..Len(backlog)
        BY <2>1, <2>2, <3>2
      <3>3. CASE k = Len(backlog) + 1
        BY <2>1, <2>2, <3>3
      <3> QED
        BY <3>1, <3>2, <3>3
    <2>4. Taken' + Len(backlog') = made'
      BY <2>1, <2>2
    <2> QED
      BY <2>2, <2>3, <2>4 DEF InOrder
  <1>3. OwnIds'
    BY DEF ServerInv, OwnIds, Connect, sessionVars
  <1> QED
    BY <1>1, <1>2, <1>3 DEF ServerInv

LEMMA AcceptsCounts == ASSUME ServerInv, Accepts PROVE ServerInv'
  <1>1. accepted' = sess_id_counter + 1
    BY DEF ServerInv, Counted, InOrder, Taken, Accepts, sessionVars
  <1>2. Counted'
    BY <1>1 DEF ServerInv, Counted, Accepts, sessionVars
  <1>3. InOrder'
    <2>1. /\ backlog' \in Seq(Nat) /\ Len(backlog') = Len(backlog) - 1
          /\ \A k \in 1..Len(backlog') : backlog'[k] = backlog[k + 1]
      BY DEF ServerInv, InOrder, Accepts
    <2>2. Taken' = Taken + 1
      BY DEF ServerInv, Counted, Taken, Accepts, sessionVars
    <2>3. \A k \in 1..Len(backlog') : k + 1 \in 1..Len(backlog)
      BY <2>1 DEF ServerInv, InOrder
    <2>4. /\ Taken \in Nat /\ Len(backlog) \in Nat
          /\ Taken + Len(backlog) = made /\ made' = made
          /\ \A k \in 1..Len(backlog) : backlog[k] = Taken + k
      BY DEF ServerInv, Counted, InOrder, Taken, Accepts
    <2>5. ASSUME NEW k \in 1..Len(backlog')
          PROVE  backlog'[k] = Taken' + k
      <3>1. backlog'[k] = Taken + (k + 1)
        BY <2>1, <2>3, <2>4
      <3> QED
        BY <2>2, <2>4, <3>1
    <2>6. Taken' + Len(backlog') = made'
      BY <2>1, <2>2, <2>4
    <2> QED
      BY <2>1, <2>5, <2>6 DEF InOrder
  <1>4. OwnIds'
    BY DEF ServerInv, OwnIds, Accepts, sessionVars
  <1> QED
    BY <1>2, <1>3, <1>4 DEF ServerInv

LEMMA OnAcceptCounts == ASSUME ServerInv, OnAccept PROVE ServerInv'
  <1> USE DEF ServerInv, Counted
  <1>1. /\ accepted = sess_id_counter + 1 /\ sess_id_counter' = sess_id_counter + 1
        /\ Taken = sess_id_counter + 1 /\ Taken' = Taken
    BY DEF OnAccept, StartSession, NewId, Taken
  <1>2. Counted'
    BY <1>1 DEF OnAccept
  <1>3. InOrder'
    BY <1>1 DEF InOrder, OnAccept
  <1>4. OwnIds'
    <2>1. 1..sess_id_counter' = (1..sess_id_counter) \cup {accepted}
      BY <1>1
    <2>2. /\ life' = [c \in 1..sess_id_counter' |->
                         IF c = accepted THEN "reading" ELSE life[c]]
          /\ id' = [c \in 1..sess_id_counter' |-> IF c = accepted THEN accepted ELSE id[c]]
      BY <1>1, <2>1 DEF OnAccept, StartSession, NewId, With, OwnIds
    <2>3. accepted \notin DOMAIN _sessions
      BY <1>1 DEF OwnIds
    <2>4. _sessions' = [n \in DOMAIN _sessions \cup {accepted} |->
                           IF n = accepted THEN accepted ELSE _sessions[n]]
      BY <1>1, <2>3 DEF OnAccept, StartSession, NewId, With, emplace
    <2>5. DOMAIN _sessions' = {c \in 1..sess_id_counter' : life'[c] # "done"}
      BY <1>1, <2>1, <2>2, <2>4 DEF OwnIds
    <2>6. \A n \in DOMAIN _sessions' : _sessions'[n] = n
      BY <2>4 DEF OwnIds
    <2> QED
      BY <1>1, <2>1, <2>2, <2>5, <2>6 DEF OwnIds
  <1> QED
    BY <1>2, <1>3, <1>4

LEMMA AcceptErrorCounts ==
  ASSUME ServerInv, CannotAccept \/ OnAcceptError PROVE ServerInv'
  BY DEF ServerInv, Counted, InOrder, OwnIds, Taken, CannotAccept, OnAcceptError,
         sessionVars

LEMMA SessionDoneCounts ==
  ASSUME ServerInv, NEW c \in Reading, SessionDone(c) PROVE ServerInv'
  <1>1. c \in 1..sess_id_counter /\ id[c] = c
    BY DEF ServerInv, OwnIds, Reading
  <1>2. _sessions' = [n \in DOMAIN _sessions \ {c} |-> _sessions[n]]
    BY <1>1 DEF SessionDone, erase
  <1>3. OwnIds'
    BY <1>1, <1>2 DEF ServerInv, OwnIds, SessionDone
  <1> QED
    BY <1>3 DEF ServerInv, Counted, InOrder, Taken, SessionDone

LEMMA SessionLostCounts ==
  ASSUME ServerInv, NEW c \in Reading, SessionLost(c) PROVE ServerInv'
  <1>1. c \in 1..sess_id_counter /\ life[c] = "reading"
    BY DEF ServerInv, OwnIds, Reading
  <1>2. OwnIds'
    BY <1>1 DEF ServerInv, OwnIds, SessionLost
  <1> QED
    BY <1>2 DEF ServerInv, Counted, InOrder, Taken, SessionLost

LEMMA ServerInvInductive == ServerInv /\ [Next]_vars => ServerInv'
  <1> SUFFICES ASSUME ServerInv, [Next]_vars PROVE ServerInv'
    OBVIOUS
  <1>1. CASE UNCHANGED vars
    BY <1>1 DEF vars, sessionVars, ServerInv, Counted, InOrder, OwnIds, Taken
  <1>2. CASE Next
    BY <1>2, ConnectCounts, AcceptsCounts, OnAcceptCounts, AcceptErrorCounts,
       SessionDoneCounts, SessionLostCounts DEF Next
  <1> QED
    BY <1>1, <1>2

\* Ids and connections are counted alike, and the map has what is not done.
THEOREM ServerInvHolds == Spec => []ServerInv
  BY InitCounts, ServerInvInductive, PTL DEF Spec

-----------------------------------------------------------------------------
(***************************************************************************)
(* What follows from it                                                    *)
(***************************************************************************)
LEMMA RegisteredIs == ServerInv => Registered = {c \in DOMAIN life : life[c] # "done"}
  BY DEF ServerInv, OwnIds, Registered

\* The map, its ids and the lives of the sessions have the types they are used
\* with; no id and no connection is ever out of range.
THEOREM ServerTypeCorrect == Spec => []TypeOK
  <1>1. ServerInv => TypeOK
    <2> SUFFICES ASSUME ServerInv PROVE TypeOK
      OBVIOUS
    <2>1. sess_id_counter \in 0..MaxConns /\ sess_id_counter <= made /\ accepted \in 0..made
      BY ServerAssumption DEF ServerInv, Counted, InOrder, Taken
    <2>2. backlog \in Seq(Conns)
      <3>1. \A k \in 1..Len(backlog) : backlog[k] \in Conns
        BY DEF ServerInv, Counted, InOrder, Taken, Conns
      <3> QED
        BY <3>1 DEF ServerInv, InOrder
    <2>3. /\ DOMAIN life = 1..sess_id_counter
          /\ life \in [DOMAIN life -> {"reading", "lost", "done"}]
          /\ id \in [DOMAIN life -> 1..sess_id_counter]
          /\ DOMAIN _sessions \subseteq 1..sess_id_counter
      BY DEF ServerInv, OwnIds
    <2>4. Registered \subseteq DOMAIN life
      BY RegisteredIs
    <2>5. DOMAIN life \subseteq Conns
      BY <2>1, <2>3 DEF Conns, ServerInv, Counted
    <2> QED
      BY <2>1, <2>2, <2>3, <2>4, <2>5 DEF TypeOK, ServerInv, Counted
  <1> QED
    BY <1>1, ServerInvHolds, PTL

\* The map holds exactly the sessions whose promise was not settled, each under
\* its own id, for any order in which they come and end.
THEOREM RegisteredUntilDoneHolds == Spec => []RegisteredUntilDone
  <1>1. ServerInv => RegisteredUntilDone
    BY RegisteredIs DEF ServerInv, OwnIds, RegisteredUntilDone
  <1> QED
    BY <1>1, ServerInvHolds, PTL

\* A connection is held unless its session is done.
HeldUnlessDone ==
    \A c \in Conns : Held(c) <=> (c \in DOMAIN life => life[c] # "done")

LEMMA HeldIs == ServerInv => HeldUnlessDone
  <1> SUFFICES ASSUME ServerInv, NEW c \in Conns
               PROVE  Held(c) <=> (c \in DOMAIN life => life[c] # "done")
    BY DEF HeldUnlessDone
  <1>0. DOMAIN life = 1..sess_id_counter /\ c \in Nat \ {0} /\ c <= made
    BY DEF ServerInv, OwnIds, Counted, Conns
  <1>1. CASE c \in DOMAIN life
    <2>1. ~InBacklog(c)
      BY <1>0, <1>1 DEF ServerInv, Counted, InOrder, Taken, InBacklog
    <2>2. c \notin {accepted} \ {0}
      BY <1>0, <1>1 DEF ServerInv, Counted
    <2>3. c \in Reading => life[c] # "done"
      BY DEF Reading
    <2> QED
      BY <1>1, <2>1, <2>2, <2>3, RegisteredIs DEF Held, Open
  <1>2. CASE c \notin DOMAIN life
    <2>1. CASE accept = "socket" /\ c = sess_id_counter + 1
      BY <1>0, <1>2, <2>1 DEF ServerInv, Counted, Held, Open
    <2>2. CASE ~(accept = "socket" /\ c = sess_id_counter + 1)
      <3>1. c - Taken \in 1..Len(backlog) /\ backlog[c - Taken] = c
        <4>1. /\ Taken \in Nat /\ Len(backlog) \in Nat
              /\ Taken + Len(backlog) = made
              /\ \A k \in 1..Len(backlog) : backlog[k] = Taken + k
          BY DEF ServerInv, Counted, InOrder, Taken
        <4>2. c > Taken
          BY <1>0, <1>2, <2>2 DEF ServerInv, Counted, Taken
        <4>3. c - Taken \in 1..Len(backlog)
          BY <1>0, <4>1, <4>2
        <4> QED
          BY <1>0, <4>1, <4>3
      <3> QED
        BY <1>2, <3>1 DEF Held, InBacklog, ServerInv, InOrder
    <2> QED
      BY <2>1, <2>2
  <1> QED
    BY <1>1, <1>2

\* A session that a step ends was reading, and none is forgotten.
LEMMA OnlyItsOwnEnd ==
  ASSUME ServerInv, [Next]_vars, NEW c \in DOMAIN life, life[c] # "done"
  PROVE  /\ c \in DOMAIN life'
         /\ life'[c] = "done" => life[c] = "reading"
  <1>1. CASE UNCHANGED vars
    BY <1>1 DEF vars, sessionVars
  <1>2. CASE Connect \/ Accepts \/ CannotAccept \/ OnAcceptError
    BY <1>2 DEF Connect, Accepts, CannotAccept, OnAcceptError, sessionVars
  <1>3. CASE OnAccept
    BY <1>3 DEF OnAccept, StartSession, With, ServerInv, Counted, OwnIds
  <1>4. ASSUME NEW d \in Reading, SessionDone(d) \/ SessionLost(d)
        PROVE  /\ c \in DOMAIN life'
               /\ life'[c] = "done" => life[c] = "reading"
    BY <1>4 DEF SessionDone, SessionLost, Reading, ServerInv, OwnIds
  <1> QED
    BY <1>1, <1>2, <1>3, <1>4 DEF Next

\* A connection that is held and then is not, has lost its own session.
LEMMA DropsOnlyDone ==
  ServerInv /\ ServerInv' /\ HeldUnlessDone /\ HeldUnlessDone' /\ [Next]_vars
    => \A c \in Conns : Held(c) /\ ~Held(c)' => life[c] = "reading" /\ life'[c] = "done"
  <1> SUFFICES ASSUME ServerInv, ServerInv', HeldUnlessDone, HeldUnlessDone', [Next]_vars,
                      NEW c \in Conns, Held(c), ~Held(c)'
               PROVE  life[c] = "reading" /\ life'[c] = "done"
    OBVIOUS
  <1>1. c \in Conns'
    <2>1. made' = made \/ made' = made + 1
      BY DEF Next, vars, Connect, Accepts, CannotAccept, OnAccept, OnAcceptError,
             SessionDone, SessionLost
    <2> QED
      BY <2>1 DEF Conns, ServerInv, Counted
  <1>2. c \in DOMAIN life' /\ life'[c] = "done"
    BY <1>1 DEF HeldUnlessDone
  <1>3. c \in DOMAIN life
    <2>1. ASSUME c \notin DOMAIN life PROVE FALSE
      <3>1. OnAccept
        BY <1>2, <2>1 DEF Next, vars, sessionVars, Connect, Accepts, CannotAccept,
                          OnAcceptError, SessionDone, SessionLost
      <3> QED
        BY <1>2, <2>1, <3>1 DEF OnAccept, StartSession, With
    <2> QED
      BY <2>1
  <1> QED
    BY <1>2, <1>3, OnlyItsOwnEnd DEF HeldUnlessDone

\* No accept, no error of one and no other session's end lets go of a connection,
\* for any number of them and of descriptors.
THEOREM NoConnectionDroppedHolds == Spec => NoConnectionDropped
  <1>1. [](ServerInv /\ HeldUnlessDone) /\ [][Next]_vars => NoConnectionDropped
    <2>1. /\ ServerInv /\ HeldUnlessDone /\ (ServerInv /\ HeldUnlessDone)' /\ [Next]_vars
          => [\A c \in Conns : Held(c) /\ ~Held(c)' =>
                  life[c] = "reading" /\ life'[c] = "done"]_vars
      BY DropsOnlyDone
    <2> QED
      BY <2>1, PTL DEF NoConnectionDropped
  <1> QED
    BY <1>1, HeldIs, ServerInvHolds, PTL DEF Spec
==============================================================================
