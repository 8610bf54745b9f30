------------------------------- MODULE Server -------------------------------
(***************************************************************************)
(* pgwire::Server (src/pgwire/server.cpp): the acceptor, its one           *)
(* outstanding async_accept, and the map _sessions.  A Session is reduced  *)
(* to what the server sees of it, its life (module SessionLife, which the  *)
(* module Session implements).                                             *)
(*                                                                         *)
(* A connection is a number: the n-th one any client makes.  The process   *)
(* may have MaxFds of them open at a time; the kernel keeps the others in  *)
(* the listen queue.                                                       *)
(***************************************************************************)
EXTENDS Naturals, Sequences, FiniteSets

CONSTANTS
    MaxConns,   \* bound: connections made in all
    MaxFds      \* descriptors the process has left for connections

ASSUME ServerAssumption == MaxConns \in Nat /\ MaxFds \in Nat

VARIABLES
    made,               \* connections made so far
    backlog,            \* the kernel's listen queue
    accept,             \* "armed", or the posted handler: "error" or "socket"
    accepted,           \* the connection of a posted handler with a socket (0: none)
    sess_id_counter,    \* the global counter of session ids
    id,                 \* Session::_id, of the connections that were accepted
    life,               \* and the lives of their sessions
    _sessions           \* session ids to connections

sessionVars == <<sess_id_counter, id, life, _sessions>>
vars == <<made, backlog, accept, accepted, sessionVars>>

Conns == 1..made
Reading == {c \in DOMAIN life : life[c] = "reading"}
Registered == {_sessions[n] : n \in DOMAIN _sessions}

\* Connections that hold a descriptor of the process.  A session is alive while
\* its chain of promises goes on, whose last handler, the `finally` of do_accept,
\* holds a shared_ptr to it; and as long as it is in the map.
Open == Reading \cup Registered \cup ({accepted} \ {0})

TypeOK ==
    /\ made \in 0..MaxConns
    /\ backlog \in Seq(Conns)
    /\ accept \in {"armed", "error", "socket"}
    /\ accepted \in 0..made
    /\ sess_id_counter \in 0..MaxConns
    /\ DOMAIN life \subseteq Conns
    /\ life \in [DOMAIN life -> {"reading", "lost", "done"}]
    /\ id \in [DOMAIN life -> 1..sess_id_counter]
    /\ DOMAIN _sessions \subseteq 1..sess_id_counter
    /\ Registered \subseteq DOMAIN life

\* Server::start has called do_accept.
Init ==
    /\ made = 0
    /\ backlog = <<>>
    /\ accept = "armed" /\ accepted = 0
    /\ sess_id_counter = 0
    /\ id = <<>> /\ life = <<>> /\ _sessions = <<>>

-----------------------------------------------------------------------------
Connect ==
    /\ made < MaxConns
    /\ made' = made + 1
    /\ backlog' = Append(backlog, made + 1)
    /\ UNCHANGED <<accept, accepted, sessionVars>>

\* The kernel completes the outstanding accept.
Accepts ==
    /\ accept = "armed" /\ backlog # <<>>
    /\ Cardinality(Open) < MaxFds
    /\ accept' = "socket"
    /\ accepted' = Head(backlog)
    /\ backlog' = Tail(backlog)
    /\ UNCHANGED <<made, sessionVars>>

\* No descriptor is free (EMFILE); the connection stays in the listen queue.
CannotAccept ==
    /\ accept = "armed" /\ backlog # <<>>
    /\ Cardinality(Open) >= MaxFds
    /\ accept' = "error"
    /\ UNCHANGED <<made, backlog, accepted, sessionVars>>

\* A map with one entry more; emplace leaves an entry that is there as it is.
With(f, x, v) == [y \in DOMAIN f \cup {x} |-> IF y = x THEN v ELSE f[y]]
emplace(f, x, v) == IF x \in DOMAIN f THEN f ELSE With(f, x, v)
erase(f, x) == [y \in DOMAIN f \ {x} |-> f[y]]

\* Fault: ids are taken from the size of the map, and so come again.
NewIdOfSize == Cardinality(DOMAIN _sessions) + 1

NewId == sess_id_counter + 1

\* A session is started on the accepted socket, then put into the map.  Its read
\* cannot have completed before that, since completion handlers run from the
\* io_context only.
StartSession ==
    /\ sess_id_counter' = NewId
    /\ id' = With(id, accepted, NewId)
    /\ life' = With(life, accepted, "reading")
    /\ _sessions' = emplace(_sessions, NewId, accepted)

\* do_accept's handler without an error.
OnAccept ==
    /\ accept = "socket"
    /\ StartSession
    /\ accept' = "armed" /\ accepted' = 0
    /\ UNCHANGED <<made, backlog>>

\* Fault: ec is not looked at, a session is started on no socket.
OnAcceptErrorUnchecked ==
    /\ accept = "error"
    /\ StartSession
    /\ accept' = "armed"
    /\ UNCHANGED <<made, backlog, accepted>>

\* Fault: an error of async_accept ends the accepting.
OnAcceptErrorStops ==
    /\ accept = "error"
    /\ accept' = "stopped"
    /\ UNCHANGED <<made, backlog, accepted, sessionVars>>

\* With an error: the next accept is issued at once, whatever the error is.
OnAcceptError ==
    /\ accept = "error"
    /\ accept' = "armed"
    /\ UNCHANGED <<made, backlog, accepted, sessionVars>>

\* Fault: what is erased is the session of the newest id.
SessionDoneNewest(c) ==
    /\ life' = [life EXCEPT ![c] = "done"]
    /\ _sessions' = erase(_sessions, sess_id_counter)
    /\ UNCHANGED <<made, backlog, accept, accepted, sess_id_counter, id>>

\* The promise of Session::start is settled: `finally` erases the session by its
\* id, and once the handler has returned nothing else holds it.
SessionDone(c) ==
    /\ life' = [life EXCEPT ![c] = "done"]
    /\ _sessions' = erase(_sessions, id[c])
    /\ UNCHANGED <<made, backlog, accept, accepted, sess_id_counter, id>>

\* The read of a session is rejected, always so once its client has gone.  The
\* chain is dropped, `finally` with it, and only the map holds the session.
SessionLost(c) ==
    /\ life' = [life EXCEPT ![c] = "lost"]
    /\ UNCHANGED <<made, backlog, accept, accepted, sess_id_counter, id, _sessions>>

Next ==
    \/ Connect \/ Accepts \/ CannotAccept
    \/ OnAccept \/ OnAcceptError
    \/ \E c \in Reading : SessionDone(c) \/ SessionLost(c)

Spec == Init /\ [][Next]_vars

\* The kernel accepts when it can and the io_context runs.  Nothing makes a
\* client connect or a session end.
FairSpec == Spec /\ WF_vars(Accepts \/ CannotAccept) /\ WF_vars(OnAccept \/ OnAcceptError)

-----------------------------------------------------------------------------
(***************************************************************************)
(* Properties                                                              *)
(***************************************************************************)
InBacklog(c) == \E k \in DOMAIN backlog : backlog[k] = c
Held(c) == InBacklog(c) \/ c \in Open

\* The map holds the sessions whose promise has not been settled, those that
\* read and those that were lost, each under its own id, and no other: whatever
\* the order in which sessions come and end.
RegisteredUntilDone ==
    /\ Registered = {c \in DOMAIN life : life[c] # "done"}
    /\ \A n \in DOMAIN _sessions : id[_sessions[n]] = n

\* A connection is let go of only when its own session ends: no accept, no
\* error of one and no other session's `finally` drops it.  One whose read was
\* rejected is never let go of.
NoConnectionDropped ==
    [][\A c \in Conns : Held(c) /\ ~Held(c)' =>
          life[c] = "reading" /\ life'[c] = "done"]_vars

\* Unless every descriptor stays in use from some time on, each connection in
\* the listen queue is accepted: the accepting survives its errors.
EachIsAccepted ==
    ([]<>(Cardinality(Open) < MaxFds)) =>
        \A c \in 1..MaxConns : InBacklog(c) ~> ~InBacklog(c)
=============================================================================
