------------------------------ MODULE Service -------------------------------
(***************************************************************************)
(* Two whole Sessions and the acceptor on the one io_context of a Server:  *)
(* what each of them does, and what it makes the others wait for.          *)
(*                                                                         *)
(* Server::start calls io_context::run on one thread.  It runs the posted  *)
(* handlers of all sessions and of the acceptor from one queue, first      *)
(* come first served; between them it looks, without waiting, at what the  *)
(* kernel has to report, also while handlers are posted for ever (asio     *)
(* keeps a mark for that in the same queue).                               *)
(*                                                                         *)
(* A Session's own `ready' is its part of that queue; `posted' is the      *)
(* order of all of them.                                                   *)
(***************************************************************************)
EXTENDS Naturals, Sequences

CONSTANTS
    SndBuf, NumParams, Sizes, ParseOutcomes, ExecOutcomes, Pipelining,
    AllowedA, MaxMsgsA,     \* what the client of session A sends
    AllowedB, MaxMsgsB      \* and that of session B

VARIABLES
    arrived,    \* the clients that have connected, in that order
    accept,     \* the outstanding accept: "armed", or "socket" once it is done
    started,    \* how many of them have a session that was started
    posted,     \* whose handlers are posted: "A", "B" or "accept", oldest first
    \* The variables of session A and its client (see Session and Stream).
    peerA, inboundA, wqA, readyA, sentA, unreadA, phaseA, askedA,
    waitingA, startup_doneA, readerA, reqA, kindA, todoA, registeredA,
    staleA,
    \* Those of session B.
    peerB, inboundB, wqB, readyB, sentB, unreadB, phaseB, askedB,
    waitingB, startup_doneB, readerB, reqB, kindB, todoB, registeredB,
    staleB

acceptVars == <<arrived, accept, started>>
varsA == <<
    peerA, inboundA, wqA, readyA, sentA, unreadA, phaseA, askedA,
    waitingA, startup_doneA, readerA, reqA, kindA, todoA, registeredA,
    staleA>>
varsB == <<
    peerB, inboundB, wqB, readyB, sentB, unreadB, phaseB, askedB,
    waitingB, startup_doneB, readerB, reqB, kindB, todoB, registeredB,
    staleB>>
vars == <<acceptVars, posted, varsA, varsB>>

A == INSTANCE Session WITH
    peer <- peerA, inbound <- inboundA, wq <- wqA, ready <- readyA,
    sent <- sentA, unread <- unreadA, phase <- phaseA, asked <- askedA,
    waiting <- waitingA, startup_done <- startup_doneA, reader <- readerA,
    req <- reqA, kind <- kindA, todo <- todoA, registered <- registeredA,
    stale <- staleA, Allowed <- AllowedA, MaxMsgs <- MaxMsgsA

B == INSTANCE Session WITH
    peer <- peerB, inbound <- inboundB, wq <- wqB, ready <- readyB,
    sent <- sentB, unread <- unreadB, phase <- phaseB, asked <- askedB,
    waiting <- waitingB, startup_done <- startup_doneB, reader <- readerB,
    req <- reqB, kind <- kindB, todo <- todoB, registered <- registeredB,
    stale <- staleB, Allowed <- AllowedB, MaxMsgs <- MaxMsgsB

ASSUME ServiceAssumption ==
    A!SessionAssumption /\ A!SndBufAssumption /\ B!SessionAssumption

Sessions == {"A", "B"}

Connected(c) == \E n \in DOMAIN arrived : arrived[n] = c
Started(c) == \E n \in 1..started : arrived[n] = c

\* Only the order of the handlers is this module's own; A and B have the rest.
TypeOK ==
    /\ Len(arrived) \in 0..2 /\ \A n \in DOMAIN arrived : arrived[n] \in Sessions
    /\ accept \in {"armed", "socket"} /\ started \in 0..Len(arrived)
    /\ posted \in Seq(Sessions \cup {"accept"})
    /\ A!TypeOK /\ B!TypeOK

\* Server::start has called do_accept.  A session is looked at from its start on.
Init ==
    /\ arrived = <<>> /\ accept = "armed" /\ started = 0
    /\ posted = <<>>
    /\ A!Init /\ B!Init

-----------------------------------------------------------------------------
(***************************************************************************)
(* The queue of the io_context                                             *)
(***************************************************************************)
\* Handlers join the queue q.
Post(q, handlers) == posted' = q \o handlers

\* n handlers of c.
Handlers(c, n) == [k \in 1..n |-> c]

Runs(c) == posted # <<>> /\ Head(posted) = c

-----------------------------------------------------------------------------
(***************************************************************************)
(* Clients that connect, and do_accept                                     *)
(***************************************************************************)
Connect(c) ==
    /\ ~Connected(c)
    /\ arrived' = Append(arrived, c)
    /\ UNCHANGED <<accept, started, posted, varsA, varsB>>

Accepts ==
    /\ accept = "armed" /\ started < Len(arrived)
    /\ accept' = "socket"
    /\ Post(posted, <<"accept">>)
    /\ UNCHANGED <<arrived, started, varsA, varsB>>

\* Fault: the next accept is issued when there is an error only.
OnAcceptOnce ==
    /\ Runs("accept")
    /\ started' = started + 1 /\ accept' = "idle"
    /\ Post(Tail(posted), <<>>)
    /\ UNCHANGED <<arrived, varsA, varsB>>

\* do_accept's handler: the session is started, and the next accept issued.
OnAccept ==
    /\ Runs("accept")
    /\ started' = started + 1 /\ accept' = "armed"
    /\ Post(Tail(posted), <<>>)
    /\ UNCHANGED <<arrived, varsA, varsB>>

-----------------------------------------------------------------------------
(***************************************************************************)
(* The steps of the sessions, of their clients and of the kernel for them  *)
(***************************************************************************)
ClientA == Connected("A") /\ A!Client /\ UNCHANGED <<acceptVars, posted, varsB>>
ClientB == Connected("B") /\ B!Client /\ UNCHANGED <<acceptVars, posted, varsA>>

KernelA ==
    /\ Started("A") /\ A!Kernel
    /\ Post(posted, Handlers("A", Len(readyA') - Len(readyA)))
    /\ UNCHANGED <<acceptVars, varsB>>

KernelB ==
    /\ Started("B") /\ B!Kernel
    /\ Post(posted, Handlers("B", Len(readyB') - Len(readyB)))
    /\ UNCHANGED <<acceptVars, varsA>>

\* The handler at the head runs to its end, and posts what it posts.
HandlerA ==
    /\ Runs("A") /\ A!EventLoop
    /\ Post(Tail(posted), Handlers("A", Len(readyA') - (Len(readyA) - 1)))
    /\ UNCHANGED <<acceptVars, varsB>>

HandlerB ==
    /\ Runs("B") /\ B!EventLoop
    /\ Post(Tail(posted), Handlers("B", Len(readyB') - (Len(readyB) - 1)))
    /\ UNCHANGED <<acceptVars, varsA>>

run == OnAccept \/ HandlerA \/ HandlerB

Next ==
    \/ \E c \in Sessions : Connect(c)
    \/ Accepts \/ ClientA \/ ClientB \/ KernelA \/ KernelB
    \/ run

Spec == Init /\ [][Next]_vars

\* There is one thread: it is fair that some handler runs, and which one is for
\* the queue to say.  The kernel serves each descriptor, and clients that stay
\* read their answers.
RecvA == A!ClientRecv /\ ClientA
RecvB == B!ClientRecv /\ ClientB

Fairness ==
    /\ WF_vars(run)
    /\ WF_vars(Accepts) /\ WF_vars(KernelA) /\ WF_vars(KernelB)
    /\ WF_vars(RecvA) /\ WF_vars(RecvB)

FairSpec == Spec /\ Fairness

-----------------------------------------------------------------------------
(***************************************************************************)
(* Properties                                                              *)
(***************************************************************************)
\* A session goes on beside another one, whatever becomes of that: also beside
\* one whose connection was reset, and whose failed write posts its own retry
\* for ever.  Requests are processed to their end, and Terminate releases.
ServesBeside ==
    /\ A!ProcessingEnds /\ A!TerminateReleases
    /\ B!ProcessingEnds /\ B!TerminateReleases

\* And so does accepting: each client that connects gets a session.
EachIsStarted == \A n \in 1..2 : Len(arrived) >= n ~> started >= n

\* The server's view of all this: connections are their place in `arrived', ids
\* count the sessions, and the map holds those that are registered.
LifeOf(c) == IF c = "A" THEN A!LifeNow ELSE B!LifeNow
RegisteredOf(c) == IF c = "A" THEN registeredA ELSE registeredB
Taken == IF accept = "socket" THEN started + 1 ELSE started

Srv == INSTANCE Server WITH
    MaxConns <- 2, MaxFds <- 3,
    made <- Len(arrived),
    backlog <- [k \in 1..(Len(arrived) - Taken) |-> Taken + k],
    accepted <- IF accept = "socket" THEN Taken ELSE 0,
    sess_id_counter <- started,
    id <- [n \in 1..started |-> n],
    life <- [n \in 1..started |-> LifeOf(arrived[n])],
    _sessions <- [n \in {m \in 1..started : RegisteredOf(arrived[m])} |-> n]

\* Two sessions with all their handlers are what Server takes them for: they
\* come and end one at a time, in any order, each in a step of its own.
ImplementsServer == Srv!Spec
=============================================================================
