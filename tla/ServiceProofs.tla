---------------------------- MODULE ServiceProofs ----------------------------
(***************************************************************************)
(* Two sessions on one event loop: each is a Session, and together with    *)
(* the acceptor they implement Server.                                     *)
(*                                                                         *)
(* What was proved of Session is not proved again.  OrderProofs and the    *)
(* modules it extends are taken over twice, as PA and PB, with the         *)
(* variables of the two sessions; a step of Service is a step of each of   *)
(* them or leaves it alone.                                                *)
(***************************************************************************)
EXTENDS Service, SequenceTheorems, FiniteSetTheorems, TLAPS

PA == INSTANCE OrderProofs WITH
    peer <- peerA, inbound <- inboundA, wq <- wqA, ready <- readyA,
    sent <- sentA, unread <- unreadA, phase <- phaseA, asked <- askedA,
    waiting <- waitingA, startup_done <- startup_doneA, reader <- readerA,
    req <- reqA, kind <- kindA, todo <- todoA, registered <- registeredA,
    stale <- staleA, Allowed <- AllowedA, MaxMsgs <- MaxMsgsA

PB == INSTANCE OrderProofs WITH
    peer <- peerB, inbound <- inboundB, wq <- wqB, ready <- readyB,
    sent <- sentB, unread <- unreadB, phase <- phaseB, asked <- askedB,
    waiting <- waitingB, startup_done <- startup_doneB, reader <- readerB,
    req <- reqB, kind <- kindB, todo <- todoB, registered <- registeredB,
    stale <- staleB, Allowed <- AllowedB, MaxMsgs <- MaxMsgsB

\* PA speaks of the session that Service calls A, and PB of B: both are the
\* module Session, in the same variables.
LEMMA SameA ==
  /\ A!Init <=> PA!Init
  /\ A!Client <=> PA!Client
  /\ A!EventLoop <=> PA!EventLoop
  /\ [A!Next]_(A!vars) <=> [PA!Next]_(PA!vars)
  /\ A!TypeOK <=> PA!TypeOK
  /\ A!LifeNow = PA!LifeNow
  /\ A!LifeNow' = PA!LifeNow'
  BY Zenon
     DEF A!Client, PA!Client, A!ClientSend, PA!ClientSend, A!MaySend, PA!MaySend,
         A!Answered, PA!Answered, A!ClientRecv, PA!ClientRecv, A!ClientClose,
         PA!ClientClose, A!ClientReset, PA!ClientReset, A!streamVars, PA!streamVars,
         A!clientVars, PA!clientVars, A!sessionVars, PA!sessionVars, A!vars, PA!vars,
         A!Kernel, PA!Kernel, A!SocketWritable, PA!SocketWritable, A!SocketBroken,
         PA!SocketBroken, A!HasRoom, PA!HasRoom, A!Transfer, PA!Transfer, A!SaidWith,
         PA!SaidWith, A!Said, PA!Said, A!WriteHandler, PA!WriteHandler, A!ReadHandler,
         PA!ReadHandler, A!HeaderArrives, PA!HeaderArrives, A!HeaderFails,
         PA!HeaderFails, A!BodyArrives, PA!BodyArrives, A!BodyFails, PA!BodyFails,
         A!BodyMayFail, PA!BodyMayFail, A!EventLoop, PA!EventLoop, A!HeaderRead,
         PA!HeaderRead, A!BodyRead, PA!BodyRead, A!ReadFailed, PA!ReadFailed,
         A!WriteMore, PA!WriteMore, A!WriteAgain, PA!WriteAgain, A!MainWritten,
         PA!MainWritten, A!ErrorWritten, PA!ErrorWritten, A!ErrorDone, PA!ErrorDone,
         A!Runs, PA!Runs, A!Written, PA!Written, A!UsesFreedSession, PA!UsesFreedSession,
         A!HandleStartup, PA!HandleStartup, A!HandleQuery, PA!HandleQuery,
         A!HandleTerminate, PA!HandleTerminate, A!HandleOther, PA!HandleOther, A!Execute,
         PA!Execute, A!Processed, PA!Processed, A!QueryChain, PA!QueryChain, A!DoRead,
         PA!DoRead, A!ReportError, PA!ReportError, A!Finish, PA!Finish, A!Abandon,
         PA!Abandon, A!NoMoreWrites, PA!NoMoreWrites, A!CloseSocket, PA!CloseSocket,
         A!async_write, PA!async_write, A!WriteAll, PA!WriteAll, A!StartupReply,
         PA!StartupReply, A!Next, PA!Next, A!Init, PA!Init, A!StreamInit, PA!StreamInit,
         A!TypeOK, PA!TypeOK, A!StreamTypeOK, PA!StreamTypeOK, A!ClientTypeOK,
         PA!ClientTypeOK, A!SessionTypeOK, PA!SessionTypeOK, A!Readers, PA!Readers,
         A!Kinds, PA!Kinds, A!Hello, PA!Hello, A!Tags, PA!Tags, A!Writes, PA!Writes,
         A!Pending, PA!Pending, A!Handlers, PA!Handlers, A!Chunks, PA!Chunks, A!NoWrite,
         PA!NoWrite, A!LifeNow, PA!LifeNow

LEMMA SameB ==
  /\ B!Init <=> PB!Init
  /\ B!Client <=> PB!Client
  /\ B!EventLoop <=> PB!EventLoop
  /\ [B!Next]_(B!vars) <=> [PB!Next]_(PB!vars)
  /\ B!TypeOK <=> PB!TypeOK
  /\ B!LifeNow = PB!LifeNow
  /\ B!LifeNow' = PB!LifeNow'
  BY Zenon
     DEF B!Client, PB!Client, B!ClientSend, PB!ClientSend, B!MaySend, PB!MaySend,
         B!Answered, PB!Answered, B!ClientRecv, PB!ClientRecv, B!ClientClose,
         PB!ClientClose, B!ClientReset, PB!ClientReset, B!streamVars, PB!streamVars,
         B!clientVars, PB!clientVars, B!sessionVars, PB!sessionVars, B!vars, PB!vars,
         B!Kernel, PB!Kernel, B!SocketWritable, PB!SocketWritable, B!SocketBroken,
         PB!SocketBroken, B!HasRoom, PB!HasRoom, B!Transfer, PB!Transfer, B!SaidWith,
         PB!SaidWith, B!Said, PB!Said, B!WriteHandler, PB!WriteHandler, B!ReadHandler,
         PB!ReadHandler, B!HeaderArrives, PB!HeaderArrives, B!HeaderFails,
         PB!HeaderFails, B!BodyArrives, PB!BodyArrives, B!BodyFails, PB!BodyFails,
         B!BodyMayFail, PB!BodyMayFail, B!EventLoop, PB!EventLoop, B!HeaderRead,
         PB!HeaderRead, B!BodyRead, PB!BodyRead, B!ReadFailed, PB!ReadFailed,
         B!WriteMore, PB!WriteMore, B!WriteAgain, PB!WriteAgain, B!MainWritten,
         PB!MainWritten, B!ErrorWritten, PB!ErrorWritten, B!ErrorDone, PB!ErrorDone,
         B!Runs, PB!Runs, B!Written, PB!Written, B!UsesFreedSession, PB!UsesFreedSession,
         B!HandleStartup, PB!HandleStartup, B!HandleQuery, PB!HandleQuery,
         B!HandleTerminate, PB!HandleTerminate, B!HandleOther, PB!HandleOther, B!Execute,
         PB!Execute, B!Processed, PB!Processed, B!QueryChain, PB!QueryChain, B!DoRead,
         PB!DoRead, B!ReportError, PB!ReportError, B!Finish, PB!Finish, B!Abandon,
         PB!Abandon, B!NoMoreWrites, PB!NoMoreWrites, B!CloseSocket, PB!CloseSocket,
         B!async_write, PB!async_write, B!WriteAll, PB!WriteAll, B!StartupReply,
         PB!StartupReply, B!Next, PB!Next, B!Init, PB!Init, B!StreamInit, PB!StreamInit,
         B!TypeOK, PB!TypeOK, B!StreamTypeOK, PB!StreamTypeOK, B!ClientTypeOK,
         PB!ClientTypeOK, B!SessionTypeOK, PB!SessionTypeOK, B!Readers, PB!Readers,
         B!Kinds, PB!Kinds, B!Hello, PB!Hello, B!Tags, PB!Tags, B!Writes, PB!Writes,
         B!Pending, PB!Pending, B!Handlers, PB!Handlers, B!Chunks, PB!Chunks, B!NoWrite,
         PB!NoWrite, B!LifeNow, PB!LifeNow

-----------------------------------------------------------------------------
(***************************************************************************)
(* Each session behaves as a Session does, and so has all that is proved   *)
(* of one, whatever runs beside it.                                        *)
(***************************************************************************)
LEMMA StepsOfSessions == [Next]_vars => [A!Next]_(A!vars) /\ [B!Next]_(B!vars)
  <1> SUFFICES ASSUME [Next]_vars
               PROVE  [A!Next]_(A!vars) /\ [B!Next]_(B!vars)
    OBVIOUS
  <1>1. UNCHANGED varsA => UNCHANGED A!vars
    BY DEF varsA, A!vars, A!streamVars, A!clientVars, A!sessionVars
  <1>2. UNCHANGED varsB => UNCHANGED B!vars
    BY DEF varsB, B!vars, B!streamVars, B!clientVars, B!sessionVars
  <1>3. A!Next \/ UNCHANGED varsA
    BY DEF Next, run, vars, Connect, Accepts, OnAccept, ClientA, ClientB, KernelA, KernelB,
           HandlerA, HandlerB, A!Next
  <1>4. B!Next \/ UNCHANGED varsB
    BY DEF Next, run, vars, Connect, Accepts, OnAccept, ClientA, ClientB, KernelA, KernelB,
           HandlerA, HandlerB, B!Next
  <1> QED
    BY <1>1, <1>2, <1>3, <1>4

\* On a loop it shares, each session does what a Session does, and no more:
\* neither the other one nor the acceptor reaches into it.
LEMMA SessionsOfService == Spec => A!Spec /\ B!Spec
  <1>1. Init => A!Init /\ B!Init
    BY DEF Init
  <1> QED
    BY <1>1, StepsOfSessions, PTL DEF Spec, A!Spec, B!Spec

LEMMA ConstantsA == PA!SessionAssumption /\ PA!SndBufAssumption
  BY ServiceAssumption
     DEF A!SessionAssumption, B!SessionAssumption, A!SndBufAssumption,
         PA!SessionAssumption, PA!SndBufAssumption, A!Tags, PA!Tags, A!Kinds, PA!Kinds,
         A!Hello, PA!Hello, A!Outcomes, PA!Outcomes

LEMMA ConstantsB == PB!SessionAssumption /\ PB!SndBufAssumption
  BY ServiceAssumption
     DEF A!SessionAssumption, B!SessionAssumption, A!SndBufAssumption,
         PB!SessionAssumption, PB!SndBufAssumption, B!Tags, PB!Tags, B!Kinds, PB!Kinds,
         B!Hello, PB!Hello, B!Outcomes, PB!Outcomes

LEMMA SpecA == Spec => PA!Spec
  <1>1. /\ A!Init => PA!Init
        /\ [A!Next]_(A!vars) => [PA!Next]_(PA!vars)
    BY SameA
  <1> QED
    BY <1>1, SessionsOfService, PTL DEF A!Spec, PA!Spec

LEMMA SpecB == Spec => PB!Spec
  <1>1. /\ B!Init => PB!Init
        /\ [B!Next]_(B!vars) => [PB!Next]_(PB!vars)
    BY SameB
  <1> QED
    BY <1>1, SessionsOfService, PTL DEF B!Spec, PB!Spec

\* The chain invariants, and the types, of both.
LEMMA ChainsOfSessions == Spec => []PA!ChainInv /\ []PB!ChainInv
  <1>1. PA!Spec => []PA!ChainInv
    BY ConstantsA, PA!ChainInvHolds
  <1>2. PB!Spec => []PB!ChainInv
    BY ConstantsB, PB!ChainInvHolds
  <1> QED
    BY <1>1, <1>2, SpecA, SpecB, PTL

\* For clients that wait for their answers, a session on a loop that it shares
\* is never used after its end, and answers in order, whatever the other does.
THEOREM SessionsKeepOrder ==
  ASSUME ~Pipelining
  PROVE  Spec => [](A!NoStaleUse /\ A!RepliesInOrder /\ B!NoStaleUse /\ B!RepliesInOrder)
  <1>1. PA!Spec => []PA!NoStaleUse /\ []PA!RepliesInOrder
    BY ConstantsA, PA!NoStaleUseHolds, PA!RepliesInOrderHolds
  <1>2. PB!Spec => []PB!NoStaleUse /\ []PB!RepliesInOrder
    BY ConstantsB, PB!NoStaleUseHolds, PB!RepliesInOrderHolds
  <1>3. /\ PA!NoStaleUse => A!NoStaleUse
        /\ PA!RepliesInOrder => A!RepliesInOrder
        /\ PB!NoStaleUse => B!NoStaleUse
        /\ PB!RepliesInOrder => B!RepliesInOrder
    BY DEF A!NoStaleUse, PA!NoStaleUse, A!RepliesInOrder, PA!RepliesInOrder,
           B!NoStaleUse, PB!NoStaleUse, B!RepliesInOrder, PB!RepliesInOrder
  <1> QED
    BY <1>1, <1>2, <1>3, SpecA, SpecB, PTL

-----------------------------------------------------------------------------
(***************************************************************************)
(* The invariant.  The handler of an accept is posted once or not at all,  *)
(* and stands for a connection that has no session yet; each connects      *)
(* once; and of a session that was not started nothing runs, for its       *)
(* client alone moves nothing.                                             *)
(***************************************************************************)
NoAccept(q) == \A i \in DOMAIN q : q[i] # "accept"

AcceptsOnce ==
    /\ accept = "armed" => NoAccept(posted)
    /\ accept = "socket" =>
           /\ started < Len(arrived)
           /\ \E i \in DOMAIN posted : \A j \in DOMAIN posted : posted[j] = "accept" <=> j = i

ArrivedOnce ==
    /\ arrived \in Seq(Sessions)
    /\ \A m, n \in DOMAIN arrived : arrived[m] = arrived[n] => m = n

NotStarted ==
    /\ ~Started("A") => readyA = <<>> /\ readerA = "hdr" /\ registeredA
    /\ ~Started("B") => readyB = <<>> /\ readerB = "hdr" /\ registeredB

QueueTypeOK ==
    /\ Len(arrived) \in 0..2
    /\ accept \in {"armed", "socket"} /\ started \in 0..Len(arrived)
    /\ posted \in Seq(Sessions \cup {"accept"})

ServiceInv == QueueTypeOK /\ AcceptsOnce /\ ArrivedOnce /\ NotStarted

\* What is known of a step besides.
Chains == PA!ChainInv /\ PB!ChainInv

LEMMA HandlersType ==
  ASSUME NEW c \in Sessions, NEW n \in Int
  PROVE  Handlers(c, n) \in Seq(Sessions \cup {"accept"}) /\ NoAccept(Handlers(c, n))
  <1>1. CASE n \in Nat
    BY <1>1 DEF Handlers, NoAccept, Sessions
  <1>2. CASE n \notin Nat
    <2>1. 1..n = 1..0
      BY <1>2
    <2> QED
      BY <2>1 DEF Handlers, NoAccept
  <1> QED
    BY <1>1, <1>2

\* Handlers of sessions join the queue behind those of accepts.
LEMMA PostSessions ==
  ASSUME NEW q \in Seq(Sessions \cup {"accept"}), NEW h \in Seq(Sessions \cup {"accept"}),
         NoAccept(h), Post(q, h)
  PROVE  /\ posted' \in Seq(Sessions \cup {"accept"})
         /\ NoAccept(q) => NoAccept(posted')
         /\ \A i \in DOMAIN q :
                (\A j \in DOMAIN q : q[j] = "accept" <=> j = i) =>
                    /\ i \in DOMAIN posted'
                    /\ \A j \in DOMAIN posted' : posted'[j] = "accept" <=> j = i
  <1>1. /\ posted' = q \o h /\ Len(posted') = Len(q) + Len(h)
        /\ Len(q) \in Nat /\ Len(h) \in Nat
        /\ DOMAIN q = 1..Len(q) /\ DOMAIN h = 1..Len(h) /\ DOMAIN posted' = 1..Len(posted')
    BY DEF Post
  <1>2. \A j \in 1..Len(posted') :
            posted'[j] = IF j <= Len(q) THEN q[j] ELSE h[j - Len(q)]
    BY <1>1
  <1>3. \A j \in 1..Len(posted') : j <= Len(q) => j \in DOMAIN q
    BY <1>1
  <1>4. \A j \in 1..Len(posted') : ~(j <= Len(q)) => j - Len(q) \in DOMAIN h /\ j \notin DOMAIN q
    BY <1>1
  <1>5. \A j \in DOMAIN posted' : posted'[j] = "accept" => j \in DOMAIN q /\ q[j] = "accept"
    BY <1>1, <1>2, <1>3, <1>4 DEF NoAccept
  <1>6. \A j \in DOMAIN q : j \in DOMAIN posted' /\ posted'[j] = q[j]
    BY <1>1, <1>2
  <1>7. posted' \in Seq(Sessions \cup {"accept"})
    BY <1>1
  <1> QED
    BY <1>5, <1>6, <1>7 DEF NoAccept

\* The handler at the head is taken from the queue.
LEMMA PopHandler ==
  ASSUME NEW q \in Seq(Sessions \cup {"accept"}), q # <<>>
  PROVE  /\ Tail(q) \in Seq(Sessions \cup {"accept"})
         /\ NoAccept(q) => NoAccept(Tail(q))
         /\ \A i \in DOMAIN q :
                (\A j \in DOMAIN q : q[j] = "accept" <=> j = i) =>
                    IF Head(q) = "accept" THEN NoAccept(Tail(q))
                    ELSE /\ i - 1 \in DOMAIN Tail(q)
                         /\ \A j \in DOMAIN Tail(q) : Tail(q)[j] = "accept" <=> j = i - 1
  <1>1. /\ Tail(q) \in Seq(Sessions \cup {"accept"})
        /\ Len(q) \in Nat /\ Len(q) > 0 /\ Len(Tail(q)) = Len(q) - 1
        /\ DOMAIN q = 1..Len(q) /\ DOMAIN Tail(q) = 1..(Len(q) - 1)
        /\ Head(q) = q[1]
    OBVIOUS
  <1>2. \A j \in DOMAIN Tail(q) : j + 1 \in DOMAIN q /\ j + 1 # 1 /\ Tail(q)[j] = q[j + 1]
    BY <1>1
  <1>3. NoAccept(q) => NoAccept(Tail(q))
    BY <1>2 DEF NoAccept
  <1>4. ASSUME NEW i \in DOMAIN q, \A j \in DOMAIN q : q[j] = "accept" <=> j = i
        PROVE  IF Head(q) = "accept" THEN NoAccept(Tail(q))
               ELSE /\ i - 1 \in DOMAIN Tail(q)
                    /\ \A j \in DOMAIN Tail(q) : Tail(q)[j] = "accept" <=> j = i - 1
    <2>1. Head(q) = "accept" <=> i = 1
      BY <1>1, <1>4
    <2>2. \A j \in DOMAIN Tail(q) : Tail(q)[j] = "accept" <=> j + 1 = i
      BY <1>2, <1>4
    <2>3. i = 1 => NoAccept(Tail(q))
      BY <1>2, <2>2 DEF NoAccept
    <2>4. i # 1 => i - 1 \in DOMAIN Tail(q)
      BY <1>1
    <2>5. \A j \in DOMAIN Tail(q) : j + 1 = i <=> j = i - 1
      BY <1>1
    <2> QED
      BY <2>1, <2>2, <2>3, <2>4, <2>5
  <1> QED
    BY <1>1, <1>3, <1>4

-----------------------------------------------------------------------------
(***************************************************************************)
(* The invariant is inductive                                              *)
(***************************************************************************)
LEMMA QueueLengths == Chains => Len(readyA) \in Nat /\ Len(readyB) \in Nat
  <1>1. Chains => readyA \in Seq(PA!Handlers) /\ readyB \in Seq(PB!Handlers)
    BY DEF Chains, PA!ChainInv, PA!TypeOK, PA!StreamTypeOK,
           PB!ChainInv, PB!TypeOK, PB!StreamTypeOK
  <1> QED
    BY <1>1, LenProperties

LEMMA QueueLengthsNext == (Chains => Len(readyA) \in Nat /\ Len(readyB) \in Nat)'
  BY QueueLengths, PTL

\* Nothing but the queue of handlers, and sessions that were started, moves.
LEMMA BesideAccept ==
  ASSUME ServiceInv, UNCHANGED acceptVars,
         posted' \in Seq(Sessions \cup {"accept"}),
         accept = "armed" => NoAccept(posted'),
         accept = "socket" =>
             \E i \in DOMAIN posted' : \A j \in DOMAIN posted' : posted'[j] = "accept" <=> j = i,
         ~Started("A") => UNCHANGED <<readyA, readerA, registeredA>>,
         ~Started("B") => UNCHANGED <<readyB, readerB, registeredB>>
  PROVE  ServiceInv'
  <1>1. QueueTypeOK' /\ ArrivedOnce'
    BY DEF ServiceInv, QueueTypeOK, ArrivedOnce, acceptVars
  <1>2. AcceptsOnce'
    BY DEF ServiceInv, AcceptsOnce, acceptVars, NoAccept
  <1>3. (Started("A") <=> Started("A")') /\ (Started("B") <=> Started("B")')
    BY DEF Started, acceptVars
  <1>4. NotStarted'
    BY <1>3 DEF ServiceInv, NotStarted
  <1> QED
    BY <1>1, <1>2, <1>4 DEF ServiceInv

LEMMA SessionPosts ==
  ASSUME ServiceInv, UNCHANGED acceptVars, NEW c \in Sessions, NEW n \in Int,
         NEW q, q = posted \/ (Runs(c) /\ q = Tail(posted)),
         Post(q, Handlers(c, n)),
         ~Started("A") => UNCHANGED <<readyA, readerA, registeredA>>,
         ~Started("B") => UNCHANGED <<readyB, readerB, registeredB>>
  PROVE  ServiceInv'
  <1>1. posted \in Seq(Sessions \cup {"accept"})
    BY DEF ServiceInv, QueueTypeOK
  <1>2. Runs(c) => posted # <<>> /\ Head(posted) # "accept"
    BY DEF Runs, Sessions
  <1>3. /\ q \in Seq(Sessions \cup {"accept"})
        /\ accept = "armed" => NoAccept(q)
        /\ accept = "socket" =>
               \E i \in DOMAIN q : \A j \in DOMAIN q : q[j] = "accept" <=> j = i
    <2>1. CASE q = posted
      BY <1>1, <2>1 DEF ServiceInv, AcceptsOnce
    <2>2. CASE Runs(c) /\ q = Tail(posted)
      <3>1. accept = "armed" => NoAccept(posted)
        BY DEF ServiceInv, AcceptsOnce
      <3>2. accept = "socket" =>
                \E i \in DOMAIN posted : \A j \in DOMAIN posted : posted[j] = "accept" <=> j = i
        BY DEF ServiceInv, AcceptsOnce
      <3> QED
        BY <1>1, <1>2, <2>2, <3>1, <3>2, PopHandler
    <2> QED
      BY <2>1, <2>2
  <1>4. Handlers(c, n) \in Seq(Sessions \cup {"accept"}) /\ NoAccept(Handlers(c, n))
    BY HandlersType
  <1>5. /\ posted' \in Seq(Sessions \cup {"accept"})
        /\ accept = "armed" => NoAccept(posted')
        /\ accept = "socket" =>
             \E i \in DOMAIN posted' : \A j \in DOMAIN posted' : posted'[j] = "accept" <=> j = i
    BY <1>3, <1>4, PostSessions
  <1> QED
    BY <1>5, BesideAccept

LEMMA InitService == Init => ServiceInv
  BY DEF Init, ServiceInv, QueueTypeOK, AcceptsOnce, ArrivedOnce, NotStarted, NoAccept, Sessions,
         A!Init, A!StreamInit, B!Init, B!StreamInit

LEMMA ConnectService ==
  ASSUME ServiceInv, NEW c \in Sessions, Connect(c)
  PROVE  ServiceInv'
  <1>1. /\ arrived' = Append(arrived, c) /\ arrived \in Seq(Sessions)
        /\ \A n \in DOMAIN arrived : arrived[n] # c
        /\ UNCHANGED <<accept, started, posted, readyA, readerA, registeredA,
                       readyB, readerB, registeredB>>
    BY DEF Connect, Connected, ServiceInv, ArrivedOnce, varsA, varsB
  <1>2. /\ Len(arrived) \in Nat /\ Len(arrived') = Len(arrived) + 1
        /\ arrived' \in Seq(Sessions)
        /\ \A n \in 1..Len(arrived) : arrived'[n] = arrived[n]
        /\ arrived'[Len(arrived) + 1] = c
        /\ DOMAIN arrived = 1..Len(arrived) /\ DOMAIN arrived' = 1..(Len(arrived) + 1)
    BY <1>1
  <1>3. ArrivedOnce'
    BY <1>1, <1>2 DEF ServiceInv, ArrivedOnce
  <1>4. Len(arrived) \in 0..1
    <2>1. Len(arrived) # 2
      <3> SUFFICES ASSUME Len(arrived) = 2
                   PROVE  FALSE
        OBVIOUS
      <3>1. arrived[1] # arrived[2] /\ arrived[1] # c /\ arrived[2] # c
        BY <1>1, <1>2 DEF ServiceInv, ArrivedOnce
      <3>2. arrived[1] \in {"A", "B"} /\ arrived[2] \in {"A", "B"} /\ c \in {"A", "B"}
        BY <1>1, <1>2 DEF Sessions
      <3> QED
        BY <3>1, <3>2
    <2> QED
      BY <2>1 DEF ServiceInv, QueueTypeOK
  <1>5. QueueTypeOK' /\ AcceptsOnce'
    BY <1>1, <1>2, <1>4 DEF ServiceInv, QueueTypeOK, AcceptsOnce, NoAccept
  <1>6. (Started("A") <=> Started("A")') /\ (Started("B") <=> Started("B")')
    BY <1>1, <1>2 DEF Started, ServiceInv, QueueTypeOK
  <1>7. NotStarted'
    BY <1>1, <1>6 DEF ServiceInv, NotStarted
  <1> QED
    BY <1>3, <1>5, <1>7 DEF ServiceInv

LEMMA AcceptsService ==
  ASSUME ServiceInv, Accepts
  PROVE  ServiceInv'
  <1>1. /\ accept = "armed" /\ accept' = "socket" /\ started < Len(arrived)
        /\ posted' = posted \o <<"accept">> /\ NoAccept(posted)
        /\ posted \in Seq(Sessions \cup {"accept"})
        /\ UNCHANGED <<arrived, started, readyA, readerA, registeredA,
                       readyB, readerB, registeredB>>
    BY DEF Accepts, Post, ServiceInv, AcceptsOnce, QueueTypeOK, varsA, varsB
  <1>2. /\ posted' \in Seq(Sessions \cup {"accept"})
        /\ Len(posted) \in Nat /\ Len(posted') = Len(posted) + 1
        /\ DOMAIN posted = 1..Len(posted) /\ DOMAIN posted' = 1..(Len(posted) + 1)
        /\ \A j \in 1..Len(posted) : posted'[j] = posted[j]
        /\ posted'[Len(posted) + 1] = "accept"
    BY <1>1
  <1>3. \A j \in DOMAIN posted' : posted'[j] = "accept" <=> j = Len(posted) + 1
    BY <1>1, <1>2 DEF NoAccept
  <1>4. QueueTypeOK' /\ AcceptsOnce' /\ ArrivedOnce'
    <2>1. QueueTypeOK' /\ ArrivedOnce'
      BY <1>1, <1>2 DEF ServiceInv, QueueTypeOK, ArrivedOnce
    <2>2. Len(posted) + 1 \in DOMAIN posted'
      BY <1>2
    <2>3. AcceptsOnce'
      BY <1>1, <1>3, <2>2 DEF AcceptsOnce
    <2> QED
      BY <2>1, <2>3
  <1>5. (Started("A") <=> Started("A")') /\ (Started("B") <=> Started("B")')
    BY <1>1 DEF Started
  <1>6. NotStarted'
    BY <1>1, <1>5 DEF ServiceInv, NotStarted
  <1> QED
    BY <1>4, <1>6 DEF ServiceInv

LEMMA AcceptPosted ==
  ASSUME ServiceInv, OnAccept
  PROVE  /\ accept = "socket" /\ started < Len(arrived)
         /\ posted' \in Seq(Sessions \cup {"accept"}) /\ NoAccept(posted')
  <1>1. /\ posted \in Seq(Sessions \cup {"accept"}) /\ posted # <<>>
        /\ Head(posted) = "accept" /\ posted' = Tail(posted) \o <<>>
        /\ accept \in {"armed", "socket"}
    BY DEF OnAccept, Runs, Post, ServiceInv, QueueTypeOK
  <1>2. ~NoAccept(posted)
    <2>1. 1 \in DOMAIN posted /\ posted[1] = "accept"
      BY <1>1
    <2> QED
      BY <2>1 DEF NoAccept
  <1>3. accept = "socket" /\ started < Len(arrived)
    BY <1>1, <1>2 DEF ServiceInv, AcceptsOnce
  <1>4. \E i \in DOMAIN posted : \A j \in DOMAIN posted : posted[j] = "accept" <=> j = i
    BY <1>3 DEF ServiceInv, AcceptsOnce
  <1>5. Tail(posted) \in Seq(Sessions \cup {"accept"}) /\ NoAccept(Tail(posted))
    BY <1>1, <1>4, PopHandler
  <1>6. posted' = Tail(posted)
    BY <1>1, <1>5
  <1> QED
    BY <1>3, <1>5, <1>6

LEMMA OnAcceptService ==
  ASSUME ServiceInv, OnAccept
  PROVE  ServiceInv'
  <1>1. /\ accept = "socket" /\ started < Len(arrived)
        /\ posted' \in Seq(Sessions \cup {"accept"}) /\ NoAccept(posted')
    BY AcceptPosted
  <1>2. /\ accept' = "armed" /\ started' = started + 1 /\ started \in Nat
        /\ UNCHANGED <<arrived, readyA, readerA, registeredA, readyB, readerB, registeredB>>
    BY DEF OnAccept, varsA, varsB, ServiceInv, QueueTypeOK
  <1>3. QueueTypeOK' /\ AcceptsOnce' /\ ArrivedOnce'
    BY <1>1, <1>2 DEF ServiceInv, QueueTypeOK, AcceptsOnce, ArrivedOnce
  <1>4. (Started("A") => Started("A")') /\ (Started("B") => Started("B")')
    BY <1>2 DEF Started
  <1>5. NotStarted'
    BY <1>2, <1>4 DEF ServiceInv, NotStarted
  <1> QED
    BY <1>3, <1>5 DEF ServiceInv

LEMMA ServiceStep == Chains /\ Chains' /\ ServiceInv /\ [Next]_vars => ServiceInv'
  <1> SUFFICES ASSUME Chains, Chains', ServiceInv, [Next]_vars
               PROVE  ServiceInv'
    OBVIOUS
  <1>1. /\ Len(readyA) \in Nat /\ Len(readyB) \in Nat
        /\ Len(readyA') \in Nat /\ Len(readyB') \in Nat
    BY QueueLengths, QueueLengthsNext
  <1>2. "A" \in Sessions /\ "B" \in Sessions
    BY DEF Sessions
  <1>3. CASE UNCHANGED vars
    BY <1>3, BesideAccept DEF vars, acceptVars, varsA, varsB, ServiceInv, QueueTypeOK, AcceptsOnce
  <1>4. CASE ClientA \/ ClientB
    <2>1. UNCHANGED <<readyA, readerA, registeredA, readyB, readerB, registeredB>>
      <3>1. CASE ClientA
        BY <3>1, SameA, ConstantsA, PA!ClientBeside DEF ClientA, varsB
      <3>2. CASE ClientB
        BY <3>2, SameB, ConstantsB, PB!ClientBeside DEF ClientB, varsA
      <3> QED
        BY <1>4, <3>1, <3>2
    <2>2. UNCHANGED acceptVars /\ UNCHANGED posted
      BY <1>4 DEF ClientA, ClientB
    <2> QED
      BY <2>1, <2>2, BesideAccept DEF ServiceInv, QueueTypeOK, AcceptsOnce
  <1>5. CASE KernelA
    BY <1>1, <1>2, <1>5, SessionPosts DEF KernelA, varsB
  <1>6. CASE KernelB
    BY <1>1, <1>2, <1>6, SessionPosts DEF KernelB, varsA
  <1>7. CASE HandlerA
    <2>1. Started("A")
      BY <1>7, SameA, ConstantsA, PA!EventLoopRuns DEF HandlerA, ServiceInv, NotStarted
    <2>2. Len(readyA') - (Len(readyA) - 1) \in Int
      BY <1>1
    <2>3. /\ Runs("A") /\ UNCHANGED acceptVars
          /\ Post(Tail(posted), Handlers("A", Len(readyA') - (Len(readyA) - 1)))
          /\ UNCHANGED <<readyB, readerB, registeredB>>
      BY <1>7 DEF HandlerA, varsB
    <2> QED
      BY <1>2, <2>1, <2>2, <2>3, SessionPosts
  <1>8. CASE HandlerB
    <2>1. Started("B")
      BY <1>8, SameB, ConstantsB, PB!EventLoopRuns DEF HandlerB, ServiceInv, NotStarted
    <2>2. Len(readyB') - (Len(readyB) - 1) \in Int
      BY <1>1
    <2>3. /\ Runs("B") /\ UNCHANGED acceptVars
          /\ Post(Tail(posted), Handlers("B", Len(readyB') - (Len(readyB) - 1)))
          /\ UNCHANGED <<readyA, readerA, registeredA>>
      BY <1>8 DEF HandlerB, varsA
    <2> QED
      BY <1>2, <2>1, <2>2, <2>3, SessionPosts
  <1> QED
    BY <1>3, <1>4, <1>5, <1>6, <1>7, <1>8, ConnectService, AcceptsService, OnAcceptService
       DEF Next, run

LEMMA ServiceInvHolds == Spec => []ServiceInv
  BY InitService, ServiceStep, ChainsOfSessions, PTL DEF Spec, Chains

\* The queue of the io_context and each session have their types, however the
\* handlers of the two and of the acceptor follow one another.
THEOREM ServiceTypeCorrect == Spec => []TypeOK
  <1>1. ServiceInv /\ Chains => TypeOK
    BY SameA, SameB DEF TypeOK, ServiceInv, QueueTypeOK, ArrivedOnce, Chains,
                        PA!ChainInv, PB!ChainInv
  <1> QED
    BY <1>1, ServiceInvHolds, ChainsOfSessions, PTL DEF Chains

-----------------------------------------------------------------------------
(***************************************************************************)
(* Service implements Server                                               *)
(***************************************************************************)
\* What Server's variables stand for.
Waiting == [k \in 1..(Len(arrived) - Taken) |-> Taken + k]
Ids == [n \in 1..started |-> n]
Lives == [n \in 1..started |-> LifeOf(arrived[n])]
Table == [n \in {m \in 1..started : RegisteredOf(arrived[m])} |-> n]

\* Sessions move through their lives, and leave the map when they are done.
LifeFacts ==
    \A c \in Sessions :
        /\ LifeOf(c)' = LifeOf(c) \/ (LifeOf(c) = "reading" /\ LifeOf(c)' \in {"lost", "done"})
        /\ LifeOf(c) = "done" <=> ~RegisteredOf(c)
        /\ LifeOf(c)' = "done" <=> ~RegisteredOf(c)'

LEMMA LivesMove == Chains /\ [Next]_vars => LifeFacts
  <1> SUFFICES ASSUME Chains, [Next]_vars
               PROVE  LifeFacts
    OBVIOUS
  <1>1. [A!Next]_(A!vars) /\ [B!Next]_(B!vars)
    BY StepsOfSessions
  <1>2. /\ A!LifeNow' = A!LifeNow \/ (A!LifeNow = "reading" /\ A!LifeNow' \in {"lost", "done"})
        /\ A!LifeNow = "done" <=> ~registeredA
        /\ A!LifeNow' = "done" <=> ~registeredA'
    BY <1>1, SameA, ConstantsA, PA!LifeMoves DEF Chains
  <1>3. /\ B!LifeNow' = B!LifeNow \/ (B!LifeNow = "reading" /\ B!LifeNow' \in {"lost", "done"})
        /\ B!LifeNow = "done" <=> ~registeredB
        /\ B!LifeNow' = "done" <=> ~registeredB'
    BY <1>1, SameB, ConstantsB, PB!LifeMoves DEF Chains
  <1> QED
    BY <1>2, <1>3 DEF LifeFacts, LifeOf, RegisteredOf, Sessions

\* Of a session that was not started, Server knows nothing yet.
LEMMA FreshLives ==
  ASSUME ServiceInv, NEW c \in Sessions, ~Started(c)
  PROVE  LifeOf(c) = "reading" /\ RegisteredOf(c)
  BY DEF ServiceInv, NotStarted, LifeOf, RegisteredOf, Sessions, A!LifeNow, B!LifeNow

\* A session that was started takes a step, and the other one none.
LEMMA SessionServer ==
  ASSUME ServiceInv, LifeFacts, UNCHANGED acceptVars, NEW c \in Sessions, Started(c),
         \A d \in Sessions : d # c => LifeOf(d)' = LifeOf(d) /\ RegisteredOf(d)' = RegisteredOf(d)
  PROVE  [Srv!Next]_(Srv!vars)
  <1>1. UNCHANGED <<arrived, accept, started>> /\ started \in 0..Len(arrived)
        /\ Len(arrived) \in Nat
    BY DEF acceptVars, ServiceInv, QueueTypeOK
  <1>2. PICK n \in 1..started : arrived[n] = c
    BY DEF Started
  <1>3. \A m \in 1..started :
            arrived[m] \in Sessions /\ arrived'[m] = arrived[m] /\ (m # n => arrived[m] # c)
    BY <1>1, <1>2 DEF ServiceInv, ArrivedOnce
  <1>4. UNCHANGED <<Len(arrived), Waiting, accept, Taken, started, Ids>>
    BY <1>1 DEF Waiting, Taken, Ids
  <1>5. \A m \in 1..started : m # n => Lives'[m] = Lives[m]
    BY <1>1, <1>3 DEF Lives
  <1>6. /\ Lives[n] = LifeOf(c) /\ Lives'[n] = LifeOf(c)'
        /\ DOMAIN Lives = 1..started /\ DOMAIN Lives' = 1..started
    BY <1>1, <1>2 DEF Lives
  <1>7. CASE LifeOf(c)' = LifeOf(c)
    <2>1. RegisteredOf(c)' <=> RegisteredOf(c)
      BY <1>7 DEF LifeFacts
    <2>2. Lives' = Lives
      BY <1>1, <1>2, <1>3, <1>7 DEF Lives
    <2>3. Table' = Table
      BY <1>1, <1>2, <1>3, <2>1 DEF Table
    <2> QED
      BY <1>4, <2>2, <2>3
         DEF Srv!vars, Srv!sessionVars, Waiting, Taken, Ids, Lives, Table
  <1>8. CASE LifeOf(c) = "reading" /\ LifeOf(c)' = "lost"
    <2>1. RegisteredOf(c) /\ RegisteredOf(c)'
      BY <1>8 DEF LifeFacts
    <2>2. Table' = Table
      BY <1>1, <1>2, <1>3, <2>1 DEF Table
    <2>3. n \in Srv!Reading
      BY <1>2, <1>6, <1>8 DEF Srv!Reading, Lives
    <2>4. Lives' = [Lives EXCEPT ![n] = "lost"]
      BY <1>5, <1>6, <1>8 DEF Lives
    <2>5. Srv!SessionLost(n)
      BY <1>4, <2>2, <2>4 DEF Srv!SessionLost, Waiting, Taken, Ids, Lives, Table
    <2> QED
      BY <2>3, <2>5 DEF Srv!Next
  <1>9. CASE LifeOf(c) = "reading" /\ LifeOf(c)' = "done"
    <2>1. RegisteredOf(c) /\ ~RegisteredOf(c)'
      BY <1>9 DEF LifeFacts
    <2>2. Table' = [y \in DOMAIN Table \ {n} |-> Table[y]]
      <3>1. {m \in 1..started : RegisteredOf(arrived[m])}' =
                {m \in 1..started : RegisteredOf(arrived[m])} \ {n}
        BY <1>1, <1>2, <1>3, <2>1
      <3> QED
        BY <1>1, <3>1 DEF Table
    <2>3. n \in Srv!Reading
      BY <1>2, <1>6, <1>9 DEF Srv!Reading, Lives
    <2>4. Lives' = [Lives EXCEPT ![n] = "done"]
      BY <1>5, <1>6, <1>9 DEF Lives
    <2>5. Table' = Srv!erase(Table, Ids[n])
      BY <1>2, <2>2 DEF Srv!erase, Ids
    <2>6. Srv!SessionDone(n)
      BY <1>4, <2>4, <2>5 DEF Srv!SessionDone, Waiting, Taken, Ids, Lives, Table
    <2> QED
      BY <2>3, <2>6 DEF Srv!Next
  <1> QED
    BY <1>7, <1>8, <1>9 DEF LifeFacts

\* Nobody but the acceptor moves.
LEMMA LivesStay ==
  ASSUME ServiceInv, UNCHANGED <<readerA, registeredA, readerB, registeredB, started>>,
         \A n \in 1..started : arrived'[n] = arrived[n]
  PROVE  Lives' = Lives /\ Table' = Table /\ Ids' = Ids
  <1>1. \A n \in 1..started : arrived[n] \in Sessions
    BY DEF ServiceInv, QueueTypeOK, ArrivedOnce
  <1>2. \A n \in 1..started :
            /\ LifeOf(arrived[n])' = LifeOf(arrived[n])
            /\ RegisteredOf(arrived[n])' = RegisteredOf(arrived[n])
    BY <1>1 DEF LifeOf, RegisteredOf, Sessions, A!LifeNow, B!LifeNow
  <1>3. Lives' = Lives
    BY <1>2 DEF Lives
  <1>4. {m \in 1..started : RegisteredOf(arrived[m])}' =
            {m \in 1..started : RegisteredOf(arrived[m])}
    BY <1>2
  <1>5. Table' = Table
    BY <1>4 DEF Table
  <1> QED
    BY <1>3, <1>5 DEF Ids

LEMMA ConnectServer ==
  ASSUME ServiceInv, ServiceInv', NEW c \in Sessions, Connect(c)
  PROVE  Srv!Connect
  <1>1. /\ arrived' = Append(arrived, c) /\ arrived \in Seq(Sessions)
        /\ UNCHANGED <<accept, started, varsA, varsB>>
    BY DEF Connect, ServiceInv, ArrivedOnce
  <1>2. /\ Len(arrived) \in Nat /\ Len(arrived') = Len(arrived) + 1
        /\ \A n \in 1..Len(arrived) : arrived'[n] = arrived[n]
    BY <1>1
  <1>3. started \in 0..Len(arrived) /\ Len(arrived') \in 0..2
    BY DEF ServiceInv, QueueTypeOK
  <1>4. Lives' = Lives /\ Table' = Table /\ Ids' = Ids
    BY <1>1, <1>2, <1>3, LivesStay DEF varsA, varsB
  <1>5. Taken \in 0..Len(arrived) /\ Taken' = Taken
    BY <1>1, <1>3 DEF Taken, ServiceInv, AcceptsOnce
  <1>6. Waiting' = Append(Waiting, Len(arrived) + 1)
    <2>1. /\ Waiting \in Seq(Nat) /\ Len(Waiting) = Len(arrived) - Taken
          /\ Waiting' \in Seq(Nat) /\ Len(Waiting') = Len(arrived) + 1 - Taken
          /\ \A k \in 1..(Len(arrived) - Taken) : Waiting[k] = Taken + k
          /\ \A k \in 1..(Len(arrived) + 1 - Taken) : Waiting'[k] = Taken + k
      BY <1>2, <1>5 DEF Waiting
    <2>2. /\ Append(Waiting, Len(arrived) + 1) \in Seq(Nat)
          /\ Len(Append(Waiting, Len(arrived) + 1)) = Len(Waiting) + 1
          /\ \A k \in 1..Len(Waiting) : Append(Waiting, Len(arrived) + 1)[k] = Waiting[k]
          /\ Append(Waiting, Len(arrived) + 1)[Len(Waiting) + 1] = Len(arrived) + 1
      BY <1>2, <2>1, AppendProperties
    <2>3. \A k \in 1..Len(Waiting') : Append(Waiting, Len(arrived) + 1)[k] = Waiting'[k]
      <3> TAKE k \in 1..Len(Waiting')
      <3>1. CASE k \in 1..Len(Waiting)
        BY <1>2, <1>5, <2>1, <2>2, <3>1
      <3>2. CASE k = Len(Waiting) + 1
        BY <1>2, <1>5, <2>1, <2>2, <3>2
      <3> QED
        BY <1>2, <1>5, <2>1, <3>1, <3>2
    <2>4. Len(Waiting') = Len(Waiting) + 1
      BY <1>2, <1>5, <2>1
    <2> QED
      BY <2>1, <2>2, <2>3, <2>4, SeqEqual
  <1>7. Len(arrived) < 2
    BY <1>2, <1>3
  <1> QED
    BY <1>1, <1>2, <1>4, <1>5, <1>6, <1>7
       DEF Srv!Connect, Srv!sessionVars, Waiting, Taken, Lives, Table, Ids

LEMMA SameCardinality == \A S : Srv!Cardinality(S) = Cardinality(S)
  BY DEF Srv!Cardinality, Cardinality, Srv!IsFiniteSet, IsFiniteSet

\* No more than three descriptors are needed, so none is ever missing.
LEMMA FewOpen ==
  ASSUME ServiceInv, accept = "armed", started < Len(arrived)
  PROVE  Cardinality(Srv!Open) < 3
  <1>1. started \in 0..1
    <2>1. started \in 0..Len(arrived) /\ Len(arrived) \in 0..2 /\ started < Len(arrived)
      BY DEF ServiceInv, QueueTypeOK
    <2>2. ASSUME NEW m, NEW n, m \in 0..n, n \in 0..2, m < n
          PROVE  m \in 0..1
      BY <2>2
    <2> QED
      BY <2>1, <2>2
  <1>2. DOMAIN Lives \subseteq {1} /\ DOMAIN Table \subseteq {1}
    BY <1>1 DEF Lives, Table
  <1>3. Srv!Reading \subseteq DOMAIN Lives
    BY DEF Srv!Reading, Lives
  <1>4. Srv!Registered \subseteq DOMAIN Table
    BY DEF Srv!Registered, Table
  <1>5. Srv!Open \subseteq {1}
    BY <1>2, <1>3, <1>4 DEF Srv!Open
  <1>6. IsFiniteSet({1}) /\ Cardinality({1}) = 1
    BY FS_Singleton
  <1>7. Cardinality(Srv!Open) <= 1 /\ Cardinality(Srv!Open) \in Nat
    BY <1>5, <1>6, FS_Subset, FS_CardinalityType
  <1> QED
    BY <1>7

LEMMA AcceptsServer ==
  ASSUME ServiceInv, Accepts
  PROVE  Srv!Accepts
  <1>1. /\ accept = "armed" /\ accept' = "socket" /\ started < Len(arrived)
        /\ UNCHANGED <<arrived, started, varsA, varsB>>
    BY DEF Accepts
  <1>2. started \in 0..Len(arrived) /\ Len(arrived) \in 0..2
    BY DEF ServiceInv, QueueTypeOK
  <1>3. Lives' = Lives /\ Table' = Table /\ Ids' = Ids
    BY <1>1, LivesStay DEF varsA, varsB
  <1>4. Taken = started /\ Taken' = started + 1
    BY <1>1 DEF Taken
  <1>5. /\ Waiting # <<>> /\ Taken' = Head(Waiting) /\ Waiting' = Tail(Waiting)
    <2>1. /\ Waiting \in Seq(Nat) /\ Len(Waiting) = Len(arrived) - started
          /\ Waiting' \in Seq(Nat) /\ Len(Waiting') = Len(arrived) - (started + 1)
          /\ \A k \in 1..(Len(arrived) - started) : Waiting[k] = started + k
          /\ \A k \in 1..(Len(arrived) - (started + 1)) : Waiting'[k] = started + 1 + k
      BY <1>1, <1>2, <1>4 DEF Waiting
    <2>2. /\ Waiting # <<>> /\ Head(Waiting) = started + 1
          /\ Tail(Waiting) \in Seq(Nat) /\ Len(Tail(Waiting)) = Len(Waiting')
          /\ \A k \in 1..Len(Waiting') : Tail(Waiting)[k] = Waiting'[k]
      BY <1>1, <1>2, <2>1
    <2> QED
      BY <1>4, <2>1, <2>2, SeqEqual
  <1>6. Cardinality(Srv!Open) < 3
    BY <1>1, FewOpen
  <1>7. /\ UNCHANGED Len(arrived)
        /\ (IF accept' = "socket" THEN Taken' ELSE 0) = Head(Waiting)
    BY <1>1, <1>5
  <1> QED
    BY <1>1, <1>3, <1>5, <1>6, <1>7, SameCardinality
       DEF Srv!Accepts, Srv!sessionVars, Waiting, Taken, Lives, Table, Ids

\* The connection that was accepted is that of a client whose session was not
\* started yet, and gets the next id.
LEMMA OnAcceptServer ==
  ASSUME ServiceInv, OnAccept
  PROVE  Srv!OnAccept
  <1>1. accept = "socket" /\ started < Len(arrived)
    BY AcceptPosted
  <1>2. /\ accept' = "armed" /\ started' = started + 1
        /\ UNCHANGED <<arrived, varsA, varsB>>
    BY DEF OnAccept
  <1>3. /\ started \in Nat /\ Len(arrived) \in Nat /\ arrived \in Seq(Sessions)
        /\ \A n \in 1..Len(arrived) : arrived[n] \in Sessions
    BY DEF ServiceInv, QueueTypeOK, ArrivedOnce
  <1>4. Taken = started + 1 /\ Taken' = started + 1
    BY <1>1, <1>2 DEF Taken
  <1>5. UNCHANGED <<Len(arrived), Waiting>>
    BY <1>2, <1>4 DEF Waiting
  <1>6. \A n \in 1..(started + 1) :
            /\ LifeOf(arrived[n])' = LifeOf(arrived[n])
            /\ RegisteredOf(arrived[n])' = RegisteredOf(arrived[n])
    BY <1>2, <1>3 DEF LifeOf, RegisteredOf, Sessions, A!LifeNow, B!LifeNow, varsA, varsB
  <1> DEFINE c == arrived[started + 1]
  <1>7. LifeOf(c) = "reading" /\ RegisteredOf(c)
    <2>1. c \in Sessions
      BY <1>1, <1>3
    <2>2. ~Started(c)
      <3>1. \A n \in 1..started : arrived[n] # c
        BY <1>1, <1>3 DEF ServiceInv, ArrivedOnce
      <3> QED
        BY <3>1 DEF Started
    <2> QED
      BY <2>1, <2>2, FreshLives
  <1>8. 1..(started + 1) = (1..started) \cup {started + 1} /\ started + 1 \notin 1..started
    BY <1>3
  <1>9. Ids' = Srv!With(Ids, Taken, started + 1)
    BY <1>2, <1>4, <1>8 DEF Ids, Srv!With
  <1>10. Lives' = Srv!With(Lives, Taken, "reading")
    BY <1>2, <1>4, <1>6, <1>7, <1>8 DEF Lives, Srv!With
  <1>11. Table' = Srv!emplace(Table, started + 1, Taken)
    <2>1. {m \in 1..started : RegisteredOf(arrived[m])}' =
              {m \in 1..started : RegisteredOf(arrived[m])} \cup {started + 1}
      BY <1>2, <1>6, <1>7, <1>8
    <2> QED
      BY <1>4, <1>8, <2>1 DEF Table, Srv!emplace, Srv!With
  <1> QED
    BY <1>1, <1>2, <1>4, <1>5, <1>9, <1>10, <1>11
       DEF Srv!OnAccept, Srv!StartSession, Srv!NewId, Waiting, Taken, Lives, Table, Ids

LEMMA InitServer == Init => Srv!Init
  <1> SUFFICES ASSUME Init
               PROVE  Srv!Init
    OBVIOUS
  <1>1. arrived = <<>> /\ accept = "armed" /\ started = 0
    BY DEF Init
  <1>2. Len(arrived) = 0 /\ Taken = 0
    BY <1>1 DEF Taken
  <1>3. Waiting = <<>> /\ Ids = <<>> /\ Lives = <<>>
    BY <1>1, <1>2 DEF Waiting, Ids, Lives
  <1>4. Table = <<>>
    <2>1. {m \in 1..started : RegisteredOf(arrived[m])} = 1..0
      BY <1>1
    <2> QED
      BY <2>1 DEF Table
  <1> QED
    BY <1>1, <1>2, <1>3, <1>4 DEF Srv!Init, Waiting, Taken, Lives, Table, Ids

LEMMA ServerStep ==
  Chains /\ ServiceInv /\ ServiceInv' /\ [Next]_vars => [Srv!Next]_(Srv!vars)
  <1> SUFFICES ASSUME Chains, ServiceInv, ServiceInv', [Next]_vars
               PROVE  [Srv!Next]_(Srv!vars)
    OBVIOUS
  <1>1. CASE UNCHANGED vars
    <2>1. /\ UNCHANGED <<arrived, accept, started, Len(arrived), Taken, Waiting>>
          /\ UNCHANGED <<varsA, varsB>>
      BY <1>1 DEF vars, acceptVars, Taken, Waiting
    <2>2. Lives' = Lives /\ Table' = Table /\ Ids' = Ids
      BY <2>1, LivesStay DEF varsA, varsB
    <2> QED
      BY <2>1, <2>2 DEF Srv!vars, Srv!sessionVars, Waiting, Taken, Lives, Table, Ids
  <1>2. LifeFacts
    BY LivesMove
  <1>3. UNCHANGED varsB => LifeOf("B")' = LifeOf("B") /\ RegisteredOf("B")' = RegisteredOf("B")
    BY DEF LifeOf, RegisteredOf, B!LifeNow, varsB
  <1>4. UNCHANGED varsA => LifeOf("A")' = LifeOf("A") /\ RegisteredOf("A")' = RegisteredOf("A")
    BY DEF LifeOf, RegisteredOf, A!LifeNow, varsA
  <1>5. CASE ClientA \/ ClientB
    <2>1. UNCHANGED <<arrived, accept, started, Len(arrived), Taken, Waiting>>
      BY <1>5 DEF ClientA, ClientB, acceptVars, Taken, Waiting
    <2>2. UNCHANGED <<readerA, registeredA, readerB, registeredB>>
      <3>1. CASE ClientA
        BY <3>1, SameA, ConstantsA, PA!ClientBeside DEF ClientA, varsB
      <3>2. CASE ClientB
        BY <3>2, SameB, ConstantsB, PB!ClientBeside DEF ClientB, varsA
      <3> QED
        BY <1>5, <3>1, <3>2
    <2>3. Lives' = Lives /\ Table' = Table /\ Ids' = Ids
      BY <2>1, <2>2, LivesStay
    <2> QED
      BY <2>1, <2>3 DEF Srv!vars, Srv!sessionVars, Waiting, Taken, Lives, Table, Ids
  <1>6. CASE KernelA \/ HandlerA
    <2>1. Started("A")
      BY <1>6, SameA, ConstantsA, PA!EventLoopRuns
         DEF KernelA, HandlerA, ServiceInv, NotStarted
    <2>2. UNCHANGED acceptVars /\ UNCHANGED varsB
      BY <1>6 DEF KernelA, HandlerA
    <2>3. \A d \in Sessions : d # "A" => d = "B"
      BY DEF Sessions
    <2>4. "A" \in Sessions
      BY DEF Sessions
    <2> QED
      BY <1>2, <1>3, <2>1, <2>2, <2>3, <2>4, SessionServer
  <1>7. CASE KernelB \/ HandlerB
    <2>1. Started("B")
      BY <1>7, SameB, ConstantsB, PB!EventLoopRuns
         DEF KernelB, HandlerB, ServiceInv, NotStarted
    <2>2. UNCHANGED acceptVars /\ UNCHANGED varsA
      BY <1>7 DEF KernelB, HandlerB
    <2>3. \A d \in Sessions : d # "B" => d = "A"
      BY DEF Sessions
    <2>4. "B" \in Sessions
      BY DEF Sessions
    <2> QED
      BY <1>2, <1>4, <2>1, <2>2, <2>3, <2>4, SessionServer
  <1> QED
    BY <1>1, <1>5, <1>6, <1>7, ConnectServer, AcceptsServer, OnAcceptServer
       DEF Next, run, Srv!Next

\* Two sessions with all their handlers, on one thread, are what Server takes
\* them for: the server sees each of them come once and end at most once.
THEOREM ServiceImplementsServer == Spec => ImplementsServer
  <1>1. Spec => Srv!Init /\ [][Srv!Next]_(Srv!vars)
    BY InitServer, ServerStep, ServiceInvHolds, ChainsOfSessions, PTL DEF Spec, Chains
  <1> QED
    BY <1>1 DEF ImplementsServer, Srv!Spec
==============================================================================
