------------------------------ MODULE Session -------------------------------
(***************************************************************************)
(* pgwire::Session (src/pgwire/session.cpp): the read loop do_read, the    *)
(* message dispatch process_message and the promise chains that tie them   *)
(* to the socket.                                                          *)
(*                                                                         *)
(* Everything runs on one thread, inside completion handlers.  The `main`  *)
(* chain is  read -> process_message -> writes of the answer -> read ...;  *)
(* when process_message rejects with a SqlException, do_read starts a      *)
(* second chain (ErrorResponse, then ReadyForQuery) and goes on reading    *)
(* WITHOUT waiting for it: those are the writes of the "error" chain.      *)
(*                                                                         *)
(* The promise library's rules (promise-cpp) that the chains rely on:      *)
(* `then` runs on a resolved promise only, `fail` on a rejected one and    *)
(* only when its parameter has the type of the rejection, and a `fail`     *)
(* that returns leaves the promise resolved.                               *)
(***************************************************************************)
EXTENDS Stream

CONSTANTS
    MaxMsgs,        \* bound: requests one client sends
    NumParams,      \* entries of server_status
    Sizes,          \* Sizes[t]: the chunk counts of the messages tagged t
    Allowed,        \* the kinds of request the client of this run sends
    ParseOutcomes,  \* what the ParseHandler may do with a query
    ExecOutcomes,   \* what the ExecHandler may do with a prepared statement
    Pipelining      \* does the client send on without waiting for answers?

\* A handler returns ("ok"), throws a SqlException of severity Error ("sql")
\* or Fatal ("fatal"), or throws something else ("exn").
Outcomes == {"ok", "sql", "fatal", "exn"}

ASSUME SessionAssumption ==
    /\ MaxMsgs \in Nat
    /\ NumParams \in Nat
    /\ Sizes \in [Tags -> SUBSET Nat]
    /\ \A t \in Tags \ {"D"} : 0 \notin Sizes[t]
    /\ Allowed \subseteq Kinds
    /\ ParseOutcomes \subseteq Outcomes
    /\ ExecOutcomes \subseteq Outcomes
    /\ Pipelining \in BOOLEAN

VARIABLES
    phase,          \* the client: "hello", "ready", or "bye" after Terminate
    asked,          \* requests the client has sent
    waiting,        \* the last of them that is owed an answer (0: none)
    startup_done,   \* Session::_startup_done
    reader,         \* where the main chain is, see Readers
    req,            \* number of the request being read or processed
    kind,           \* its kind
    todo,           \* messages process_message will still write for it
    registered,     \* the session is in ServerImpl::_sessions, hence alive
    stale           \* a handler used the session after it was destroyed

clientVars == <<phase, asked, waiting>>
sessionVars == <<startup_done, reader, req, kind, todo, registered, stale>>
vars == <<streamVars, clientVars, sessionVars>>

\* "hdr", "body": an async_read_exact of the header or the body is outstanding;
\* "posted": its handler is posted; "busy": process_message's promise is
\* pending; "lost": read() was rejected and nothing is attached to it;
\* "closed": the chain has ended and the session is gone.
Readers == {"hdr", "body", "posted", "busy", "lost", "closed"}

ClientTypeOK ==
    /\ phase \in {"hello", "ready", "bye"}
    /\ asked \in 0..MaxMsgs
    /\ waiting \in 0..MaxMsgs

SessionTypeOK ==
    /\ startup_done \in BOOLEAN
    /\ reader \in Readers
    /\ req \in Nat
    /\ kind \in Kinds
    /\ todo \in Seq(Tags)
    /\ registered \in BOOLEAN
    /\ stale \in BOOLEAN

TypeOK == StreamTypeOK /\ ClientTypeOK /\ SessionTypeOK

\* Session::start has been called and its first read is outstanding.
Init ==
    /\ StreamInit
    /\ phase = "hello" /\ asked = 0 /\ waiting = 0
    /\ startup_done = FALSE
    /\ reader = "hdr"
    /\ req = 0 /\ kind = "Startup"
    /\ todo = <<>>
    /\ registered = TRUE
    /\ stale = FALSE

-----------------------------------------------------------------------------
(***************************************************************************)
(* The client                                                              *)
(***************************************************************************)
\* The client has read all of the answer to request n.
Answered(n) ==
    \E i \in 1..(Len(sent) - unread) :
        sent[i].req = n /\ sent[i].left = 0 /\ sent[i].tag \in {"Z", "N"}

\* What the protocol lets a client say: the start-up packet, after any number
\* of SSL requests, then tagged messages, the last of them Terminate.
MaySend(k) ==
    /\ k \in Allowed
    /\ \/ phase = "hello" /\ k \in Hello \cup {"BadLength"}
       \/ phase = "ready" /\ k \notin Hello
    /\ Pipelining \/ waiting = 0 \/ Answered(waiting)

ClientSend(k) ==
    /\ peer = "open" /\ asked < MaxMsgs
    /\ MaySend(k)
    /\ inbound' = Append(inbound, k)
    /\ asked' = asked + 1
    /\ waiting' = IF k \in Hello \cup {"Query"} THEN asked + 1 ELSE waiting
    /\ phase' = CASE k = "Startup" -> "ready"
                  [] k = "Terminate" -> "bye"
                  [] OTHER -> phase
    /\ UNCHANGED <<peer, wq, ready, sent, unread, sessionVars>>

Client ==
    \/ \E k \in Kinds : ClientSend(k)
    \/ (ClientRecv \/ ClientClose \/ ClientReset)
       /\ UNCHANGED <<clientVars, sessionVars>>

-----------------------------------------------------------------------------
(***************************************************************************)
(* The kernel's side of Session::read and Session::read_startup: both      *)
(* read a fixed-size header, then a body of the length it announces.       *)
(***************************************************************************)
HeaderArrives ==
    /\ reader = "hdr" /\ inbound # <<>>
    /\ reader' = "posted"
    /\ req' = req + 1
    /\ kind' = Head(inbound)
    /\ inbound' = Tail(inbound)
    /\ ready' = Append(ready, ReadHandler("hdr", "done"))
    /\ UNCHANGED <<peer, wq, sent, unread, clientVars,
                   startup_done, todo, registered, stale>>

HeaderFails ==
    /\ reader = "hdr" /\ inbound = <<>> /\ peer # "open"
    /\ reader' = "posted"
    /\ ready' = Append(ready, ReadHandler("hdr", "failed"))
    /\ UNCHANGED <<peer, inbound, wq, sent, unread, clientVars,
                   startup_done, req, kind, todo, registered, stale>>

\* The connection ended between the header and the end of the body.  The body
\* of Terminate is empty, and an empty read does not look at the socket.
BodyMayFail ==
    /\ kind # "Terminate"
    /\ peer = "reset" \/ (peer = "cut" /\ inbound = <<>>)

BodyArrives ==
    /\ reader = "body" /\ ~(peer = "cut" /\ BodyMayFail)
    /\ reader' = "posted"
    /\ ready' = Append(ready, ReadHandler("body", "done"))
    /\ UNCHANGED <<peer, inbound, wq, sent, unread, clientVars,
                   startup_done, req, kind, todo, registered, stale>>

BodyFails ==
    /\ reader = "body" /\ BodyMayFail
    /\ reader' = "posted"
    /\ ready' = Append(ready, ReadHandler("body", "failed"))
    /\ UNCHANGED <<peer, inbound, wq, sent, unread, clientVars,
                   startup_done, req, kind, todo, registered, stale>>

Kernel ==
    \/ (SocketWritable \/ SocketBroken) /\ UNCHANGED <<clientVars, sessionVars>>
    \/ HeaderArrives \/ HeaderFails \/ BodyArrives \/ BodyFails

-----------------------------------------------------------------------------
(***************************************************************************)
(* do_read: what becomes of the session once a message is processed.       *)
(* Each operator fixes the stream's variables, reader, registered, todo.   *)
(* `posted` are the handlers posted before the running one's own effects.  *)
(***************************************************************************)
NoMoreWrites(posted) ==
    /\ ready' = posted
    /\ UNCHANGED <<wq, sent, unread>>

\* process_message resolved: read the next message.
DoRead(posted) ==
    /\ reader' = "hdr"
    /\ todo' = <<>>
    /\ NoMoreWrites(posted)
    /\ UNCHANGED registered

\* Fault: the error message is made part of the main chain as well.
ReportErrorOnChain(posted) ==
    /\ reader' = "hdr" /\ todo' = <<>>
    /\ \E n \in Sizes["E"] :
           async_write([chain |-> "main", req |-> req, tag |-> "E", left |-> n], posted)
    /\ UNCHANGED registered

\* It rejected with a SqlException that is not Fatal: the error chain starts
\* with its ErrorResponse, and the next message is read at once.
ReportError(posted) ==
    /\ reader' = "hdr"
    /\ todo' = <<>>
    /\ \E n \in Sizes["E"] :
           async_write([chain |-> "error", req |-> req, tag |-> "E", left |-> n],
                       posted)
    /\ UNCHANGED registered

\* Fault: the session leaves the map and its socket's operations go on.
FinishHalfway(posted) ==
    /\ reader' = "closed" /\ todo' = <<>>
    /\ registered' = FALSE
    /\ NoMoreWrites(posted)

\* defer is rejected, so Session::start's promise resolves, its `finally`
\* erases the session, and the socket is destroyed with it.
Finish(posted) ==
    /\ reader' = "closed"
    /\ todo' = <<>>
    /\ registered' = FALSE
    /\ CloseSocket(posted)

\* read() is rejected and do_read attached no `fail` to it: the chain is
\* dropped, defer is never settled, and the session stays where it is.
Abandon(posted) ==
    /\ reader' = "lost"
    /\ todo' = <<>>
    /\ NoMoreWrites(posted)
    /\ UNCHANGED registered

\* Fault: a Fatal error is reported, and the session ended with the write
\* under way.
ProcessedTellsFatal(out, posted) ==
    \/ out = "ok" /\ DoRead(posted)
    \/ out = "sql" /\ ReportError(posted)
    \/ out = "exn" /\ Finish(posted)
    \/ /\ out = "fatal"
       /\ reader' = "closed" /\ todo' = <<>>
       /\ registered' = FALSE
       /\ async_write([chain |-> "error", req |-> req, tag |-> "E", left |-> 1], posted)

\* How the chain of do_read goes on when process_message settles as `out`.
Processed(out, posted) ==
    \/ out = "ok" /\ DoRead(posted)
    \/ out = "sql" /\ ReportError(posted)
    \/ out \in {"fatal", "exn"} /\ Finish(posted)

\* Fault: that `fail` takes no parameter, and so whatever the rejection is.
QueryChainTakesAll(out) == "ok"

\* The last `fail` of the query's chain takes any SqlException, logs it, and
\* so resolves the promise; other exceptions pass through it.
QueryChain(out) == IF out = "exn" THEN out ELSE "ok"

-----------------------------------------------------------------------------
(***************************************************************************)
(* process_message                                                         *)
(***************************************************************************)
\* Write the first of `msgs` now and keep the others for its continuation.
WriteAll(msgs, posted) ==
    /\ reader' = "busy"
    /\ todo' = Tail(msgs)
    /\ \E n \in Sizes[Head(msgs)] :
           async_write([chain |-> "main", req |-> req, tag |-> Head(msgs), left |-> n],
                       posted)
    /\ UNCHANGED registered

StartupReply == <<"R">> \o [i \in 1..NumParams |-> "S"] \o <<"Z">>

\* Fault: _startup_done is set by whatever read_startup has read.
HandleStartupAlways(posted) ==
    /\ ~startup_done
    /\ startup_done' = TRUE
    /\ \/ kind = "Startup" /\ WriteAll(StartupReply, posted)
       \/ kind = "SSLRequest" /\ WriteAll(<<"N">>, posted)

\* FrontendType::Startup and SSLRequest, as read_startup decoded them.
HandleStartup(posted) ==
    /\ ~startup_done
    /\ \/ /\ kind = "Startup"
          /\ startup_done' = TRUE
          /\ WriteAll(StartupReply, posted)
       \/ /\ kind = "SSLRequest"
          /\ UNCHANGED startup_done
          /\ WriteAll(<<"N">>, posted)

\* FrontendType::Query, up to the first write.  A SqlException of the parse
\* handler is caught and rejects; any other exception leaves process_message
\* and rejects the promise of read(), which nobody looks at.
HandleQuery(posted) ==
    /\ startup_done /\ kind = "Query"
    /\ UNCHANGED startup_done
    /\ \E out \in ParseOutcomes :
           \/ out = "ok" /\ WriteAll(<<"T">>, posted)
           \/ out \in {"sql", "fatal"} /\ Processed(out, posted)
           \/ out = "exn" /\ Abandon(posted)

\* Fault: Terminate falls through to the requests that resolve.
HandleTerminateResolves(posted) ==
    /\ startup_done /\ kind = "Terminate"
    /\ UNCHANGED startup_done
    /\ DoRead(posted)

\* FrontendType::Terminate rejects with no value, which only the last `fail`
\* of do_read accepts.
HandleTerminate(posted) ==
    /\ startup_done /\ kind = "Terminate"
    /\ UNCHANGED startup_done
    /\ Finish(posted)

\* A tag that is not in sFrontendMessageRegsitry: no message, read on.
HandleOther(posted) ==
    /\ startup_done /\ kind = "Other"
    /\ UNCHANGED startup_done
    /\ DoRead(posted)

\* The continuation of the RowDescription's write: run the statement.
Execute(posted) ==
    \E out \in ExecOutcomes :
        \/ out = "ok" /\ WriteAll(<<"D", "C", "Z">>, posted)
        \/ out # "ok" /\ Processed(QueryChain(out), posted)

-----------------------------------------------------------------------------
(***************************************************************************)
(* The event loop: the oldest posted handler runs to its end.  Once a      *)
(* handler has used a destroyed session, nothing more can be said.         *)
(***************************************************************************)
Runs(op, res) ==
    /\ ready # <<>> /\ ~stale
    /\ Head(ready).op = op /\ Head(ready).res = res
    /\ UNCHANGED <<peer, inbound, clientVars, req, kind>>

\* A length below its own four bytes makes the body's resize throw.
HeaderRead ==
    /\ Runs("hdr", "done")
    /\ UNCHANGED <<startup_done, stale>>
    /\ \/ kind = "BadLength" /\ Abandon(Tail(ready))
       \/ /\ kind # "BadLength"
          /\ reader' = "body"
          /\ NoMoreWrites(Tail(ready))
          /\ UNCHANGED <<todo, registered>>

BodyRead ==
    /\ Runs("body", "done")
    /\ UNCHANGED stale
    /\ \/ HandleStartup(Tail(ready))
       \/ HandleQuery(Tail(ready))
       \/ HandleTerminate(Tail(ready))
       \/ HandleOther(Tail(ready))

ReadFailed ==
    /\ Runs("hdr", "failed") \/ Runs("body", "failed")
    /\ UNCHANGED <<startup_done, stale>>
    /\ Abandon(Tail(ready))

\* The handler's write, and the session it writes through being gone.
Written == Head(ready).write

UsesFreedSession ==
    /\ ~registered
    /\ stale' = TRUE
    /\ NoMoreWrites(Tail(ready))
    /\ UNCHANGED <<startup_done, reader, todo, registered>>

\* Fault: bytes_transferred is not looked at, the first chunk is the message.
WriteMoreNever ==
    /\ Runs("write", "done") /\ Written.left > 0
    /\ registered /\ todo # <<>> /\ WriteAll(todo, Tail(ready))
    /\ UNCHANGED <<startup_done, stale>>

\* Fault: a short write neither settles its promise nor goes on.
WriteMoreStops ==
    /\ Runs("write", "done") /\ Written.left > 0
    /\ NoMoreWrites(Tail(ready))
    /\ UNCHANGED <<startup_done, reader, todo, registered, stale>>

\* The composed operation has more to send.
WriteMore ==
    /\ Runs("write", "done") /\ Written.left > 0
    /\ \/ UsesFreedSession
       \/ /\ registered
          /\ async_write(Written, Tail(ready))
          /\ UNCHANGED <<startup_done, reader, todo, registered, stale>>

\* Fault: the rest of a failed write is sent by the handler itself, which comes
\* back only when the socket has taken it: no step at all on a broken one.
WriteAgainInPlace ==
    /\ Runs("write", "failed")
    /\ \/ UsesFreedSession
       \/ /\ registered
          /\ HasRoom /\ Transfer(Written, Tail(ready))
          /\ UNCHANGED <<wq, startup_done, reader, todo, registered, stale>>

\* A failed write has transferred less than asked for, and io::async_write
\* takes that for a short write: it sends the rest again, whatever the error.
WriteAgain ==
    /\ Runs("write", "failed")
    /\ \/ UsesFreedSession
       \/ /\ registered
          /\ async_write(Written, Tail(ready))
          /\ UNCHANGED <<startup_done, reader, todo, registered, stale>>

\* A message of the answer is out: go on with process_message's chain.
MainWritten ==
    /\ Runs("write", "done") /\ Written.left = 0 /\ Written.chain = "main"
    /\ UNCHANGED <<startup_done, stale>>
    /\ \/ Written.tag = "T" /\ Execute(Tail(ready))
       \/ Written.tag # "T" /\ todo # <<>> /\ WriteAll(todo, Tail(ready))
       \/ Written.tag # "T" /\ todo = <<>> /\ Processed("ok", Tail(ready))

\* The ErrorResponse is out: write its ReadyForQuery.
ErrorWritten ==
    /\ Runs("write", "done") /\ Written.left = 0 /\ Written.chain = "error"
    /\ Written.tag = "E"
    /\ \/ UsesFreedSession
       \/ /\ registered
          /\ \E n \in Sizes["Z"] :
                 async_write([Written EXCEPT !.tag = "Z", !.left = n], Tail(ready))
          /\ UNCHANGED <<startup_done, reader, todo, registered, stale>>

\* Fault: the read loop is entered from the end of the error chain.
ErrorDoneReads ==
    /\ Runs("write", "done") /\ Written.left = 0 /\ Written.chain = "error"
    /\ Written.tag # "E"
    /\ reader' = "hdr"
    /\ NoMoreWrites(Tail(ready))
    /\ UNCHANGED <<startup_done, todo, registered, stale>>

\* The error chain's ReadyForQuery is out: nothing is attached to it.
ErrorDone ==
    /\ Runs("write", "done") /\ Written.left = 0 /\ Written.chain = "error"
    /\ Written.tag # "E"
    /\ NoMoreWrites(Tail(ready))
    /\ UNCHANGED <<startup_done, reader, todo, registered, stale>>

EventLoop ==
    \/ HeaderRead \/ BodyRead \/ ReadFailed
    \/ WriteMore \/ WriteAgain
    \/ MainWritten \/ ErrorWritten \/ ErrorDone

Next == Client \/ Kernel \/ EventLoop

Spec == Init /\ [][Next]_vars

\* The io_context runs, the kernel delivers, and the client reads its answers.
\* Nothing is said of what the client sends or when it leaves.
Fairness ==
    /\ WF_vars(EventLoop)
    /\ WF_vars(Kernel)
    /\ WF_vars(ClientRecv /\ UNCHANGED <<clientVars, sessionVars>>)

FairSpec == Spec /\ Fairness

-----------------------------------------------------------------------------
(***************************************************************************)
(* Properties                                                              *)
(***************************************************************************)
\* A handler of the main chain: of a read, or of a write it waits for.
OnChain(h) == h.op # "write" \/ h.write.chain = "main"

\* Where the main chain is found among queued writes and posted handlers.
MainIn(q) == {i \in DOMAIN q : q[i].chain = "main"}
ChainIn(h) == {j \in DOMAIN h : OnChain(h[j])}

\* The main chain is in one place at a time: one outstanding read, or one
\* write of the current answer, or one posted handler of either; and a chain
\* that has not ended always has its next handler to come.  The code calls
\* do_read from three continuations and starts a second chain beside the main
\* one: no message may make two of them go on.
OneActivity ==
    /\ reader \in {"hdr", "body", "lost", "closed"} =>
           MainIn(wq) = {} /\ ChainIn(ready) = {}
    /\ reader = "posted" =>
           /\ MainIn(wq) = {}
           /\ \E j \in DOMAIN ready : ChainIn(ready) = {j} /\ ready[j].op # "write"
    /\ reader = "busy" =>
           \/ /\ ChainIn(ready) = {}
              /\ \E i \in DOMAIN wq : MainIn(wq) = {i}
           \/ /\ MainIn(wq) = {}
              /\ \E j \in DOMAIN ready : ChainIn(ready) = {j} /\ ready[j].op = "write"

\* The session is in the server's map, and so alive, exactly until its main
\* chain ends: the raw `this` of the chain's handlers is good, and a destroyed
\* socket has no operation queued.
ChainOwnsSession ==
    /\ registered <=> reader # "closed"
    /\ ~registered => wq = <<>> /\ ChainIn(ready) = {}

\* The client and _startup_done agree on how the next message is framed: when
\* its body is read, an untagged packet was taken by read_startup and a tagged
\* message by read.  A start-up packet may follow any number of SSL requests.
FramingAgrees == reader = "body" => (kind \in Hello <=> ~startup_done)

\* No completion handler reaches a session that was destroyed.
NoStaleUse == ~stale

\* The answers reach the kernel in the order of their requests, and no
\* message is cut in two by another one.
RepliesInOrder ==
    \A i \in 1..Len(sent) - 1 :
        /\ sent[i].req <= sent[i + 1].req
        /\ sent[i].left > 0 =>
               sent[i + 1].req = sent[i].req /\ sent[i + 1].tag = sent[i].tag

\* Nothing is under way on the server, which waits for the client.
Idle == reader \in {"hdr", "lost"} /\ inbound = <<>> /\ wq = <<>> /\ ready = <<>>

\* Client and server do not wait for each other: a server with nothing left
\* to do has answered the last request that is owed an answer.
NoMutualWait ==
    Idle /\ waiting > 0 /\ peer = "open" =>
        \E i \in DOMAIN sent :
            sent[i].req = waiting /\ sent[i].left = 0 /\ sent[i].tag \in {"Z", "N"}

\* A request being processed is processed to its end, whatever size the
\* answer has, unless the client goes away.
ProcessingEnds == reader = "busy" ~> (reader # "busy" \/ peer # "open")

\* A session whose client says Terminate, and does not go away, is erased
\* from the server's map, unless its read loop was dropped before.
TerminateReleases ==
    phase = "bye" ~> (~registered \/ reader = "lost" \/ peer # "open")

\* The bytes of a write are kept until it completes and released then:
\* a write does not stay pending for ever once the client is gone.
BytesReleased ==
    (wq # <<>> /\ peer = "reset") ~> (wq = <<>> /\ ready = <<>>)

-----------------------------------------------------------------------------
(***************************************************************************)
(* The session implements SimpleQuery for a client that does not pipeline  *)
(***************************************************************************)
\* Some message of the error chain is not in the kernel's hands yet.
ErrorUnderWay ==
    \/ \E i \in DOMAIN wq : ~wq[i].chain = "main"
    \/ \E j \in DOMAIN ready :
           /\ ~OnChain(ready[j])
           /\ ready[j].write.tag = "E" \/ ready[j].write.left > 0

Mode == IF reader \in {"lost", "closed"} THEN "closed"
        ELSE IF reader = "busy" \/ ErrorUnderWay THEN "answering" ELSE "listening"

Protocol == INSTANCE SimpleQuery WITH
    mode <- Mode,
    asked <- IF Mode = "answering" THEN kind ELSE "none",
    said <- IF Mode = "closed" THEN <<>> ELSE Said(req)

\* Every request of a client that waits for its answers gets one whole
\* answer, in order and message by message, or the connection ends: a query
\* gets its RowDescription, rows, CommandComplete and ReadyForQuery, or an
\* ErrorResponse and ReadyForQuery.  For an ExecHandler that throws no
\* SqlException (ExecOutcomes \subseteq {"ok", "exn"}), which QueryChain takes.
ImplementsProtocol == Protocol!Spec

(***************************************************************************)
(* The session implements SessionLife, all that the Server knows of it     *)
(***************************************************************************)
LifeNow == IF ~registered THEN "done" ELSE IF reader = "lost" THEN "lost" ELSE "reading"

Life == INSTANCE SessionLife WITH life <- LifeNow

\* A session ends once, from its own chain, and one whose read was rejected
\* stays in the server's map for ever: no other chain of it comes back to it.
ImplementsLife == Life!Spec
=============================================================================
