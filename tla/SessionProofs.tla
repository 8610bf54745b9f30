--------------------------- MODULE SessionProofs ----------------------------
(***************************************************************************)
(* Safety of the Session, for every bound, every size of the messages and  *)
(* every client: the types, and that the main chain of a Session is in one *)
(* place and owns the session; the two are proved together, as one         *)
(* inductive invariant.  From it follow the life that a session has for    *)
(* the server, and that client and session agree on how a message is       *)
(* framed.                                                                 *)
(*                                                                         *)
(* `One activity' alone is not inductive.  A handler of a destroyed        *)
(* session drops the chain without moving `reader`; that no handler of the *)
(* main chain is ever such a handler is what ChainOwnsSession adds, and    *)
(* ChainOwnsSession in turn needs that the handler which ends the chain is *)
(* the only one of the chain.                                              *)
(***************************************************************************)
EXTENDS Session, SequenceTheorems, TLAPS

-----------------------------------------------------------------------------
(***************************************************************************)
(* Types: the operations of the stream                                     *)
(***************************************************************************)
LEMMA WriteHandlerType ==
  ASSUME NEW w \in Writes, NEW res \in {"done", "failed"}
  PROVE  WriteHandler(w, res) \in Handlers
  BY DEF WriteHandler, Handlers

LEMMA ReadHandlerType ==
  ASSUME NEW op \in {"hdr", "body"}, NEW res \in {"done", "failed"}
  PROVE  ReadHandler(op, res) \in Handlers
  BY DEF ReadHandler, Handlers, NoWrite, Writes, Tags

LEMMA SaidType ==
  ASSUME StreamTypeOK, NEW r \in Nat
  PROVE  Said(r) \in Seq(Tags)
  <1>1. CASE sent # <<>>
    <2>1. sent[Len(sent)] \in Chunks
      BY <1>1 DEF StreamTypeOK
    <2> QED
      BY <2>1 DEF Said, Chunks
  <1>2. CASE sent = <<>>
    BY <1>2 DEF Said
  <1> QED
    BY <1>1, <1>2

LEMMA SaidWithType ==
  ASSUME StreamTypeOK, NEW w \in Writes
  PROVE  SaidWith(w) \in Seq(Tags)
  <1>1. Said(w.req) \in Seq(Tags) /\ w.tag \in Tags
    BY SaidType DEF Writes
  <1> QED
    BY <1>1 DEF SaidWith

LEMMA TransferTypes ==
  ASSUME StreamTypeOK, NEW w \in Writes, w.left > 0, NEW posted \in Seq(Handlers),
         HasRoom, Transfer(w, posted)
  PROVE  sent' \in Seq(Chunks) /\ unread' \in 0..SndBuf /\ ready' \in Seq(Handlers)
  <1>1. unread' \in 0..SndBuf
    BY SndBufAssumption DEF StreamTypeOK, Transfer, HasRoom
  <1>2. [req |-> w.req, tag |-> w.tag, left |-> w.left - 1, said |-> SaidWith(w)]
            \in Chunks
    BY SaidWithType DEF Writes, Chunks
  <1>3. [w EXCEPT !.left = @ - 1] \in Writes
    BY DEF Writes
  <1>4. ready' \in Seq(Handlers)
    BY <1>3, WriteHandlerType DEF Transfer
  <1> QED
    BY <1>1, <1>2, <1>4 DEF StreamTypeOK, Transfer

LEMMA AsyncWriteTypes ==
  ASSUME StreamTypeOK, UNCHANGED <<peer, inbound>>,
         NEW w \in Writes, NEW posted \in Seq(Handlers), async_write(w, posted)
  PROVE  StreamTypeOK'
  <1>1. CASE w.left = 0 /\ ready' = Append(posted, WriteHandler(w, "done"))
                /\ UNCHANGED <<wq, sent, unread>>
    BY <1>1, WriteHandlerType DEF StreamTypeOK
  <1>2. CASE w.left > 0 /\ HasRoom /\ Transfer(w, posted) /\ UNCHANGED wq
    BY <1>2, TransferTypes DEF StreamTypeOK
  <1>3. CASE w.left > 0 /\ wq' = Append(wq, w) /\ ready' = posted
                /\ UNCHANGED <<sent, unread>>
    BY <1>3 DEF StreamTypeOK, Pending
  <1> QED
    BY <1>1, <1>2, <1>3 DEF async_write

LEMMA NoMoreWritesTypes ==
  ASSUME StreamTypeOK, UNCHANGED <<peer, inbound>>,
         NEW posted \in Seq(Handlers), NoMoreWrites(posted)
  PROVE  StreamTypeOK'
  BY DEF NoMoreWrites, StreamTypeOK

LEMMA CloseSocketTypes ==
  ASSUME StreamTypeOK, UNCHANGED <<peer, inbound>>,
         NEW posted \in Seq(Handlers), CloseSocket(posted)
  PROVE  StreamTypeOK'
  <1> DEFINE aborted == [i \in 1..Len(wq) |-> WriteHandler(wq[i], "failed")]
  <1>1. wq \in Seq(Writes) /\ Len(wq) \in Nat
    BY DEF StreamTypeOK, Pending
  <1>2. \A i \in 1..Len(wq) : WriteHandler(wq[i], "failed") \in Handlers
    BY <1>1, WriteHandlerType
  <1>3. aborted \in Seq(Handlers)
    BY <1>1, <1>2
  <1>4. ready' \in Seq(Handlers)
    BY <1>3 DEF CloseSocket
  <1> QED
    BY <1>4 DEF CloseSocket, StreamTypeOK

-----------------------------------------------------------------------------
(***************************************************************************)
(* Types: the continuations of the session's chains                        *)
(***************************************************************************)
\* What a continuation may change, and its types.
ChainTypeOK ==
    /\ StreamTypeOK
    /\ reader \in Readers
    /\ todo \in Seq(Tags)
    /\ registered \in BOOLEAN

LEMMA RunningHandler ==
  ASSUME StreamTypeOK, ready # <<>>
  PROVE  /\ Head(ready) \in Handlers
         /\ Head(ready).write \in Writes
         /\ Tail(ready) \in Seq(Handlers)
  <1>1. ready \in Seq(Handlers)
    BY DEF StreamTypeOK
  <1>2. Head(ready) \in Handlers /\ Tail(ready) \in Seq(Handlers)
    BY <1>1
  <1> QED
    BY <1>2 DEF Handlers

LEMMA WriteAllTypes ==
  ASSUME TypeOK, UNCHANGED <<peer, inbound>>,
         NEW msgs \in Seq(Tags), msgs # <<>>,
         NEW posted \in Seq(Handlers), WriteAll(msgs, posted)
  PROVE  ChainTypeOK'
  <1>1. PICK n \in Sizes[Head(msgs)] :
            async_write([chain |-> "main", req |-> req, tag |-> Head(msgs), left |-> n],
                        posted)
    BY DEF WriteAll
  <1>2. Head(msgs) \in Tags /\ Tail(msgs) \in Seq(Tags)
    OBVIOUS
  <1>3. [chain |-> "main", req |-> req, tag |-> Head(msgs), left |-> n] \in Writes
    BY <1>2, SessionAssumption DEF Writes, TypeOK, SessionTypeOK
  <1>4. StreamTypeOK'
    BY <1>1, <1>3, AsyncWriteTypes DEF TypeOK
  <1> QED
    BY <1>2, <1>4 DEF WriteAll, ChainTypeOK, Readers, TypeOK, SessionTypeOK

LEMMA DoReadTypes ==
  ASSUME TypeOK, UNCHANGED <<peer, inbound>>, NEW posted \in Seq(Handlers), DoRead(posted)
  PROVE  ChainTypeOK'
  <1>1. StreamTypeOK'
    BY NoMoreWritesTypes DEF DoRead, TypeOK
  <1> QED
    BY <1>1 DEF DoRead, ChainTypeOK, Readers, TypeOK, SessionTypeOK

LEMMA AbandonTypes ==
  ASSUME TypeOK, UNCHANGED <<peer, inbound>>, NEW posted \in Seq(Handlers), Abandon(posted)
  PROVE  ChainTypeOK'
  <1>1. StreamTypeOK'
    BY NoMoreWritesTypes DEF Abandon, TypeOK
  <1> QED
    BY <1>1 DEF Abandon, ChainTypeOK, Readers, TypeOK, SessionTypeOK

LEMMA FinishTypes ==
  ASSUME TypeOK, UNCHANGED <<peer, inbound>>, NEW posted \in Seq(Handlers), Finish(posted)
  PROVE  ChainTypeOK'
  <1>1. StreamTypeOK'
    BY CloseSocketTypes DEF Finish, TypeOK
  <1>2. todo' \in Seq(Tags) /\ reader' \in Readers
    BY DEF Finish, Readers
  <1>3. registered' \in BOOLEAN
    BY Zenon DEF Finish
  <1> QED
    BY <1>1, <1>2, <1>3, Zenon DEF ChainTypeOK

LEMMA ReportErrorTypes ==
  ASSUME TypeOK, UNCHANGED <<peer, inbound>>,
         NEW posted \in Seq(Handlers), ReportError(posted)
  PROVE  ChainTypeOK'
  <1>1. PICK n \in Sizes["E"] :
            async_write([chain |-> "error", req |-> req, tag |-> "E", left |-> n], posted)
    BY DEF ReportError
  <1>2. [chain |-> "error", req |-> req, tag |-> "E", left |-> n] \in Writes
    BY SessionAssumption DEF Writes, Tags, TypeOK, SessionTypeOK
  <1>3. StreamTypeOK'
    BY <1>1, <1>2, AsyncWriteTypes DEF TypeOK
  <1> QED
    BY <1>3 DEF ReportError, ChainTypeOK, Readers, TypeOK, SessionTypeOK

LEMMA ProcessedTypes ==
  ASSUME TypeOK, UNCHANGED <<peer, inbound>>, NEW out,
         NEW posted \in Seq(Handlers), Processed(out, posted)
  PROVE  ChainTypeOK'
  BY DoReadTypes, ReportErrorTypes, FinishTypes DEF Processed

LEMMA StartupReplyTypes == StartupReply \in Seq(Tags) /\ StartupReply # <<>>
  <1>1. NumParams \in Nat
    BY SessionAssumption
  <1> DEFINE params == [i \in 1..NumParams |-> "S"]
  <1>2. params \in Seq(Tags) /\ Len(params) = NumParams
    BY <1>1 DEF Tags
  <1>3. <<"R">> \in Seq(Tags) /\ <<"Z">> \in Seq(Tags)
    BY DEF Tags
  <1> QED
    BY <1>1, <1>2, <1>3 DEF StartupReply

-----------------------------------------------------------------------------
(***************************************************************************)
(* Types: the steps                                                        *)
(***************************************************************************)
LEMMA InitTypes == Init => TypeOK
  <1> SUFFICES ASSUME Init
               PROVE  TypeOK
    OBVIOUS
  <1>1. StreamTypeOK
    BY SndBufAssumption DEF Init, StreamInit, StreamTypeOK
  <1>2. ClientTypeOK /\ req \in Nat
    BY SessionAssumption DEF Init, ClientTypeOK
  <1>3. reader \in Readers /\ kind \in Kinds /\ todo \in Seq(Tags)
    BY DEF Init, Readers, Kinds, Hello
  <1>4. startup_done \in BOOLEAN /\ registered \in BOOLEAN /\ stale \in BOOLEAN
    BY Zenon DEF Init
  <1> QED
    BY <1>1, <1>2, <1>3, <1>4 DEF TypeOK, SessionTypeOK

LEMMA ClientTypes ==
  ASSUME TypeOK, Client
  PROVE  TypeOK'
  <1>1. ASSUME NEW k \in Kinds, ClientSend(k)
        PROVE  TypeOK'
    <2>1. StreamTypeOK'
      BY <1>1 DEF ClientSend, TypeOK, StreamTypeOK
    <2>2. ClientTypeOK'
      BY <1>1, SessionAssumption DEF ClientSend, TypeOK, ClientTypeOK
    <2> QED
      BY <1>1, <2>1, <2>2 DEF ClientSend, TypeOK, SessionTypeOK, sessionVars
  <1>2. ASSUME ClientRecv \/ ClientClose \/ ClientReset,
               UNCHANGED <<clientVars, sessionVars>>
        PROVE  TypeOK'
    <2> SUFFICES StreamTypeOK'
      BY <1>2 DEF TypeOK, ClientTypeOK, SessionTypeOK, clientVars, sessionVars
    <2>1. CASE ClientRecv
      <3>1. unread' \in 0..SndBuf
        BY <2>1, SndBufAssumption DEF ClientRecv, TypeOK, StreamTypeOK
      <3> QED
        BY <2>1, <3>1 DEF ClientRecv, TypeOK, StreamTypeOK
    <2>2. CASE ClientClose
      BY <2>2 DEF ClientClose, TypeOK, StreamTypeOK
    <2>3. CASE ClientReset
      <3>1. inbound' \in Seq(Kinds)
        BY <2>3 DEF ClientReset, TypeOK, StreamTypeOK
      <3> QED
        BY <2>3, <3>1 DEF ClientReset, TypeOK, StreamTypeOK
    <2> QED
      BY <1>2, <2>1, <2>2, <2>3
  <1> QED
    BY <1>1, <1>2 DEF Client

LEMMA KernelTypes ==
  ASSUME TypeOK, Kernel
  PROVE  TypeOK'
  <1>1. ASSUME SocketWritable \/ SocketBroken, UNCHANGED <<clientVars, sessionVars>>
        PROVE  TypeOK'
    <2> SUFFICES StreamTypeOK'
      BY <1>1 DEF TypeOK, ClientTypeOK, SessionTypeOK, clientVars, sessionVars
    <2>1. wq \in Seq(Pending) /\ ready \in Seq(Handlers) /\ wq # <<>>
      BY <1>1 DEF SocketWritable, SocketBroken, TypeOK, StreamTypeOK
    <2>2. Head(wq) \in Pending /\ Tail(wq) \in Seq(Pending)
      BY <2>1
    <2>3. Head(wq) \in Writes /\ Head(wq).left > 0
      BY <2>2 DEF Pending
    <2>4. CASE SocketWritable
      BY <2>1, <2>2, <2>3, <2>4, TransferTypes DEF SocketWritable, TypeOK, StreamTypeOK
    <2>5. CASE SocketBroken
      <3>1. WriteHandler(Head(wq), "failed") \in Handlers
        BY <2>3, WriteHandlerType
      <3> QED
        BY <2>1, <2>2, <2>5, <3>1 DEF SocketBroken, TypeOK, StreamTypeOK
    <2> QED
      BY <1>1, <2>4, <2>5
  <1>2. CASE HeaderArrives
    <2>1. Head(inbound) \in Kinds /\ Tail(inbound) \in Seq(Kinds)
      BY <1>2 DEF HeaderArrives, TypeOK, StreamTypeOK
    <2>2. StreamTypeOK'
      BY <1>2, <2>1, ReadHandlerType DEF HeaderArrives, TypeOK, StreamTypeOK
    <2> QED
      BY <1>2, <2>1, <2>2
      DEF HeaderArrives, TypeOK, ClientTypeOK, SessionTypeOK, clientVars, Readers
  <1>3. CASE HeaderFails
    <2>1. StreamTypeOK'
      BY <1>3, ReadHandlerType DEF HeaderFails, TypeOK, StreamTypeOK
    <2> QED
      BY <1>3, <2>1
      DEF HeaderFails, TypeOK, ClientTypeOK, SessionTypeOK, clientVars, Readers
  <1>4. CASE BodyArrives
    <2>1. StreamTypeOK'
      BY <1>4, ReadHandlerType DEF BodyArrives, TypeOK, StreamTypeOK
    <2> QED
      BY <1>4, <2>1
      DEF BodyArrives, TypeOK, ClientTypeOK, SessionTypeOK, clientVars, Readers
  <1>5. CASE BodyFails
    <2>1. StreamTypeOK'
      BY <1>5, ReadHandlerType DEF BodyFails, TypeOK, StreamTypeOK
    <2> QED
      BY <1>5, <2>1
      DEF BodyFails, TypeOK, ClientTypeOK, SessionTypeOK, clientVars, Readers
  <1> QED
    BY <1>1, <1>2, <1>3, <1>4, <1>5 DEF Kernel

\* A handler that leaves the chain's variables well typed.
LEMMA HandlerTypes ==
  ASSUME TypeOK, NEW op, NEW res, Runs(op, res), ChainTypeOK',
         startup_done' \in BOOLEAN, stale' \in BOOLEAN
  PROVE  TypeOK'
  BY DEF Runs, ChainTypeOK, TypeOK, ClientTypeOK, SessionTypeOK, clientVars

\* What every handler of the event loop starts from.
LEMMA RunsFacts ==
  ASSUME TypeOK, NEW op, NEW res, Runs(op, res)
  PROVE  /\ UNCHANGED <<peer, inbound>>
         /\ Written \in Writes
         /\ Tail(ready) \in Seq(Handlers)
  BY RunningHandler DEF Runs, TypeOK, Written

LEMMA UsesFreedSessionTypes ==
  ASSUME TypeOK, UNCHANGED <<peer, inbound>>, Tail(ready) \in Seq(Handlers),
         UsesFreedSession
  PROVE  ChainTypeOK' /\ startup_done' \in BOOLEAN /\ stale' \in BOOLEAN
  <1>1. StreamTypeOK'
    BY NoMoreWritesTypes DEF UsesFreedSession, TypeOK
  <1>2. stale' \in BOOLEAN
    BY Zenon DEF UsesFreedSession
  <1> QED
    BY <1>1, <1>2 DEF UsesFreedSession, ChainTypeOK, TypeOK, SessionTypeOK

\* Going on with a write, its chain or its error chain.
LEMMA WriteStepTypes ==
  ASSUME TypeOK, UNCHANGED <<peer, inbound>>, Tail(ready) \in Seq(Handlers),
         NEW w \in Writes, async_write(w, Tail(ready)),
         UNCHANGED <<startup_done, reader, todo, registered, stale>>
  PROVE  ChainTypeOK' /\ startup_done' \in BOOLEAN /\ stale' \in BOOLEAN
  <1>1. StreamTypeOK'
    BY AsyncWriteTypes DEF TypeOK
  <1> QED
    BY <1>1 DEF ChainTypeOK, TypeOK, SessionTypeOK

LEMMA BodyReadTypes ==
  ASSUME TypeOK, BodyRead
  PROVE  TypeOK'
  <1>1. Runs("body", "done") /\ UNCHANGED stale
    BY DEF BodyRead
  <1>2. UNCHANGED <<peer, inbound>> /\ Tail(ready) \in Seq(Handlers)
    BY <1>1, RunsFacts
  <1>3. <<"N">> \in Seq(Tags) /\ <<"T">> \in Seq(Tags)
    BY DEF Tags
  <1>4. CASE HandleStartup(Tail(ready))
    <2>1. CASE startup_done' = TRUE /\ WriteAll(StartupReply, Tail(ready))
      <3>1. startup_done' \in BOOLEAN
        BY <2>1, Zenon
      <3>2. ChainTypeOK'
        BY <1>2, <2>1, StartupReplyTypes, WriteAllTypes
      <3> QED
        BY <1>1, <3>1, <3>2, HandlerTypes DEF TypeOK, SessionTypeOK
    <2>2. CASE UNCHANGED startup_done /\ WriteAll(<<"N">>, Tail(ready))
      <3>1. ChainTypeOK'
        BY <1>2, <1>3, <2>2, WriteAllTypes
      <3> QED
        BY <1>1, <2>2, <3>1, HandlerTypes DEF TypeOK, SessionTypeOK
    <2> QED
      BY <1>4, <2>1, <2>2 DEF HandleStartup
  <1>5. CASE HandleQuery(Tail(ready))
    <2>1. PICK out \in ParseOutcomes :
              \/ WriteAll(<<"T">>, Tail(ready))
              \/ Processed(out, Tail(ready))
              \/ Abandon(Tail(ready))
      BY <1>5 DEF HandleQuery
    <2>2. ChainTypeOK'
      BY <1>2, <1>3, <2>1, WriteAllTypes, ProcessedTypes, AbandonTypes
    <2> QED
      BY <1>1, <1>5, <2>2, HandlerTypes DEF HandleQuery, TypeOK, SessionTypeOK
  <1>6. CASE HandleTerminate(Tail(ready))
    <2>1. ChainTypeOK'
      BY <1>2, <1>6, FinishTypes DEF HandleTerminate
    <2> QED
      BY <1>1, <1>6, <2>1, HandlerTypes DEF HandleTerminate, TypeOK, SessionTypeOK
  <1>7. CASE HandleOther(Tail(ready))
    <2>1. ChainTypeOK'
      BY <1>2, <1>7, DoReadTypes DEF HandleOther
    <2> QED
      BY <1>1, <1>7, <2>1, HandlerTypes DEF HandleOther, TypeOK, SessionTypeOK
  <1> QED
    BY <1>4, <1>5, <1>6, <1>7 DEF BodyRead

LEMMA MainWrittenTypes ==
  ASSUME TypeOK, MainWritten
  PROVE  TypeOK'
  <1>1. Runs("write", "done") /\ UNCHANGED <<startup_done, stale>>
    BY DEF MainWritten
  <1>2. UNCHANGED <<peer, inbound>> /\ Tail(ready) \in Seq(Handlers)
    BY <1>1, RunsFacts
  <1>3. ASSUME Execute(Tail(ready))
        PROVE  ChainTypeOK'
    <2>1. <<"D", "C", "Z">> \in Seq(Tags)
      BY DEF Tags
    <2>2. PICK out \in ExecOutcomes :
              \/ WriteAll(<<"D", "C", "Z">>, Tail(ready))
              \/ Processed(QueryChain(out), Tail(ready))
      BY <1>3 DEF Execute
    <2> QED
      BY <1>2, <2>1, <2>2, WriteAllTypes, ProcessedTypes
  <1>4. ASSUME todo # <<>>, WriteAll(todo, Tail(ready))
        PROVE  ChainTypeOK'
    BY <1>2, <1>4, WriteAllTypes DEF TypeOK, SessionTypeOK
  <1>5. ChainTypeOK'
    BY <1>2, <1>3, <1>4, ProcessedTypes DEF MainWritten
  <1> QED
    BY <1>1, <1>5, HandlerTypes DEF TypeOK, SessionTypeOK

LEMMA EventLoopTypes ==
  ASSUME TypeOK, EventLoop
  PROVE  TypeOK'
  <1>1. CASE HeaderRead
    <2>1. Runs("hdr", "done") /\ UNCHANGED <<startup_done, stale>>
      BY <1>1 DEF HeaderRead
    <2>2. UNCHANGED <<peer, inbound>> /\ Tail(ready) \in Seq(Handlers)
      BY <2>1, RunsFacts
    <2>3. CASE Abandon(Tail(ready))
      BY <2>2, <2>3, <2>1, AbandonTypes, HandlerTypes DEF TypeOK, SessionTypeOK
    <2>4. CASE reader' = "body" /\ NoMoreWrites(Tail(ready)) /\ UNCHANGED <<todo, registered>>
      <3>1. StreamTypeOK'
        BY <2>2, <2>4, NoMoreWritesTypes DEF TypeOK
      <3>2. ChainTypeOK'
        BY <2>4, <3>1 DEF ChainTypeOK, Readers, TypeOK, SessionTypeOK
      <3> QED
        BY <2>1, <3>2, HandlerTypes DEF TypeOK, SessionTypeOK
    <2> QED
      BY <1>1, <2>3, <2>4 DEF HeaderRead
  <1>2. CASE BodyRead
    BY <1>2, BodyReadTypes
  <1>3. CASE ReadFailed
    <2>1. PICK op \in {"hdr", "body"} : Runs(op, "failed")
      BY <1>3 DEF ReadFailed
    <2>2. UNCHANGED <<peer, inbound>> /\ Tail(ready) \in Seq(Handlers)
      BY <2>1, RunsFacts
    <2>3. ChainTypeOK'
      BY <1>3, <2>2, AbandonTypes DEF ReadFailed
    <2> QED
      BY <1>3, <2>1, <2>3, HandlerTypes DEF ReadFailed, TypeOK, SessionTypeOK
  <1>4. CASE WriteMore
    <2>1. Runs("write", "done")
      BY <1>4 DEF WriteMore
    <2>2. UNCHANGED <<peer, inbound>> /\ Written \in Writes /\ Tail(ready) \in Seq(Handlers)
      BY <2>1, RunsFacts
    <2>3. ChainTypeOK' /\ startup_done' \in BOOLEAN /\ stale' \in BOOLEAN
      BY <1>4, <2>2, UsesFreedSessionTypes, WriteStepTypes DEF WriteMore
    <2> QED
      BY <2>1, <2>3, HandlerTypes
  <1>5. CASE WriteAgain
    <2>1. Runs("write", "failed")
      BY <1>5 DEF WriteAgain
    <2>2. UNCHANGED <<peer, inbound>> /\ Written \in Writes /\ Tail(ready) \in Seq(Handlers)
      BY <2>1, RunsFacts
    <2>3. ChainTypeOK' /\ startup_done' \in BOOLEAN /\ stale' \in BOOLEAN
      BY <1>5, <2>2, UsesFreedSessionTypes, WriteStepTypes DEF WriteAgain
    <2> QED
      BY <2>1, <2>3, HandlerTypes
  <1>6. CASE MainWritten
    BY <1>6, MainWrittenTypes
  <1>7. CASE ErrorWritten
    <2>1. Runs("write", "done")
      BY <1>7 DEF ErrorWritten
    <2>2. UNCHANGED <<peer, inbound>> /\ Written \in Writes /\ Tail(ready) \in Seq(Handlers)
      BY <2>1, RunsFacts
    <2>3. \A n \in Sizes["Z"] : [Written EXCEPT !.tag = "Z", !.left = n] \in Writes
      BY <2>2, SessionAssumption DEF Writes, Tags
    <2>4. ChainTypeOK' /\ startup_done' \in BOOLEAN /\ stale' \in BOOLEAN
      BY <1>7, <2>2, <2>3, UsesFreedSessionTypes, WriteStepTypes DEF ErrorWritten
    <2> QED
      BY <2>1, <2>4, HandlerTypes
  <1>8. CASE ErrorDone
    <2>1. Runs("write", "done") /\ NoMoreWrites(Tail(ready))
          /\ UNCHANGED <<startup_done, reader, todo, registered, stale>>
      BY <1>8 DEF ErrorDone
    <2>2. UNCHANGED <<peer, inbound>> /\ Tail(ready) \in Seq(Handlers)
      BY <2>1, RunsFacts
    <2>3. StreamTypeOK'
      BY <2>1, <2>2, NoMoreWritesTypes DEF TypeOK
    <2>4. ChainTypeOK'
      BY <2>1, <2>3 DEF ChainTypeOK, TypeOK, SessionTypeOK
    <2> QED
      BY <2>1, <2>4, HandlerTypes DEF TypeOK, SessionTypeOK
  <1> QED
    BY <1>1, <1>2, <1>3, <1>4, <1>5, <1>6, <1>7, <1>8 DEF EventLoop

\* Every variable keeps its type: the counters stay within the bounds, what is
\* queued is a message with something left to send, and the client's kernel
\* never holds more than SndBuf chunks.
THEOREM TypesPreserved == TypeOK /\ [Next]_vars => TypeOK'
  <1> SUFFICES ASSUME TypeOK, [Next]_vars
               PROVE  TypeOK'
    OBVIOUS
  <1>1. CASE UNCHANGED vars
    BY <1>1 DEF vars, streamVars, clientVars, sessionVars,
                TypeOK, StreamTypeOK, ClientTypeOK, SessionTypeOK
  <1> QED
    BY <1>1, ClientTypes, KernelTypes, EventLoopTypes DEF Next

THEOREM TypeCorrect == Spec => []TypeOK
  BY InitTypes, TypesPreserved, PTL DEF Spec

-----------------------------------------------------------------------------
(***************************************************************************)
(* Where the chain is when a queue or the posted handlers change           *)
(***************************************************************************)
LEMMA ChainInAppend ==
  ASSUME NEW h \in Seq(Handlers), NEW x \in Handlers
  PROVE  /\ ChainIn(Append(h, x)) =
                IF OnChain(x) THEN ChainIn(h) \cup {Len(h) + 1} ELSE ChainIn(h)
         /\ \A j \in DOMAIN h : Append(h, x)[j] = h[j]
         /\ Append(h, x)[Len(h) + 1] = x
         /\ DOMAIN h \subseteq DOMAIN Append(h, x)
         /\ Len(h) + 1 \in DOMAIN Append(h, x)
  BY DEF ChainIn

LEMMA MainInAppend ==
  ASSUME NEW q \in Seq(Writes), NEW w \in Writes
  PROVE  /\ MainIn(Append(q, w)) =
                IF w.chain = "main" THEN MainIn(q) \cup {Len(q) + 1} ELSE MainIn(q)
         /\ DOMAIN q \subseteq DOMAIN Append(q, w)
         /\ Len(q) + 1 \in DOMAIN Append(q, w)
  BY DEF MainIn

LEMMA ChainInTail ==
  ASSUME NEW h \in Seq(Handlers), h # <<>>
  PROVE  /\ \A j \in DOMAIN Tail(h) : Tail(h)[j] = h[j + 1] /\ j + 1 \in DOMAIN h
         /\ \A j \in DOMAIN h : j # 1 => j - 1 \in DOMAIN Tail(h)
         /\ \A j : j \in ChainIn(Tail(h)) <=> j \in DOMAIN Tail(h) /\ j + 1 \in ChainIn(h)
         /\ 1 \in ChainIn(h) <=> OnChain(Head(h))
  BY DEF ChainIn

LEMMA MainInTail ==
  ASSUME NEW q \in Seq(Writes), q # <<>>
  PROVE  /\ \A i \in DOMAIN Tail(q) : Tail(q)[i] = q[i + 1] /\ i + 1 \in DOMAIN q
         /\ \A i \in DOMAIN q : i # 1 => i - 1 \in DOMAIN Tail(q)
         /\ \A i : i \in MainIn(Tail(q)) <=> i \in DOMAIN Tail(q) /\ i + 1 \in MainIn(q)
         /\ 1 \in MainIn(q) <=> Head(q).chain = "main"
  BY DEF MainIn

-----------------------------------------------------------------------------
(***************************************************************************)
(* The three shapes of OneActivity, of a queue q and posted handlers h     *)
(***************************************************************************)
Nowhere(q, h) == MainIn(q) = {} /\ ChainIn(h) = {}

AtRead(q, h) ==
    /\ MainIn(q) = {}
    /\ \E j \in DOMAIN h : ChainIn(h) = {j} /\ h[j].op # "write"

AtWrite(q, h) ==
    \/ ChainIn(h) = {} /\ \E i \in DOMAIN q : MainIn(q) = {i}
    \/ MainIn(q) = {} /\ \E j \in DOMAIN h : ChainIn(h) = {j} /\ h[j].op = "write"

LEMMA OneActivityShapes ==
    OneActivity <=>
        /\ reader \in {"hdr", "body", "lost", "closed"} => Nowhere(wq, ready)
        /\ reader = "posted" => AtRead(wq, ready)
        /\ reader = "busy" => AtWrite(wq, ready)
  BY DEF OneActivity, Nowhere, AtRead, AtWrite

\* Running the chain's handler takes the chain out of the posted handlers.
LEMMA TakeChain ==
  ASSUME NEW q, NEW h \in Seq(Handlers), h # <<>>, OnChain(Head(h)),
         AtRead(q, h) \/ AtWrite(q, h)
  PROVE  Nowhere(q, Tail(h))
  <1>1. 1 \in ChainIn(h)
    BY ChainInTail
  <1>2. MainIn(q) = {} /\ ChainIn(h) = {1}
    BY <1>1 DEF AtRead, AtWrite
  <1>3. \A j \in DOMAIN Tail(h) : j + 1 # 1
    OBVIOUS
  <1>4. ChainIn(Tail(h)) = {}
    BY <1>2, <1>3, ChainInTail
  <1> QED
    BY <1>2, <1>4 DEF Nowhere

\* Running another handler leaves the chain where it is.
LEMMA TakeOther ==
  ASSUME NEW q, NEW h \in Seq(Handlers), h # <<>>, ~OnChain(Head(h))
  PROVE  /\ Nowhere(q, h) => Nowhere(q, Tail(h))
         /\ AtRead(q, h) => AtRead(q, Tail(h))
         /\ AtWrite(q, h) => AtWrite(q, Tail(h))
  <1>1. 1 \notin ChainIn(h)
    BY ChainInTail
  <1>2. ChainIn(h) = {} => ChainIn(Tail(h)) = {}
    BY ChainInTail
  <1>3. ASSUME NEW j \in DOMAIN h, ChainIn(h) = {j}
        PROVE  /\ j - 1 \in DOMAIN Tail(h)
               /\ ChainIn(Tail(h)) = {j - 1}
               /\ Tail(h)[j - 1] = h[j]
    <2>1. j # 1 /\ j \in Nat
      BY <1>1, <1>3
    <2>2. j - 1 \in DOMAIN Tail(h)
      BY <2>1, ChainInTail
    <2>3. \A k \in DOMAIN Tail(h) : k \in Nat /\ (k + 1 = j <=> k = j - 1)
      BY <2>1
    <2>4. \A k : k \in ChainIn(Tail(h)) <=> k \in DOMAIN Tail(h) /\ k + 1 = j
      BY <1>3, ChainInTail
    <2>5. ChainIn(Tail(h)) = {j - 1}
      BY <2>2, <2>3, <2>4
    <2>6. Tail(h)[j - 1] = h[(j - 1) + 1]
      BY <2>2, ChainInTail
    <2> QED
      BY <2>1, <2>2, <2>5, <2>6
  <1> QED
    BY <1>2, <1>3 DEF Nowhere, AtRead, AtWrite

\* The promise chain of a write that was started, or of a handler's write.
LEMMA OnChainWrite ==
  ASSUME NEW w \in Writes, NEW res \in {"done", "failed"}
  PROVE  /\ OnChain(WriteHandler(w, res)) <=> w.chain = "main"
         /\ WriteHandler(w, res) \in Handlers
         /\ WriteHandler(w, res).op = "write"
  BY WriteHandlerType DEF OnChain, WriteHandler

\* Posting the handler of a write puts its chain among the posted handlers.
LEMMA PostWrite ==
  ASSUME NEW q, NEW h \in Seq(Handlers), NEW w \in Writes, NEW res \in {"done", "failed"}
  PROVE  /\ w.chain = "main" /\ Nowhere(q, h) => AtWrite(q, Append(h, WriteHandler(w, res)))
         /\ w.chain # "main" =>
                /\ Nowhere(q, h) => Nowhere(q, Append(h, WriteHandler(w, res)))
                /\ AtRead(q, h) => AtRead(q, Append(h, WriteHandler(w, res)))
                /\ AtWrite(q, h) => AtWrite(q, Append(h, WriteHandler(w, res)))
  <1> DEFINE x == WriteHandler(w, res)
  <1>1. x \in Handlers /\ x.op = "write" /\ (OnChain(x) <=> w.chain = "main")
    BY OnChainWrite
  <1> HIDE DEF x
  <1>2. CASE w.chain = "main"
    <2>1. Nowhere(q, h) => ChainIn(Append(h, x)) = {Len(h) + 1} /\ MainIn(q) = {}
      BY <1>1, <1>2, ChainInAppend DEF Nowhere
    <2>2. Nowhere(q, h) => AtWrite(q, Append(h, x))
      BY <1>1, <2>1, ChainInAppend DEF AtWrite
    <2> QED
      BY <1>2, <2>2 DEF x
  <1>3. CASE w.chain # "main"
    <2>1. ChainIn(Append(h, x)) = ChainIn(h)
      BY <1>1, <1>3, ChainInAppend
    <2>2. \A j \in DOMAIN h : j \in DOMAIN Append(h, x) /\ Append(h, x)[j] = h[j]
      BY <1>1, ChainInAppend
    <2>3. /\ Nowhere(q, h) => Nowhere(q, Append(h, x))
          /\ AtRead(q, h) => AtRead(q, Append(h, x))
          /\ AtWrite(q, h) => AtWrite(q, Append(h, x))
      BY <2>1, <2>2 DEF Nowhere, AtRead, AtWrite
    <2> QED
      BY <1>3, <2>3 DEF x
  <1> QED
    BY <1>2, <1>3

LEMMA QueueWrite ==
  ASSUME NEW q \in Seq(Writes), NEW h, NEW w \in Writes
  PROVE  /\ w.chain = "main" /\ Nowhere(q, h) => AtWrite(Append(q, w), h)
         /\ w.chain # "main" =>
                /\ Nowhere(q, h) => Nowhere(Append(q, w), h)
                /\ AtRead(q, h) => AtRead(Append(q, w), h)
                /\ AtWrite(q, h) => AtWrite(Append(q, w), h)
  BY MainInAppend DEF Nowhere, AtRead, AtWrite

-----------------------------------------------------------------------------
(***************************************************************************)
(* Starting, continuing and cancelling writes                              *)
(***************************************************************************)
LEMMA RestType ==
  ASSUME NEW w \in Writes, w.left > 0
  PROVE  /\ [w EXCEPT !.left = @ - 1] \in Writes
         /\ [w EXCEPT !.left = @ - 1].chain = w.chain
  <1>1. w.left \in Nat /\ w.left - 1 \in Nat
    BY DEF Writes
  <1> QED
    BY <1>1 DEF Writes

LEMMA StartWrite ==
  ASSUME wq \in Seq(Writes), NEW w \in Writes,
         NEW posted \in Seq(Handlers), async_write(w, posted)
  PROVE  /\ w.chain = "main" /\ Nowhere(wq, posted) => AtWrite(wq', ready')
         /\ w.chain # "main" =>
                /\ Nowhere(wq, posted) => Nowhere(wq', ready')
                /\ AtRead(wq, posted) => AtRead(wq', ready')
                /\ AtWrite(wq, posted) => AtWrite(wq', ready')
  <1>1. CASE ready' = Append(posted, WriteHandler(w, "done")) /\ UNCHANGED wq
    BY <1>1, PostWrite
  <1>2. CASE w.left > 0 /\ Transfer(w, posted) /\ UNCHANGED wq
    <2> DEFINE rest == [w EXCEPT !.left = @ - 1]
    <2>1. rest \in Writes /\ rest.chain = w.chain
      BY <1>2, RestType
    <2>2. ready' = Append(posted, WriteHandler(rest, "done"))
      BY <1>2 DEF Transfer
    <2> HIDE DEF rest
    <2> QED
      BY <1>2, <2>1, <2>2, PostWrite
  <1>3. CASE wq' = Append(wq, w) /\ ready' = posted
    BY <1>3, QueueWrite
  <1> QED
    BY <1>1, <1>2, <1>3 DEF async_write

LEMMA CancelWrites ==
  ASSUME wq \in Seq(Writes), NEW posted \in Seq(Handlers), CloseSocket(posted),
         Nowhere(wq, posted)
  PROVE  Nowhere(wq', ready') /\ wq' = <<>>
  <1> DEFINE aborted == [i \in 1..Len(wq) |-> WriteHandler(wq[i], "failed")]
  <1>1. wq' = <<>> /\ ready' = posted \o aborted
    BY DEF CloseSocket
  <1>2. \A i \in 1..Len(wq) : wq[i] \in Writes /\ wq[i].chain # "main"
    BY DEF Nowhere, MainIn
  <1>3. \A i \in 1..Len(wq) : ~OnChain(aborted[i]) /\ aborted[i] \in Handlers
    BY <1>2, OnChainWrite
  <1>4. aborted \in Seq(Handlers) /\ Len(aborted) = Len(wq)
    BY <1>3
  <1> HIDE DEF aborted
  <1>5. \A j \in DOMAIN (posted \o aborted) :
            \/ j \in DOMAIN posted /\ (posted \o aborted)[j] = posted[j]
            \/ /\ j - Len(posted) \in 1..Len(wq)
               /\ (posted \o aborted)[j] = aborted[j - Len(posted)]
    BY <1>4
  <1>6. \A j \in DOMAIN posted : ~OnChain(posted[j])
    BY DEF Nowhere, ChainIn
  <1>7. ChainIn(posted \o aborted) = {}
    BY <1>3, <1>5, <1>6 DEF ChainIn
  <1>8. MainIn(wq') = {}
    BY <1>1 DEF MainIn
  <1> QED
    BY <1>1, <1>7, <1>8 DEF Nowhere

-----------------------------------------------------------------------------
(***************************************************************************)
(* The inductive invariant                                                 *)
(***************************************************************************)
ChainInv == TypeOK /\ OneActivity /\ ChainOwnsSession

\* What a step must re-establish besides the types.
ChainGoal == OneActivity /\ ChainOwnsSession

LEMMA QueueTypes ==
  ASSUME TypeOK
  PROVE  wq \in Seq(Writes) /\ wq \in Seq(Pending) /\ ready \in Seq(Handlers)
  BY DEF TypeOK, StreamTypeOK, Pending

LEMMA InitChain == Init => ChainGoal
  <1> SUFFICES ASSUME Init
               PROVE  ChainGoal
    OBVIOUS
  <1>1. wq = <<>> /\ ready = <<>> /\ reader = "hdr" /\ registered
    BY DEF Init, StreamInit
  <1>2. MainIn(wq) = {} /\ ChainIn(ready) = {}
    BY <1>1 DEF MainIn, ChainIn
  <1> QED
    BY <1>1, <1>2 DEF ChainGoal, OneActivity, ChainOwnsSession

\* The running handler is of the main chain: then the session is there, and
\* the chain is nowhere else.
LEMMA RunsOnChain ==
  ASSUME ChainInv, ready # <<>>, OnChain(Head(ready))
  PROVE  /\ registered /\ reader \in {"posted", "busy"}
         /\ Nowhere(wq, Tail(ready))
  <1>1. ready \in Seq(Handlers)
    BY QueueTypes DEF ChainInv
  <1>2. 1 \in ChainIn(ready)
    BY <1>1, ChainInTail
  <1>3. reader \in Readers
    BY DEF ChainInv, TypeOK, SessionTypeOK
  <1>4. reader \in {"posted", "busy"} /\ (AtRead(wq, ready) \/ AtWrite(wq, ready))
    BY <1>2, <1>3, OneActivityShapes DEF ChainInv, Nowhere, Readers
  <1> QED
    BY <1>1, <1>2, <1>4, TakeChain DEF ChainInv, ChainOwnsSession

\* It is another write's handler: the chain stays as it is.
LEMMA RunsBeside ==
  ASSUME ChainInv, ready # <<>>, ~OnChain(Head(ready))
  PROVE  /\ reader \in {"hdr", "body", "lost", "closed"} => Nowhere(wq, Tail(ready))
         /\ reader = "posted" => AtRead(wq, Tail(ready))
         /\ reader = "busy" => AtWrite(wq, Tail(ready))
         /\ reader \in Readers
  <1>1. ready \in Seq(Handlers) /\ reader \in Readers
    BY QueueTypes DEF ChainInv, TypeOK, SessionTypeOK
  <1>2. OneActivity
    BY DEF ChainInv
  <1> QED
    BY <1>1, <1>2, OneActivityShapes, TakeOther

-----------------------------------------------------------------------------
(***************************************************************************)
(* The steps                                                               *)
(***************************************************************************)
LEMMA NextPlace ==
  ASSUME registered', reader' # "closed",
         reader' \in {"hdr", "body", "lost"} => Nowhere(wq', ready'),
         reader' = "posted" => AtRead(wq', ready'),
         reader' = "busy" => AtWrite(wq', ready')
  PROVE  ChainGoal'
  BY DEF ChainGoal, OneActivity, ChainOwnsSession, Nowhere, AtRead, AtWrite

LEMMA WriteAllChain ==
  ASSUME TypeOK, registered, NEW msgs \in Seq(Tags), msgs # <<>>,
         NEW posted \in Seq(Handlers), Nowhere(wq, posted), WriteAll(msgs, posted)
  PROVE  ChainGoal'
  <1>1. PICK n \in Sizes[Head(msgs)] :
            async_write([chain |-> "main", req |-> req, tag |-> Head(msgs), left |-> n],
                        posted)
    BY DEF WriteAll
  <1> DEFINE w == [chain |-> "main", req |-> req, tag |-> Head(msgs), left |-> n]
  <1>2. Head(msgs) \in Tags
    OBVIOUS
  <1>3. w \in Writes /\ w.chain = "main"
    BY <1>2, SessionAssumption DEF Writes, TypeOK, SessionTypeOK
  <1>4. async_write(w, posted) /\ wq \in Seq(Writes)
    BY <1>1, QueueTypes
  <1> HIDE DEF w
  <1>5. AtWrite(wq', ready')
    BY <1>3, <1>4, StartWrite
  <1> QED
    BY <1>5, NextPlace DEF WriteAll

LEMMA DoReadChain ==
  ASSUME registered, NEW posted, Nowhere(wq, posted), DoRead(posted)
  PROVE  ChainGoal'
  BY NextPlace DEF DoRead, NoMoreWrites

LEMMA AbandonChain ==
  ASSUME registered, NEW posted, Nowhere(wq, posted), Abandon(posted)
  PROVE  ChainGoal'
  BY NextPlace DEF Abandon, NoMoreWrites

LEMMA ReportErrorChain ==
  ASSUME TypeOK, registered, NEW posted \in Seq(Handlers), Nowhere(wq, posted),
         ReportError(posted)
  PROVE  ChainGoal'
  <1>1. PICK n \in Sizes["E"] :
            async_write([chain |-> "error", req |-> req, tag |-> "E", left |-> n], posted)
    BY DEF ReportError
  <1> DEFINE w == [chain |-> "error", req |-> req, tag |-> "E", left |-> n]
  <1>2. w \in Writes /\ w.chain # "main"
    BY SessionAssumption DEF Writes, Tags, TypeOK, SessionTypeOK
  <1>3. async_write(w, posted) /\ wq \in Seq(Writes)
    BY <1>1, QueueTypes
  <1> HIDE DEF w
  <1>4. Nowhere(wq', ready')
    BY <1>2, <1>3, StartWrite
  <1> QED
    BY <1>4, NextPlace DEF ReportError

LEMMA FinishChain ==
  ASSUME TypeOK, NEW posted \in Seq(Handlers), Nowhere(wq, posted), Finish(posted)
  PROVE  ChainGoal'
  <1>1. Nowhere(wq', ready') /\ wq' = <<>>
    BY QueueTypes, CancelWrites DEF Finish
  <1>2. reader' = "closed" /\ ~registered'
    BY DEF Finish
  <1> QED
    BY <1>1, <1>2 DEF ChainGoal, OneActivity, ChainOwnsSession, Nowhere

LEMMA ProcessedChain ==
  ASSUME TypeOK, registered, NEW posted \in Seq(Handlers), Nowhere(wq, posted),
         NEW out, Processed(out, posted)
  PROVE  ChainGoal'
  BY DoReadChain, ReportErrorChain, FinishChain DEF Processed

LEMMA BodyReadChain ==
  ASSUME ChainInv, BodyRead
  PROVE  ChainGoal'
  <1>1. Runs("body", "done") /\ TypeOK
    BY DEF BodyRead, ChainInv
  <1>2. ready # <<>> /\ OnChain(Head(ready)) /\ Tail(ready) \in Seq(Handlers)
    BY <1>1, RunsFacts DEF Runs, OnChain
  <1>3. registered /\ Nowhere(wq, Tail(ready))
    BY <1>2, RunsOnChain
  <1>4. <<"N">> \in Seq(Tags) /\ <<"T">> \in Seq(Tags)
    BY DEF Tags
  <1>5. CASE HandleStartup(Tail(ready))
    <2>1. \E msgs \in Seq(Tags) : msgs # <<>> /\ WriteAll(msgs, Tail(ready))
      BY <1>4, <1>5, StartupReplyTypes DEF HandleStartup
    <2> QED
      BY <1>1, <1>2, <1>3, <2>1, WriteAllChain
  <1>6. CASE HandleQuery(Tail(ready))
    <2>1. PICK out \in ParseOutcomes :
              \/ WriteAll(<<"T">>, Tail(ready))
              \/ Processed(out, Tail(ready))
              \/ Abandon(Tail(ready))
      BY <1>6 DEF HandleQuery
    <2> QED
      BY <1>1, <1>2, <1>3, <1>4, <2>1, WriteAllChain, ProcessedChain, AbandonChain
  <1>7. CASE HandleTerminate(Tail(ready))
    BY <1>1, <1>2, <1>3, <1>7, FinishChain DEF HandleTerminate
  <1>8. CASE HandleOther(Tail(ready))
    BY <1>3, <1>8, DoReadChain DEF HandleOther
  <1> QED
    BY <1>5, <1>6, <1>7, <1>8 DEF BodyRead

LEMMA MainWrittenChain ==
  ASSUME ChainInv, MainWritten
  PROVE  ChainGoal'
  <1>1. Runs("write", "done") /\ TypeOK /\ Written.chain = "main"
    BY DEF MainWritten, ChainInv
  <1>2. ready # <<>> /\ OnChain(Head(ready)) /\ Tail(ready) \in Seq(Handlers)
    BY <1>1, RunsFacts DEF Runs, OnChain, Written
  <1>3. registered /\ Nowhere(wq, Tail(ready))
    BY <1>2, RunsOnChain
  <1>4. CASE Execute(Tail(ready))
    <2>1. <<"D", "C", "Z">> \in Seq(Tags)
      BY DEF Tags
    <2>2. PICK out \in ExecOutcomes :
              \/ WriteAll(<<"D", "C", "Z">>, Tail(ready))
              \/ Processed(QueryChain(out), Tail(ready))
      BY <1>4 DEF Execute
    <2> QED
      BY <1>1, <1>2, <1>3, <2>1, <2>2, WriteAllChain, ProcessedChain
  <1>5. CASE todo # <<>> /\ WriteAll(todo, Tail(ready))
    BY <1>1, <1>2, <1>3, <1>5, WriteAllChain DEF TypeOK, SessionTypeOK
  <1>6. CASE Processed("ok", Tail(ready))
    BY <1>1, <1>2, <1>3, <1>6, ProcessedChain
  <1> QED
    BY <1>4, <1>5, <1>6 DEF MainWritten

\* Going on with a write of either chain.
LEMMA WriteStepChain ==
  ASSUME ChainInv, ready # <<>>, Head(ready).op = "write", Written \in Writes,
         Tail(ready) \in Seq(Handlers), registered,
         NEW w \in Writes, w.chain = Written.chain, async_write(w, Tail(ready)),
         UNCHANGED <<reader, registered>>
  PROVE  ChainGoal'
  <1>1. OnChain(Head(ready)) <=> w.chain = "main"
    BY DEF OnChain, Written
  <1>2. wq \in Seq(Writes) /\ reader \in Readers /\ reader # "closed"
    BY QueueTypes DEF ChainInv, TypeOK, SessionTypeOK, ChainOwnsSession
  <1>3. CASE w.chain = "main"
    <2>1. Nowhere(wq, Tail(ready)) /\ reader \in {"posted", "busy"}
      BY <1>1, <1>3, RunsOnChain
    <2>2. reader = "busy"
      <3>1. ASSUME reader = "posted"
            PROVE  FALSE
        <4>1. PICK j \in DOMAIN ready : ChainIn(ready) = {j} /\ ready[j].op # "write"
          BY <3>1 DEF ChainInv, OneActivity
        <4>2. 1 \in ChainIn(ready) /\ ready[1] = Head(ready)
          BY <1>1, <1>3, QueueTypes, ChainInTail DEF ChainInv
        <4> QED
          BY <4>1, <4>2
      <3> QED
        BY <2>1, <3>1
    <2>3. AtWrite(wq', ready')
      BY <1>2, <1>3, <2>1, StartWrite
    <2> QED
      BY <2>2, <2>3, NextPlace
  <1>4. CASE w.chain # "main"
    <2>1. /\ reader \in {"hdr", "body", "lost"} => Nowhere(wq, Tail(ready))
          /\ reader = "posted" => AtRead(wq, Tail(ready))
          /\ reader = "busy" => AtWrite(wq, Tail(ready))
      BY <1>1, <1>4, RunsBeside
    <2>2. /\ reader \in {"hdr", "body", "lost"} => Nowhere(wq', ready')
          /\ reader = "posted" => AtRead(wq', ready')
          /\ reader = "busy" => AtWrite(wq', ready')
      BY <1>2, <1>4, <2>1, StartWrite
    <2> QED
      BY <1>2, <2>2, NextPlace
  <1> QED
    BY <1>3, <1>4

LEMMA UsesFreedSessionChain ==
  ASSUME ChainInv, ready # <<>>, UsesFreedSession
  PROVE  ChainGoal'
  <1>1. ~registered /\ reader = "closed" /\ wq = <<>> /\ ChainIn(ready) = {}
    BY DEF UsesFreedSession, ChainInv, ChainOwnsSession
  <1>2. ready \in Seq(Handlers) /\ ~OnChain(Head(ready))
    BY <1>1, QueueTypes, ChainInTail DEF ChainInv
  <1>3. Nowhere(wq, Tail(ready))
    BY <1>1, <1>2, RunsBeside
  <1>4. wq' = <<>> /\ ready' = Tail(ready) /\ reader' = "closed" /\ ~registered'
    BY <1>1 DEF UsesFreedSession, NoMoreWrites
  <1> QED
    BY <1>1, <1>3, <1>4 DEF ChainGoal, OneActivity, ChainOwnsSession, Nowhere

LEMMA EventLoopChain ==
  ASSUME ChainInv, EventLoop
  PROVE  ChainGoal'
  <1>1. TypeOK
    BY DEF ChainInv
  <1>2. CASE HeaderRead
    <2>1. Runs("hdr", "done")
      BY <1>2 DEF HeaderRead
    <2>2. registered /\ Nowhere(wq, Tail(ready))
      BY <2>1, RunsOnChain DEF Runs, OnChain
    <2>3. CASE Abandon(Tail(ready))
      BY <2>2, <2>3, AbandonChain
    <2>4. CASE reader' = "body" /\ NoMoreWrites(Tail(ready)) /\ UNCHANGED <<todo, registered>>
      BY <2>2, <2>4, NextPlace DEF NoMoreWrites
    <2> QED
      BY <1>2, <2>3, <2>4 DEF HeaderRead
  <1>3. CASE BodyRead
    BY <1>3, BodyReadChain
  <1>4. CASE ReadFailed
    <2>1. ready # <<>> /\ OnChain(Head(ready))
      BY <1>4 DEF ReadFailed, Runs, OnChain
    <2> QED
      BY <1>4, <2>1, RunsOnChain, AbandonChain DEF ReadFailed
  <1>5. CASE WriteMore \/ WriteAgain
    <2>1. PICK res \in {"done", "failed"} : Runs("write", res)
      BY <1>5 DEF WriteMore, WriteAgain
    <2>2. ready # <<>> /\ Head(ready).op = "write" /\ Written \in Writes
          /\ Tail(ready) \in Seq(Handlers)
      BY <1>1, <2>1, RunsFacts DEF Runs
    <2>3. CASE UsesFreedSession
      BY <2>2, <2>3, UsesFreedSessionChain
    <2>4. CASE registered /\ async_write(Written, Tail(ready))
               /\ UNCHANGED <<startup_done, reader, todo, registered, stale>>
      BY <2>2, <2>4, WriteStepChain
    <2> QED
      BY <1>5, <2>3, <2>4 DEF WriteMore, WriteAgain
  <1>6. CASE MainWritten
    BY <1>6, MainWrittenChain
  <1>7. CASE ErrorWritten
    <2>1. Runs("write", "done")
      BY <1>7 DEF ErrorWritten
    <2>2. ready # <<>> /\ Head(ready).op = "write" /\ Written \in Writes
          /\ Tail(ready) \in Seq(Handlers)
      BY <1>1, <2>1, RunsFacts DEF Runs
    <2>3. CASE UsesFreedSession
      BY <2>2, <2>3, UsesFreedSessionChain
    <2>4. ASSUME registered, NEW n \in Sizes["Z"],
                 async_write([Written EXCEPT !.tag = "Z", !.left = n], Tail(ready)),
                 UNCHANGED <<startup_done, reader, todo, registered, stale>>
          PROVE  ChainGoal'
      <3> DEFINE w == [Written EXCEPT !.tag = "Z", !.left = n]
      <3>1. w \in Writes /\ w.chain = Written.chain
        BY <2>2, SessionAssumption DEF Writes, Tags
      <3>2. async_write(w, Tail(ready))
        BY <2>4
      <3> HIDE DEF w
      <3> QED
        BY <2>2, <2>4, <3>1, <3>2, WriteStepChain
    <2> QED
      BY <1>7, <2>3, <2>4 DEF ErrorWritten
  <1>8. CASE ErrorDone
    <2>1. ready # <<>> /\ ~OnChain(Head(ready))
      BY <1>8 DEF ErrorDone, Runs, OnChain, Written
    <2>2. wq' = wq /\ ready' = Tail(ready) /\ UNCHANGED <<reader, registered>>
      BY <1>8 DEF ErrorDone, NoMoreWrites
    <2>3. OneActivity'
      BY <2>1, <2>2, RunsBeside
      DEF OneActivity, Nowhere, AtRead, AtWrite
    <2>4. ChainOwnsSession'
      BY <2>1, <2>2, RunsBeside DEF ChainInv, ChainOwnsSession, Nowhere
    <2> QED
      BY <2>3, <2>4 DEF ChainGoal
  <1> QED
    BY <1>2, <1>3, <1>4, <1>5, <1>6, <1>7, <1>8 DEF EventLoop

LEMMA ClientChain ==
  ASSUME ChainInv, Client
  PROVE  ChainGoal'
  <1>1. UNCHANGED <<wq, ready, reader, registered>>
    BY DEF Client, ClientSend, ClientRecv, ClientClose, ClientReset, sessionVars
  <1> QED
    BY <1>1 DEF ChainInv, ChainGoal, OneActivity, ChainOwnsSession

\* A read is completed: its handler is the chain's.
LEMMA PostRead ==
  ASSUME ChainInv, reader \in {"hdr", "body"}, NEW op \in {"hdr", "body"},
         NEW res \in {"done", "failed"}, reader' = "posted",
         ready' = Append(ready, ReadHandler(op, res)), UNCHANGED <<wq, registered>>
  PROVE  ChainGoal'
  <1> DEFINE x == ReadHandler(op, res)
  <1>1. ready \in Seq(Handlers) /\ Nowhere(wq, ready) /\ registered
    BY QueueTypes DEF ChainInv, OneActivity, Nowhere, ChainOwnsSession
  <1>2. x \in Handlers /\ x.op # "write" /\ OnChain(x)
    BY ReadHandlerType DEF ReadHandler, OnChain
  <1>3. ready' = Append(ready, x)
    OBVIOUS
  <1> HIDE DEF x
  <1>4. ChainIn(ready') = {Len(ready) + 1} /\ MainIn(wq') = {}
    BY <1>1, <1>2, <1>3, ChainInAppend DEF Nowhere
  <1>5. AtRead(wq', ready')
    BY <1>1, <1>2, <1>3, <1>4, ChainInAppend DEF AtRead
  <1> QED
    BY <1>1, <1>5, NextPlace

\* The kernel takes a chunk of the oldest queued write, or fails it.
LEMMA SocketChain ==
  ASSUME ChainInv, SocketWritable \/ SocketBroken, UNCHANGED sessionVars
  PROVE  ChainGoal'
  <1>1. wq \in Seq(Writes) /\ wq \in Seq(Pending) /\ wq # <<>> /\ ready \in Seq(Handlers)
    BY QueueTypes DEF ChainInv, SocketWritable, SocketBroken
  <1>2. PICK w \in Writes, res \in {"done", "failed"} :
            /\ w.chain = Head(wq).chain
            /\ ready' = Append(ready, WriteHandler(w, res))
    <2>1. Head(wq) \in Writes /\ Head(wq).left > 0
      <3>1. Head(wq) \in Pending
        BY <1>1
      <3> QED
        BY <3>1 DEF Pending
    <2> DEFINE rest == [Head(wq) EXCEPT !.left = @ - 1]
    <2>2. rest \in Writes /\ rest.chain = Head(wq).chain
      BY <2>1 DEF Writes
    <2>3. CASE SocketWritable
      <3>1. ready' = Append(ready, WriteHandler(rest, "done"))
        BY <2>3 DEF SocketWritable, Transfer
      <3> HIDE DEF rest
      <3> QED
        BY <2>2, <3>1
    <2>4. CASE SocketBroken
      BY <2>1, <2>4 DEF SocketBroken
    <2> QED
      BY <2>3, <2>4
  <1>3. wq' = Tail(wq) /\ UNCHANGED <<reader, registered>> /\ reader \in Readers
    BY DEF SocketWritable, SocketBroken, sessionVars, ChainInv, TypeOK, SessionTypeOK
  <1>4. registered /\ reader # "closed"
    BY <1>1 DEF ChainInv, ChainOwnsSession
  <1>5. CASE w.chain = "main"
    <2>1. 1 \in MainIn(wq)
      BY <1>1, <1>2, <1>5, MainInTail
    <2>2. reader = "busy" /\ MainIn(wq) = {1} /\ ChainIn(ready) = {}
      BY <1>3, <2>1 DEF ChainInv, OneActivity, Readers
    <2>3. \A i \in DOMAIN Tail(wq) : i + 1 # 1
      BY <1>1
    <2>4. Nowhere(Tail(wq), ready)
      BY <1>1, <2>2, <2>3, MainInTail DEF Nowhere
    <2>5. AtWrite(wq', ready')
      BY <1>1, <1>2, <1>3, <1>5, <2>4, PostWrite
    <2> QED
      BY <1>3, <1>4, <2>2, <2>5, NextPlace
  <1>6. CASE w.chain # "main"
    <2>1. 1 \notin MainIn(wq)
      BY <1>1, <1>2, <1>6, MainInTail
    <2>2. MainIn(wq) = {} => MainIn(Tail(wq)) = {}
      BY <1>1, MainInTail
    <2>3. ASSUME NEW i \in DOMAIN wq, MainIn(wq) = {i}
          PROVE  i - 1 \in DOMAIN Tail(wq) /\ MainIn(Tail(wq)) = {i - 1}
      <3>1. i # 1 /\ i \in Nat
        BY <1>1, <2>1, <2>3
      <3>2. i - 1 \in DOMAIN Tail(wq)
        BY <1>1, <3>1, MainInTail
      <3>3. \A k \in DOMAIN Tail(wq) : k \in Nat /\ (k + 1 = i <=> k = i - 1)
        BY <1>1, <3>1
      <3>4. \A k : k \in MainIn(Tail(wq)) <=> k \in DOMAIN Tail(wq) /\ k + 1 = i
        BY <1>1, <2>3, MainInTail
      <3> QED
        BY <3>2, <3>3, <3>4
    <2>4. /\ Nowhere(wq, ready) => Nowhere(Tail(wq), ready)
          /\ AtRead(wq, ready) => AtRead(Tail(wq), ready)
          /\ AtWrite(wq, ready) => AtWrite(Tail(wq), ready)
      BY <2>2, <2>3 DEF Nowhere, AtRead, AtWrite
    <2>5. /\ Nowhere(wq, ready) => Nowhere(wq', ready')
          /\ AtRead(wq, ready) => AtRead(wq', ready')
          /\ AtWrite(wq, ready) => AtWrite(wq', ready')
      BY <1>1, <1>2, <1>3, <1>6, <2>4, PostWrite
    <2> QED
      BY <1>3, <1>4, <2>5, NextPlace, OneActivityShapes DEF ChainInv
  <1> QED
    BY <1>5, <1>6

LEMMA KernelChain ==
  ASSUME ChainInv, Kernel
  PROVE  ChainGoal'
  <1>1. CASE HeaderArrives \/ HeaderFails \/ BodyArrives \/ BodyFails
    BY <1>1, PostRead DEF HeaderArrives, HeaderFails, BodyArrives, BodyFails
  <1> QED
    BY <1>1, SocketChain DEF Kernel

-----------------------------------------------------------------------------
THEOREM ChainInvInductive == ChainInv /\ [Next]_vars => ChainInv'
  <1> SUFFICES ASSUME ChainInv, [Next]_vars
               PROVE  ChainInv'
    OBVIOUS
  <1>1. TypeOK'
    BY TypesPreserved DEF ChainInv
  <1>2. ASSUME UNCHANGED vars
        PROVE  ChainGoal'
    BY <1>2 DEF vars, streamVars, sessionVars, ChainInv, ChainGoal,
                OneActivity, ChainOwnsSession
  <1>3. ChainGoal'
    BY <1>2, ClientChain, KernelChain, EventLoopChain DEF Next, ChainInv, ChainGoal
  <1> QED
    BY <1>1, <1>3 DEF ChainInv, ChainGoal

LEMMA ChainInvHolds == Spec => []ChainInv
  <1>1. Init => ChainInv
    BY InitTypes, InitChain DEF ChainInv, ChainGoal
  <1> QED
    BY <1>1, ChainInvInductive, PTL DEF Spec

\* Whatever the client, the handlers and the kernel do, a session never has two
\* of: an outstanding read, a write its chain waits for, a posted handler of
\* either; and it has one of them until its chain has ended.
THEOREM OneActivityHolds == Spec => []OneActivity
  BY ChainInvHolds, PTL DEF ChainInv

\* The session lives exactly as long as its chain: no handler of the chain runs
\* after the session left ServerImpl::_sessions.
THEOREM ChainOwnsSessionHolds == Spec => []ChainOwnsSession
  BY ChainInvHolds, PTL DEF ChainInv

-----------------------------------------------------------------------------
(***************************************************************************)
(* A Session implements SessionLife, which is all that the module Server   *)
(* assumes of it.                                                          *)
(*                                                                         *)
(* The step that matters is one of a session that is lost or done: the     *)
(* read loop is entered again by handlers of the main chain only, and      *)
(* there OneActivity leaves none of them posted.                           *)
(***************************************************************************)
LEMMA LifeInit == Init => Life!Init
  BY DEF Init, Life!Init, LifeNow

\* A session that ended or was lost has no handler of its chain to run.
LEMMA NoChainHandlerLeft ==
  ASSUME ChainInv, reader \in {"lost", "closed"}
  PROVE  ready # <<>> => ~OnChain(Head(ready))
  <1>1. ready \in Seq(Handlers) /\ ChainIn(ready) = {}
    BY QueueTypes DEF ChainInv, OneActivity
  <1> QED
    BY <1>1, ChainInTail

LEMMA EndIsFinal ==
  ASSUME ChainInv, Next, reader \in {"lost", "closed"}
  PROVE  UNCHANGED <<reader, registered>>
  <1>1. CASE Client
    BY <1>1 DEF Client, ClientSend, sessionVars
  <1>2. CASE Kernel
    BY <1>2 DEF Kernel, HeaderArrives, HeaderFails, BodyArrives, BodyFails, sessionVars
  <1>3. CASE EventLoop
    <2>1. ~(HeaderRead \/ BodyRead \/ ReadFailed)
      BY NoChainHandlerLeft DEF HeaderRead, BodyRead, ReadFailed, Runs, OnChain
    <2>2. ~MainWritten
      BY NoChainHandlerLeft DEF MainWritten, Runs, Written, OnChain
    <2>3. WriteMore \/ WriteAgain \/ ErrorWritten \/ ErrorDone
      BY <1>3, <2>1, <2>2 DEF EventLoop
    <2> QED
      BY <2>3 DEF WriteMore, WriteAgain, ErrorWritten, ErrorDone, UsesFreedSession
  <1> QED
    BY <1>1, <1>2, <1>3 DEF Next

LEMMA LifeStep == ChainInv /\ [Next]_vars => [Life!Next]_LifeNow
  <1> SUFFICES ASSUME ChainInv, [Next]_vars
               PROVE  [Life!Next]_LifeNow
    OBVIOUS
  <1>1. CASE LifeNow = "reading"
    <2>1. LifeNow' \in {"reading", "lost", "done"}
      BY DEF LifeNow
    <2> QED
      BY <1>1, <2>1 DEF Life!Next, Life!Done, Life!Lose
  <1>2. CASE LifeNow # "reading"
    <2>1. reader \in {"lost", "closed"}
      BY <1>2 DEF LifeNow, ChainInv, ChainOwnsSession
    <2>2. UNCHANGED <<reader, registered>>
      BY <2>1, EndIsFinal DEF vars, sessionVars
    <2> QED
      BY <2>2 DEF LifeNow
  <1> QED
    BY <1>1, <1>2

\* The same in terms of the life itself.
LEMMA LifeMoves ==
  ChainInv /\ [Next]_vars =>
      /\ LifeNow' = LifeNow \/ (LifeNow = "reading" /\ LifeNow' \in {"lost", "done"})
      /\ LifeNow = "done" <=> ~registered
      /\ LifeNow' = "done" <=> ~registered'
  <1>1. ChainInv /\ [Next]_vars => [Life!Next]_LifeNow
    BY LifeStep
  <1> QED
    BY <1>1 DEF Life!Next, Life!Done, Life!Lose, LifeNow

\* A client by itself moves nothing of the session.
LEMMA ClientBeside == Client => UNCHANGED <<wq, ready, reader, registered>>
  BY DEF Client, ClientSend, ClientRecv, ClientClose, ClientReset, sessionVars

LEMMA EventLoopRuns == EventLoop => ready # <<>>
  BY DEF EventLoop, HeaderRead, BodyRead, ReadFailed, WriteMore, WriteAgain, MainWritten,
         ErrorWritten, ErrorDone, Runs

\* A session ends at most once, and only by its own chain; one whose read was
\* rejected stays in ServerImpl::_sessions for ever.
THEOREM SessionImplementsLife == Spec => ImplementsLife
  <1>1. Spec => Life!Init /\ [][Life!Next]_LifeNow
    BY LifeInit, LifeStep, ChainInvHolds, PTL DEF Spec
  <1> QED
    BY <1>1 DEF ImplementsLife, Life!Spec

-----------------------------------------------------------------------------
(***************************************************************************)
(* The client and the session agree on how each message is framed, for     *)
(* any client of the protocol, pipelining or not.                          *)
(*                                                                         *)
(* _startup_done lags behind the client: the start-up packet may be on its *)
(* way, or being read, when the client already sends tagged messages.  The *)
(* invariant follows the packet: it has begun to be processed, or it is    *)
(* among the requests in flight, untagged packets before it and tagged     *)
(* messages behind it.                                                     *)
(***************************************************************************)
Tagged == {"Query", "Terminate", "Other"}

\* The start-up packet has been taken off the connection.
Begun == startup_done \/ (reader \in {"posted", "body"} /\ kind = "Startup")

Alive == reader \notin {"lost", "closed"}

\* Nothing untagged behind the start-up packet, and nothing tagged before it.
HelloFirst ==
    \A i \in DOMAIN inbound : inbound[i] \in Hello =>
        ~Begun /\ \A j \in 1..(i - 1) : inbound[j] # "Startup"

TaggedAfter ==
    \A i \in DOMAIN inbound : inbound[i] \in Tagged =>
        Begun \/ \E j \in 1..(i - 1) : inbound[j] = "Startup"

\* What the client may send next fits what is in flight.
ClientFits ==
    peer = "open" =>
        (phase = "hello" <=> ~Begun /\ \A i \in DOMAIN inbound : inbound[i] # "Startup")

\* The request whose header was read is framed rightly.
Framed == kind \in Hello <=> ~startup_done

HeaderFramed ==
    reader = "posted" =>
        \A j \in DOMAIN ready :
            ready[j].op = "hdr" /\ ready[j].res = "done" => kind = "BadLength" \/ Framed

BodyFramed == reader = "body" => Framed

Flight == HelloFirst /\ TaggedAfter /\ ClientFits

FrameInv == Alive => Flight /\ HeaderFramed /\ BodyFramed

-----------------------------------------------------------------------------
(***************************************************************************)
(* The posted handlers of reads                                            *)
(***************************************************************************)
\* No handler of a read is in new that was not in old.
NoNewRead(old, new) ==
    \A j \in DOMAIN new : new[j].op = "write" \/ \E k \in DOMAIN old : old[k] = new[j]

LEMMA AppendWriteNoRead ==
  ASSUME NEW h \in Seq(Handlers), NEW w, NEW res
  PROVE  NoNewRead(h, Append(h, WriteHandler(w, res)))
  <1> DEFINE x == WriteHandler(w, res)
  <1>1. x.op = "write"
    BY DEF WriteHandler
  <1> HIDE DEF x
  <1>2. ASSUME NEW j \in DOMAIN Append(h, x)
        PROVE  Append(h, x)[j] = x \/ (j \in DOMAIN h /\ Append(h, x)[j] = h[j])
    OBVIOUS
  <1> QED
    BY <1>1, <1>2 DEF NoNewRead, x

LEMMA TailNoRead ==
  ASSUME NEW h \in Seq(Handlers), h # <<>>
  PROVE  NoNewRead(h, Tail(h))
  BY ChainInTail DEF NoNewRead

LEMMA NoNewReadTrans ==
  ASSUME NEW a, NEW b, NEW c, NoNewRead(a, b), NoNewRead(b, c)
  PROVE  NoNewRead(a, c)
  BY DEF NoNewRead

\* Starting or continuing a write posts no read.
LEMMA AsyncWriteNoRead ==
  ASSUME NEW w, NEW posted \in Seq(Handlers), async_write(w, posted)
  PROVE  NoNewRead(posted, ready')
  <1>1. NoNewRead(posted, posted)
    BY DEF NoNewRead
  <1>2. ready' = posted \/ \E v : ready' = Append(posted, WriteHandler(v, "done"))
    BY DEF async_write, Transfer
  <1> QED
    BY <1>1, <1>2, AppendWriteNoRead

LEMMA ReadRunsPosted ==
  ASSUME ChainInv, ready # <<>>, Head(ready).op # "write"
  PROVE  reader = "posted"
  <1>1. ready \in Seq(Handlers) /\ OnChain(Head(ready))
    BY QueueTypes DEF ChainInv, OnChain
  <1>2. 1 \in ChainIn(ready) /\ ready[1] = Head(ready)
    BY <1>1, ChainInTail
  <1>3. reader \in {"posted", "busy"}
    BY <1>1, RunsOnChain
  <1> QED
    BY <1>2, <1>3 DEF ChainInv, OneActivity

LEMMA MainWriteRunsBusy ==
  ASSUME ChainInv, ready # <<>>, Head(ready).op = "write", Written.chain = "main"
  PROVE  reader = "busy"
  <1>1. ready \in Seq(Handlers) /\ OnChain(Head(ready))
    BY QueueTypes DEF ChainInv, OnChain, Written
  <1>2. 1 \in ChainIn(ready) /\ ready[1] = Head(ready)
    BY <1>1, ChainInTail
  <1>3. reader \in {"posted", "busy"}
    BY <1>1, RunsOnChain
  <1> QED
    BY <1>2, <1>3 DEF ChainInv, OneActivity

-----------------------------------------------------------------------------
(***************************************************************************)
(* The requests in flight                                                  *)
(***************************************************************************)
LEMMA FrameInit == Init => FrameInv
  BY DEF Init, StreamInit, FrameInv, Flight, HelloFirst, TaggedAfter, ClientFits,
         HeaderFramed, BodyFramed, Begun, Alive

\* The requests in flight, and the client, stay as they are.
LEMMA SameFlight ==
  ASSUME Flight, UNCHANGED <<inbound, peer, phase>>, Begun' <=> Begun
  PROVE  Flight'
  BY DEF Flight, HelloFirst, TaggedAfter, ClientFits

\* A step beside the read loop.
LEMMA BesideFrame ==
  ASSUME FrameInv, UNCHANGED <<inbound, peer, phase, startup_done, kind, reader>>,
         NoNewRead(ready, ready')
  PROVE  FrameInv'
  <1>1. (Alive' <=> Alive) /\ (Begun' <=> Begun) /\ (Framed' <=> Framed)
    BY DEF Alive, Begun, Framed
  <1>2. HeaderFramed => HeaderFramed'
    BY <1>1 DEF HeaderFramed, NoNewRead
  <1>3. BodyFramed => BodyFramed'
    BY <1>1 DEF BodyFramed
  <1> QED
    BY <1>1, <1>2, <1>3, SameFlight DEF FrameInv

LEMMA SendFrame ==
  ASSUME TypeOK, FrameInv, NEW k \in Kinds, ClientSend(k)
  PROVE  FrameInv'
  <1>1. UNCHANGED <<startup_done, kind, reader, ready, peer>> /\ peer = "open"
    BY DEF ClientSend, sessionVars
  <1>2. (Alive' <=> Alive) /\ (Begun' <=> Begun) /\ (Framed' <=> Framed)
    BY <1>1 DEF Alive, Begun, Framed
  <1>3. HeaderFramed => HeaderFramed'
    BY <1>1, <1>2 DEF HeaderFramed
  <1>4. BodyFramed => BodyFramed'
    BY <1>1, <1>2 DEF BodyFramed
  <1>5. inbound \in Seq(Kinds) /\ inbound' = Append(inbound, k)
    BY DEF TypeOK, StreamTypeOK, ClientSend
  <1>6. /\ DOMAIN inbound' = 1..Len(inbound) + 1
        /\ DOMAIN inbound = 1..Len(inbound) /\ Len(inbound) \in Nat
        /\ inbound'[Len(inbound) + 1] = k
        /\ \A i \in 1..Len(inbound) : inbound'[i] = inbound[i]
    BY <1>5
  <1>7. ASSUME Flight
        PROVE  Flight'
    <2>1. \/ phase = "hello" /\ k \in Hello \cup {"BadLength"}
          \/ phase = "ready" /\ k \notin Hello
      BY DEF ClientSend, MaySend
    <2>2. phase = "hello" <=> ~Begun /\ \A i \in DOMAIN inbound : inbound[i] # "Startup"
      BY <1>1, <1>7 DEF Flight, ClientFits
    <2>3. HelloFirst'
      <3> SUFFICES ASSUME NEW i \in DOMAIN inbound', inbound'[i] \in Hello
                   PROVE  ~Begun /\ \A j \in 1..(i - 1) : inbound'[j] # "Startup"
        BY <1>2 DEF HelloFirst
      <3>1. CASE i \in 1..Len(inbound)
        BY <1>6, <1>7, <3>1 DEF Flight, HelloFirst
      <3>2. CASE i = Len(inbound) + 1
        BY <1>6, <2>1, <2>2, <3>2 DEF Hello
      <3> QED
        BY <1>6, <3>1, <3>2
    <2>4. TaggedAfter'
      <3> SUFFICES ASSUME NEW i \in DOMAIN inbound', inbound'[i] \in Tagged
                   PROVE  Begun \/ \E j \in 1..(i - 1) : inbound'[j] = "Startup"
        BY <1>2 DEF TaggedAfter
      <3>1. CASE i \in 1..Len(inbound)
        BY <1>6, <1>7, <3>1 DEF Flight, TaggedAfter
      <3>2. CASE i = Len(inbound) + 1
        BY <1>6, <2>1, <2>2, <3>2 DEF Hello, Tagged
      <3> QED
        BY <1>6, <3>1, <3>2
    <2>5. ClientFits'
      <3>1. phase' = "hello" <=> phase = "hello" /\ k # "Startup"
        BY <2>1 DEF ClientSend, Hello
      <3>2. (\A i \in DOMAIN inbound' : inbound'[i] # "Startup")
                <=> (k # "Startup" /\ \A i \in DOMAIN inbound : inbound[i] # "Startup")
        BY <1>6
      <3> QED
        BY <1>2, <2>2, <3>1, <3>2 DEF ClientFits
    <2> QED
      BY <2>3, <2>4, <2>5 DEF Flight
  <1> QED
    BY <1>2, <1>3, <1>4, <1>7 DEF FrameInv

LEMMA ResetFrame ==
  ASSUME TypeOK, FrameInv, ClientReset, UNCHANGED <<clientVars, sessionVars>>
  PROVE  FrameInv'
  <1>1. UNCHANGED <<startup_done, kind, reader, ready>> /\ peer' = "reset"
    BY DEF ClientReset, sessionVars
  <1>2. (Alive' <=> Alive) /\ (Begun' <=> Begun) /\ (Framed' <=> Framed)
    BY <1>1 DEF Alive, Begun, Framed
  <1>3. (HeaderFramed => HeaderFramed') /\ (BodyFramed => BodyFramed')
    BY <1>1, <1>2 DEF HeaderFramed, BodyFramed
  <1>4. /\ DOMAIN inbound' \subseteq DOMAIN inbound
        /\ \A i \in DOMAIN inbound' :
               inbound'[i] = inbound[i] /\ \A j \in 1..(i - 1) : j \in DOMAIN inbound'
    BY DEF ClientReset, TypeOK, StreamTypeOK
  <1>5. Flight => Flight'
    BY <1>1, <1>2, <1>4 DEF Flight, HelloFirst, TaggedAfter, ClientFits
  <1> QED
    BY <1>2, <1>3, <1>5 DEF FrameInv

LEMMA ClientFrame ==
  ASSUME TypeOK, FrameInv, Client
  PROVE  FrameInv'
  <1>1. ASSUME ClientRecv \/ ClientClose, UNCHANGED <<clientVars, sessionVars>>
        PROVE  FrameInv'
    <2>1. /\ UNCHANGED <<startup_done, kind, reader, ready, inbound, phase>>
          /\ peer' = peer \/ peer' # "open"
      BY <1>1 DEF ClientRecv, ClientClose, clientVars, sessionVars
    <2> QED
      BY <2>1 DEF FrameInv, Flight, HelloFirst, TaggedAfter, ClientFits,
                  HeaderFramed, BodyFramed, Begun, Alive, Framed
  <1> QED
    BY <1>1, SendFrame, ResetFrame DEF Client

-----------------------------------------------------------------------------
(***************************************************************************)
(* Reads                                                                   *)
(***************************************************************************)
\* The oldest request in flight is framed as the session expects it.
LEMMA OldestFramed ==
  ASSUME TypeOK, Flight, inbound # <<>>, reader = "hdr"
  PROVE  Head(inbound) = "BadLength" \/ (Head(inbound) \in Hello <=> ~startup_done)
  <1>1. /\ inbound \in Seq(Kinds) /\ 1 \in DOMAIN inbound
        /\ Head(inbound) = inbound[1] /\ inbound[1] \in Kinds
    BY DEF TypeOK, StreamTypeOK
  <1>2. Begun <=> startup_done
    BY DEF Begun
  <1>3. inbound[1] \in Hello => ~Begun
    BY <1>1 DEF Flight, HelloFirst
  <1>4. inbound[1] \in Tagged => Begun
    BY <1>1 DEF Flight, TaggedAfter
  <1>5. inbound[1] \in Hello \/ inbound[1] \in Tagged \/ inbound[1] = "BadLength"
    BY <1>1 DEF Kinds, Tagged
  <1>6. inbound[1] \in Tagged => inbound[1] \notin Hello
    BY DEF Tagged, Hello
  <1> QED
    BY <1>1, <1>2, <1>3, <1>4, <1>5, <1>6

\* Taking it off the connection.
LEMMA TakeOldest ==
  ASSUME TypeOK, Flight, inbound # <<>>, inbound' = Tail(inbound),
         Begun' <=> Begun \/ inbound[1] = "Startup", UNCHANGED <<peer, phase>>
  PROVE  Flight'
  <1>1. inbound \in Seq(Kinds)
    BY DEF TypeOK, StreamTypeOK
  <1>2. /\ Len(inbound) \in Nat /\ Len(inbound) > 0
        /\ DOMAIN inbound = 1..Len(inbound)
        /\ DOMAIN inbound' = 1..Len(inbound) - 1
        /\ \A i \in DOMAIN inbound' : inbound'[i] = inbound[i + 1]
    BY <1>1
  <1>3. HelloFirst'
    <2> SUFFICES ASSUME NEW i \in DOMAIN inbound', inbound'[i] \in Hello
                 PROVE  ~Begun' /\ \A j \in 1..(i - 1) : inbound'[j] # "Startup"
      BY DEF HelloFirst
    <2>1. i + 1 \in DOMAIN inbound /\ inbound[i + 1] \in Hello
      BY <1>2
    <2>2. ~Begun /\ \A j \in 1..i : inbound[j] # "Startup"
      BY <1>2, <2>1 DEF Flight, HelloFirst
    <2> QED
      BY <1>2, <2>2
  <1>4. TaggedAfter'
    <2> SUFFICES ASSUME NEW i \in DOMAIN inbound', inbound'[i] \in Tagged, ~Begun'
                 PROVE  \E j \in 1..(i - 1) : inbound'[j] = "Startup"
      BY DEF TaggedAfter
    <2>1. i + 1 \in DOMAIN inbound /\ inbound[i + 1] \in Tagged
      BY <1>2
    <2>2. PICK j \in 1..i : inbound[j] = "Startup"
      BY <1>2, <2>1 DEF Flight, TaggedAfter
    <2>3. j - 1 \in 1..(i - 1) /\ inbound'[j - 1] = inbound[j]
      BY <1>2, <2>2
    <2> QED
      BY <2>2, <2>3
  <1>5. ClientFits'
    <2>1. (\A i \in DOMAIN inbound : inbound[i] # "Startup")
              <=> inbound[1] # "Startup" /\ \A i \in DOMAIN inbound' : inbound'[i] # "Startup"
      <3>1. \A i \in DOMAIN inbound : i = 1 \/ i - 1 \in DOMAIN inbound'
        BY <1>2
      <3>2. 1 \in DOMAIN inbound /\ \A i \in DOMAIN inbound' : i + 1 \in DOMAIN inbound
        BY <1>2
      <3>3. \A i \in DOMAIN inbound : i # 1 => inbound'[i - 1] = inbound[i]
        BY <1>2
      <3> QED
        BY <1>2, <3>1, <3>2, <3>3
    <2> QED
      BY <2>1 DEF Flight, ClientFits
  <1> QED
    BY <1>3, <1>4, <1>5 DEF Flight

\* No handler of a read is posted while a read is outstanding.
LEMMA NoReadPosted ==
  ASSUME ChainInv, reader \in {"hdr", "body"}
  PROVE  \A j \in DOMAIN ready : ready[j].op = "write"
  BY DEF ChainInv, OneActivity, ChainIn, OnChain

LEMMA PostedReads ==
  ASSUME ChainInv, reader \in {"hdr", "body"}, NEW x \in Handlers, ready' = Append(ready, x)
  PROVE  \A j \in DOMAIN ready' : ready'[j].op = "write" \/ ready'[j] = x
  <1>1. ready \in Seq(Handlers)
    BY QueueTypes DEF ChainInv
  <1> QED
    BY <1>1, NoReadPosted

LEMMA KernelFrame ==
  ASSUME ChainInv, FrameInv, Kernel
  PROVE  FrameInv'
  <1>1. TypeOK /\ ready \in Seq(Handlers)
    BY QueueTypes DEF ChainInv
  <1>2. ASSUME SocketWritable \/ SocketBroken, UNCHANGED <<clientVars, sessionVars>>
        PROVE  FrameInv'
    <2>1. \E w, res : ready' = Append(ready, WriteHandler(w, res))
      BY <1>2 DEF SocketWritable, SocketBroken, Transfer
    <2>2. NoNewRead(ready, ready')
      BY <1>1, <2>1, AppendWriteNoRead
    <2>3. UNCHANGED <<inbound, peer, phase, startup_done, kind, reader>>
      BY <1>2 DEF SocketWritable, SocketBroken, clientVars, sessionVars
    <2> QED
      BY <2>2, <2>3, BesideFrame
  <1>3. CASE HeaderArrives
    <2>1. Alive /\ Flight /\ reader = "hdr" /\ inbound # <<>>
      BY <1>3 DEF HeaderArrives, FrameInv, Alive
    <2>2. inbound[1] = Head(inbound) /\ kind' = Head(inbound) /\ UNCHANGED <<peer, phase>>
      BY <1>1, <1>3 DEF HeaderArrives, TypeOK, StreamTypeOK, clientVars
    <2>3. reader' = "posted" /\ UNCHANGED startup_done /\ inbound' = Tail(inbound)
      BY <1>3 DEF HeaderArrives
    <2>4. Begun' <=> Begun \/ inbound[1] = "Startup"
      BY <2>1, <2>2, <2>3 DEF Begun
    <2>5. Flight'
      BY <1>1, <2>1, <2>2, <2>3, <2>4, TakeOldest
    <2>6. kind' = "BadLength" \/ Framed'
      BY <1>1, <2>1, <2>2, <2>3, OldestFramed DEF Framed
    <2> QED
      BY <2>3, <2>5, <2>6 DEF FrameInv, HeaderFramed, BodyFramed
  <1>4. ASSUME reader \in {"hdr", "body"}, reader' = "posted",
               NEW x \in Handlers, ~(x.op = "hdr" /\ x.res = "done"),
               ready' = Append(ready, x),
               UNCHANGED <<inbound, peer, phase, startup_done, kind>>
        PROVE  HeaderFramed' /\ BodyFramed'
    <2>1. \A j \in DOMAIN ready' : ready'[j].op = "write" \/ ready'[j] = x
      BY <1>4, PostedReads
    <2> QED
      BY <1>4, <2>1 DEF HeaderFramed, BodyFramed
  <1>5. CASE HeaderFails
    <2> DEFINE x == ReadHandler("hdr", "failed")
    <2>1. x \in Handlers /\ x.res = "failed"
      BY ReadHandlerType DEF ReadHandler
    <2>2. /\ reader = "hdr" /\ reader' = "posted" /\ ready' = Append(ready, x)
          /\ UNCHANGED <<inbound, peer, phase, startup_done, kind>>
          /\ inbound = <<>> /\ peer # "open"
      BY <1>5 DEF HeaderFails, clientVars
    <2> HIDE DEF x
    <2>3. HeaderFramed' /\ BodyFramed'
      BY <1>4, <2>1, <2>2
    <2>4. Flight'
      BY <2>2 DEF Flight, HelloFirst, TaggedAfter, ClientFits
    <2> QED
      BY <2>3, <2>4 DEF FrameInv
  <1>6. CASE BodyArrives \/ BodyFails
    <2>1. PICK x \in Handlers :
              /\ x.op = "body" /\ reader = "body" /\ reader' = "posted"
              /\ ready' = Append(ready, x)
              /\ UNCHANGED <<inbound, peer, phase, startup_done, kind>>
      <3>1. \A res \in {"done", "failed"} :
                ReadHandler("body", res) \in Handlers /\ ReadHandler("body", res).op = "body"
        BY ReadHandlerType DEF ReadHandler
      <3> QED
        BY <1>6, <3>1 DEF BodyArrives, BodyFails, clientVars
    <2>2. HeaderFramed' /\ BodyFramed'
      BY <1>4, <2>1
    <2>3. (Begun' <=> Begun) /\ Alive
      BY <2>1 DEF Begun, Alive
    <2>4. Flight'
      BY <2>1, <2>3, SameFlight DEF FrameInv
    <2> QED
      BY <2>2, <2>4 DEF FrameInv
  <1> QED
    BY <1>2, <1>3, <1>5, <1>6 DEF Kernel

-----------------------------------------------------------------------------
(***************************************************************************)
(* The event loop                                                          *)
(***************************************************************************)
\* The chain goes on, or ends, with no read handler posted and no body read.
LEMMA MovesOn ==
  ASSUME FrameInv, Alive, UNCHANGED <<inbound, peer, phase>>, Begun' <=> Begun,
         reader' \in {"busy", "hdr", "closed", "lost"}
  PROVE  FrameInv'
  BY SameFlight DEF FrameInv, HeaderFramed, BodyFramed

LEMMA ProcessedReader ==
  ASSUME NEW out, NEW posted, Processed(out, posted)
  PROVE  reader' \in {"hdr", "closed"}
  BY DEF Processed, DoRead, ReportError, Finish

LEMMA HeaderReadFrame ==
  ASSUME ChainInv, FrameInv, HeaderRead
  PROVE  FrameInv'
  <1>1. Runs("hdr", "done") /\ UNCHANGED startup_done
    BY DEF HeaderRead
  <1>2. reader = "posted" /\ UNCHANGED <<inbound, peer, phase, kind>>
    BY <1>1, ReadRunsPosted DEF Runs, clientVars
  <1>3. CASE reader' = "lost"
    BY <1>3 DEF FrameInv, Alive
  <1>4. CASE kind # "BadLength" /\ reader' = "body"
    <2>1. ready \in Seq(Handlers) /\ ready # <<>>
      BY <1>1, QueueTypes DEF ChainInv, Runs
    <2>2. 1 \in DOMAIN ready /\ ready[1] = Head(ready)
      BY <2>1
    <2>3. Alive /\ Flight /\ HeaderFramed
      BY <1>2 DEF FrameInv, Alive
    <2>4. Framed
      BY <1>1, <1>2, <1>4, <2>2, <2>3 DEF HeaderFramed, Runs
    <2>5. (Begun' <=> Begun) /\ Framed'
      BY <1>1, <1>2, <1>4, <2>4 DEF Begun, Framed
    <2>6. Flight'
      BY <1>2, <2>3, <2>5, SameFlight
    <2> QED
      BY <1>4, <2>5, <2>6 DEF FrameInv, HeaderFramed, BodyFramed
  <1> QED
    BY <1>3, <1>4 DEF HeaderRead, Abandon

LEMMA BodyReadFrame ==
  ASSUME ChainInv, FrameInv, BodyRead
  PROVE  FrameInv'
  <1>1. Runs("body", "done")
    BY DEF BodyRead
  <1>2. reader = "posted" /\ UNCHANGED <<inbound, peer, phase, kind>>
    BY <1>1, ReadRunsPosted DEF Runs, clientVars
  <1>3. Alive /\ (Begun <=> startup_done \/ kind = "Startup")
    BY <1>2 DEF Alive, Begun
  <1>4. /\ reader' \in {"busy", "hdr", "closed", "lost"}
        /\ \/ kind = "Startup" /\ startup_done' = TRUE
           \/ ~startup_done /\ kind = "SSLRequest" /\ UNCHANGED startup_done
           \/ startup_done /\ UNCHANGED startup_done
    BY ProcessedReader
    DEF BodyRead, HandleStartup, HandleQuery, HandleTerminate, HandleOther,
        WriteAll, Abandon, DoRead, Finish
  <1>5. Begun' <=> startup_done'
    BY <1>4 DEF Begun
  <1>6. Begun' <=> Begun
    BY <1>3, <1>4, <1>5
  <1> QED
    BY <1>2, <1>3, <1>4, <1>6, MovesOn

LEMMA MainWrittenFrame ==
  ASSUME ChainInv, FrameInv, MainWritten
  PROVE  FrameInv'
  <1>1. Runs("write", "done") /\ Written.chain = "main" /\ UNCHANGED startup_done
    BY DEF MainWritten
  <1>2. reader = "busy" /\ UNCHANGED <<inbound, peer, phase, kind>>
    BY <1>1, MainWriteRunsBusy DEF Runs, clientVars
  <1>3. reader' \in {"busy", "hdr", "closed"}
    BY ProcessedReader DEF MainWritten, Execute, WriteAll
  <1>4. (Begun' <=> Begun) /\ Alive
    BY <1>1, <1>2, <1>3 DEF Begun, Alive
  <1> QED
    BY <1>2, <1>3, <1>4, MovesOn

LEMMA EventLoopFrame ==
  ASSUME ChainInv, FrameInv, EventLoop
  PROVE  FrameInv'
  <1>1. TypeOK
    BY DEF ChainInv
  <1>2. CASE ReadFailed
    BY <1>2 DEF ReadFailed, Abandon, FrameInv, Alive
  <1>3. CASE WriteMore \/ WriteAgain \/ ErrorWritten \/ ErrorDone
    <2>1. PICK res \in {"done", "failed"} : Runs("write", res)
      BY <1>3 DEF WriteMore, WriteAgain, ErrorWritten, ErrorDone
    <2>2. ready # <<>> /\ ready \in Seq(Handlers) /\ Tail(ready) \in Seq(Handlers)
      BY <1>1, <2>1, QueueTypes, RunsFacts DEF Runs
    <2>3. NoNewRead(ready, Tail(ready))
      BY <2>2, TailNoRead
    <2>4. NoNewRead(Tail(ready), ready')
      <3>1. ready' = Tail(ready) \/ \E w : async_write(w, Tail(ready))
        BY <1>3 DEF WriteMore, WriteAgain, ErrorWritten, ErrorDone, UsesFreedSession,
                    NoMoreWrites
      <3>2. NoNewRead(Tail(ready), Tail(ready))
        BY DEF NoNewRead
      <3> QED
        BY <2>2, <3>1, <3>2, AsyncWriteNoRead
    <2>5. NoNewRead(ready, ready')
      BY <2>3, <2>4, NoNewReadTrans
    <2>6. UNCHANGED <<inbound, peer, phase, startup_done, kind, reader>>
      BY <1>3, <2>1 DEF WriteMore, WriteAgain, ErrorWritten, ErrorDone, UsesFreedSession,
                        Runs, clientVars
    <2> QED
      BY <2>5, <2>6, BesideFrame
  <1> QED
    BY <1>2, <1>3, HeaderReadFrame, BodyReadFrame, MainWrittenFrame DEF EventLoop

LEMMA FrameStep == ChainInv /\ FrameInv /\ [Next]_vars => FrameInv'
  <1> SUFFICES ASSUME ChainInv, FrameInv, [Next]_vars
               PROVE  FrameInv'
    OBVIOUS
  <1>1. CASE UNCHANGED vars
    <2>1. NoNewRead(ready, ready')
      BY <1>1 DEF NoNewRead, vars, streamVars
    <2> QED
      BY <1>1, <2>1, BesideFrame DEF vars, streamVars, clientVars, sessionVars
  <1> QED
    BY <1>1, ClientFrame, KernelFrame, EventLoopFrame DEF Next, ChainInv

-----------------------------------------------------------------------------
\* Whatever a client sends ahead of the answers, the session reads a start-up
\* packet with read_startup and a tagged message with read, until it ends.
THEOREM FramingAgreesHolds == Spec => []FramingAgrees
  <1>1. FrameInv => FramingAgrees
    BY DEF FrameInv, BodyFramed, Framed, FramingAgrees, Alive
  <1> QED
    BY <1>1, FrameInit, FrameStep, ChainInvHolds, PTL DEF Spec
=============================================================================
