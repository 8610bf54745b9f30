# A verification of duckpg in TLA+

duckpg is a DuckDB extension that lets PostgreSQL clients query a DuckDB database over TCP. The wire
protocol is a library of its own, `pgwire`, built on asio (sockets, event loop) and promise-cpp
(chains of continuations). This directory holds TLA+ models of it, translated from the source, the
TLC configurations that check them on small instances, and proofs checked by TLAPS.

## 1. The system

```
 host program --load--> extension loader --thread--> pgwire::Server ---- asio acceptor
                              |                          | owns (map _sessions)
                              | ParseHandler             v
 DuckDB <---- duckdb_handler <---------------- pgwire::Session ---- io ---- asio socket -- client
                   | Writer, RowWriter                   | encode / decode
                   +-------------------------------------+---> messages, Buffer, type tables
```

Once started, a server lives on one thread: everything a session does happens in completion handlers
that `io_context::run` calls one after the other. The concurrency that is left is that of handlers:
each session has several promise chains, a write takes many handlers, and between two handlers
anything may happen to the connection.

| Component | State | Operations | Interactions | What is hard | What makes it correct |
|---|---|---|---|---|---|
| io (`io.hpp`, `io.cpp`) | none of its own; asio's queue of writes and posted handlers | `async_write`, `async_read_exact`, `set_promise` | called by Session and log; calls asio; settles promises | short writes, failures, the order of handlers, destruction of a socket with operations queued | each write goes out whole, or its promise is rejected; its bytes are released |
| Session (`session.cpp`) | `_startup_done`, socket, handler; implicitly, where its chains are | `start`, `do_read`, `read`, `read_startup`, `process_message`, `write` | called by Server; calls io, the ParseHandler and ExecHandler | a second, unawaited chain for errors; which `fail` takes which rejection; raw `this` in handlers; framing that depends on a flag | one read loop; answers whole, in order, one per request; no deadlock with the client; no use after destruction; the end reaches the server |
| Server (`server.cpp`) | `_sessions`, the id counter, one outstanding accept | `start`, `do_accept`, the `finally` of a session | asio acceptor; owns sessions | sessions that end in any order; errors of accept; running out of descriptors | every connection ends in one session that is kept until it is done; accepting never stops |
| DuckDB handler, Writer (`duckdb_pgwire_extension.cpp`, `writer.cpp`) | fields, rows and their count, the row being written | the ParseHandler, the ExecHandler, `add_row`, `write_*`, `~RowWriter` | called from `process_message`; calls DuckDB | two loops and three tables that must agree; rows written by destructors, also under exceptions | rows agree with their description; lengths frame them |
| Messages, Buffer, tables (`protocol.cpp`, `buffer.cpp`, `types.cpp`) | bytes and a read position | `encode` of each message, `decode` of the client's | called by Session | lengths and terminators computed apart from what they describe | a client reads back what was encoded; the server understands what was asked |
| Loader (`duckdb_pgwire_extension.cpp`) | `g_started`, the log's writer, the port | `LoadInternal`, `start_server` | threads of the host; creates log, Server | check and set of a flag in two steps; an exception that leaves a thread; the life of the database | one server; neither a load nor a query ends the host |
| log (`log.cpp`) | one global writer | `initialize`, `info`, `warning`, `error` | called from everywhere; calls io | the life of a line during its write | lines reach the file whole |
| utils, exceptions | none | `duration_string`, `string_format`, ... | called from everywhere | units | the text says the number |
| demo server (`main.cpp`) | as a Server | a handler of three constant columns | library, log on stderr | as above | as above |
| Go client, build files, tests | | | | | |

## 2. The modules

| Module | Models | Its state in the code |
|---|---|---|
| `Stream` | One connection under the program: asio's socket and handler queue, `io::async_write`, the client's end. Mostly external, modelled from how `io.hpp` uses asio. | `wq`: queued writes; `ready`: posted handlers; `sent`: history of the chunks the kernel took, each with the messages of its answer that were complete by then; `peer`: how the client left |
| `Session` | `session.cpp` on top of `Stream` (EXTENDS) | `startup_done` = `_startup_done`; `reader`: where the main chain is; `todo`: what its continuations still write; `registered`: the entry in `_sessions`; `stale`: a destroyed session was used |
| `SimpleQuery` | Abstract: what one connection promises a client that waits for its answers: the start-up, the refusal of SSL, rows or an error, each to its end | |
| `SessionLife` | Abstract: reading, then lost or done; all that the Server relies on | |
| `MCSession` | Constants of Session for TLC | |
| `SessionProofs`, `OrderProofs`, `ProtocolProofs` | Theorems about Session, each on top of the one before | |
| `Server` | `server.cpp`, with sessions reduced to their lives | `accept`, `accepted`: the outstanding accept; `_sessions`, `sess_id_counter`, `id` as in the code |
| `ServerProofs` | Theorems about Server | |
| `Service`, `MCService` | The one event loop of a server: two instances of `Session` and the acceptor | `posted`: the handlers of all of them in the order of the `io_context`'s queue; `arrived`, `accept`, `started`: the backlog and `do_accept` |
| `ServiceProofs` | Theorems about Service | |
| `Buffer` | `buffer.cpp`, `buffer.hpp`: bytes as cells, one for each `put_*` call (operators only) | |
| `Messages` | `encode` of all backend messages, and a client that reads them (operators only) | |
| `Requests` | `read` and `read_startup` with the `decode` methods of all frontend messages | `wire`: sent and not read; `length`, `body`, `pos`, `key`, `start` as in the code; `message`: the fields of the decoded message |
| `Rows` | `duckdb_handler` with `Writer` and `RowWriter` | `fields`, `num_rows`, `data`, `row`, `current_col` as in the code; `i`: the running loop |
| `Exchange`, `MCExchange` | One connection at the level of its bytes: `process_message` between `Requests`, `Rows` and `Messages` | `turn`: who has to act; `said`, `stream`: the answer, as messages and as bytes |
| `MessagesProofs` | Theorems about the operators of Buffer, Messages and Rows: what is encoded is read back | |
| `ExchangeProofs` | Theorems about Exchange: the request, the rows, the answer | |
| `Loader`, `LoaderProofs` | `LoadInternal`, `start_server`, by thread, and the queries of the one that serves | `pc`: where each thread is; `g_started`; `port`; `crowded`: history of overlapping loads |
| `Log`, `MCLog` | `log.cpp` and the `StreamWriter`: the way of a line into a file or a pipe | `writer`; `queued`, `posted`: its writes; `sink`: what was written, and whether it was the line |
| `Duration` | `duration_string` | |

An operator whose comment begins with `Fault:` is not part of a model. It is a broken form of the
operator behind it, of the same parameters, and is there to show that a property notices (section 3).

### Session in detail

`reader` names the place of the main chain: `hdr` and `body` (a read is outstanding), `posted` (its
handler is), `busy` (`process_message` has returned a pending promise), `lost` (the promise of `read()`
was rejected: `do_read` attaches nothing to it), `closed`. Each handler of the event loop is one
action: `HeaderRead`, `BodyRead` (decode, dispatch and the first write of the answer), `ReadFailed`,
`MainWritten` (the next message of the answer, or the next read), `WriteMore` (asio's own
continuation of a short write), `WriteAgain` (the retry of `io::async_write`), `ErrorWritten` and
`ErrorDone` (the error chain). What a handler posts or starts is part of the same action.

How a rejection travels is the heart of it. `Processed` says how `do_read` goes on: a SqlException
that is not Fatal starts the error chain and reads on, a Fatal one ends the session, and so does a
rejection with anything else. `QueryChain` is the `fail` in the middle of `process_message`, which
takes every SqlException of the ExecHandler. An exception of the ParseHandler that is not a
SqlException leaves `process_message` and rejects `read()`'s promise (`Abandon`).

A write is an abstract message of one or more chunks. The kernel takes chunks while `unread < SndBuf`;
what does not fit waits in `wq`. As in asio's reactor, a chunk's completion is a posted handler, and
the next chunk queues behind whatever was queued meanwhile: that is how a message of the error chain
can get between two chunks of another message.

The client (`ClientSend`, `ClientRecv`, `ClientClose`, `ClientReset`) sends what the protocol allows at
its point of the conversation, plus a length below its minimum (`BadLength`), and may go away at any
time: orderly, in the middle of a message, or with a reset. With `Pipelining = FALSE` it waits for each
answer.

### How the modules compose

There are two views of a connection, and both are whole. `Session` (which extends `Stream`) has the
promise chains, the interleavings and the failures, and takes messages for atoms. `Exchange` has a
client that waits and a connection that does not fail, and takes nothing for an atom that is made of
bytes: `Requests` cuts and decodes what the client sent, `Rows` makes the answer, `Messages` encodes it, and the
client reads it by the rules of the protocol. The request kinds of `Session` are those that `Requests`
decodes; its outcomes of the two handlers are `Parse`, `ParseFails`, `Complete`, `ExecFails` and `ExecThrows` of
`Exchange`.

In `Buffer` a `put_*` call appends one cell: its number of bytes, its form, and what it holds. A reader has
the lengths only. Where it cuts in the middle of a cell it gets `Torn`, so that a wrong width, length or
terminator anywhere shows up as a message that is not the one that was meant.

`Server` does not contain sessions but their lives, and `Service` contains two whole ones. That a `Session`
implements `SessionLife` is checked (`ImplementsLife`) and proved, so `SessionDone` and `SessionLost` are all that
one session can do to a `Server`; that two of them and the acceptor on one event loop implement `Server`
is checked (`ImplementsServer`) and proved as well. A Session's own `ready` is its share of the event loop's queue; `Service` adds
the order of all shares, and runs the handler at its head. `Loader` ends where `Server` begins.

## 3. The runs

| Run | Bounds | Shows |
|---|---|---|
| `session_sync` | 4 requests of every kind, send buffer 2, messages of 0 to 2 chunks, one parameter, all outcomes of both handlers (a Fatal SqlException of the ExecHandler is taken like any other), no pipelining | `NoStaleUse`, `RepliesInOrder`: what a client that waits is sent comes in order, uncut, and from a live session |
| `session_pipelined` | 3 requests, the rest as above, pipelining | `TypeOK`, `OneActivity`, `ChainOwnsSession`, `FramingAgrees`, `ImplementsLife` |
| `session_live` | as `session_sync`, but no SqlException from an ExecHandler, and SqlExceptions only from a ParseHandler | `ImplementsProtocol`: each request of a client that waits gets one whole answer, message by message, or the connection ends; `NoMutualWait`, `ProcessingEnds`, `TerminateReleases` |
| `session_swallow` | 2 requests; the ExecHandler may throw a SqlException | `NoMutualWait` is violated |
| `session_order` | 3 requests, pipelining | `RepliesInOrder` is violated |
| `session_reset` | 2 requests | `BytesReleased` is violated |
| `server` | 6 connections, 3 descriptors | `TypeOK`, `RegisteredUntilDone`, `NoConnectionDropped`, `EachIsAccepted` |
| `service` | two sessions of 2 requests, one with start-up, query and Terminate, one without queries; send buffer 1 | `TypeOK`, `ServesBeside`, `EachIsStarted`, `ImplementsServer` |
| `exchange` | 4 requests; packets of up to 3 parameters out of 3 names and 3 values, one of them a name; up to 3 columns of 4 types, 2 rows, values of 0 or 3 bytes; 16-bit counts scaled down to at most 2 | `TypeOK`, `ServerUnderstands`, `ReadsWithinBody`, `RowsMatchDescription`, `CountIsRows`, `ClientReadsAll` |
| `loader` | 3 databases | `HostSurvives` (unless loads overlapped, or the database that is served was closed), `ReturnsToAServer`, `FirstLoadServes` |
| `log` | 2 lines, one of them longer than a write of asio; a file, or a pipe with room for one write | `LinesKept` is violated |
| `duration` | 108 durations up to 26 hours | `RestSubtracted` is violated |

Why the bounds are enough. In `Session` a request reaches back at most to the one before it: its error
chain may still be under way. Four requests are a start-up, a failing query, a query beside its error
chain, and a Terminate or one more. A send buffer of 2 with messages of up to 2 chunks makes each write
go out at once, wait, or go out in part; 0 chunks are a result without rows, whose write completes
without touching the socket. In `Server`, 6 connections on 3 descriptors let the table fill up, ids run
beyond the descriptors, and sessions end in every order. In `Service` two requests are enough for a session to be processing, to wait
for room, to be closed, lost, or reset with a write queued, which then spins for the rest of the
behaviour; the other one does the same at any point of it. In `Exchange` an SSL request, a start-up, a query
and one more request follow each other; the four column types are one of each combination of the tables
`g_typemap` and the switch, with a number and a text among those that are in both; two rows let a good row
precede a bad one; texts have all different lengths, so that no two of them are confused by a length; and
three described columns are one more than the scaled 16 bits can count.

For each property of a passing run `PROJECT.json` names a fault of the code (an operator `Fault:`) that
makes the run fail with that property. They are the changes a maintainer might make: the error reply put
on the main chain, a write that waits for its socket also when it is empty, a retry that the handler of the
failed write makes itself, keeping the event loop, a Fatal error that is told to the client first, the
`fail` of a query that takes everything, `_startup_done` set after an SSL request, ids taken from the size of the map, a RowWriter
destroyed twice, the commented-out line of `g_typemap` put back, a length that does not count itself, an
accept that is not armed again.

Five properties are stated for less than every client and every outcome, because the code gives no more.
`ImplementsProtocol` leaves out the SqlException of an ExecHandler: an answer that stops behind the
RowDescription is none of `SimpleQuery`'s, and a session that gives one does not implement it (what a client
makes of it is `session_swallow`). The Fault `QueryChainTakesAll` stops an answer there, and the run fails.
`NoStaleUse` is checked for a client that waits: one that sends Terminate behind a query that fails to
parse ends the session while its error chain still writes, and that chain's handler then uses the
destroyed session through its raw `this` (`session.cpp:58`). `NoMutualWait` is checked without two outcomes: a
SqlException of the ExecHandler (`session_swallow`), and a ParseHandler that throws something else, as the
`Connection` made outside of its `try` (`duckdb_pgwire_extension.cpp:42`) may: the read loop is dropped with
the connection open, and the client waits for an answer. `ClientReadsAll` is stated for columns that
can be counted in 16 bits, since both counts are narrowed (`writer.cpp:45`, `protocol.cpp:71`) and nothing
looks. `HostSurvives` leaves out two histories: loads that overlap, of which the second to bind the port
ends the host, and closing the database that is served: the server's thread holds a plain reference, and
the next query may do anything.

Deadlock is not checked as such: a client that has said all it may say, or left, ends a behaviour.
The deadlock that matters, client and server waiting for each other, is `NoMutualWait`.

### What the failing runs show

* `session_swallow`: start-up, Query; the RowDescription is sent, `Execute` throws, `session.cpp:121` logs
  and resolves. Neither an ErrorResponse nor a ReadyForQuery follows. DuckDB reports division by zero,
  failed casts and constraint violations at execution, so with `psql` this is a hang.
* `session_order`: with a client that sends two queries without waiting, the first failing to parse, the
  ReadyForQuery of the first follows the RowDescription of the second. The error chain (58-60) is not
  awaited before line 61 reads on. `session_sync` shows that a client that waits is safe, because it
  does not ask again before it has seen that ReadyForQuery.
* `session_reset`: the connection is reset with a write queued. `io::async_write` looks at the count of
  bytes and not at the error, and retries; the retry fails too. The event loop spins, the `finally` of
  `Session::write` (237) never runs.
* `log`: a query of more than 64 KiB is logged (`session.cpp:96`); the first 64 KiB are written when `log()` is
  called, the rest from a handler, when the string that held the line is gone (`log.cpp:56`). On a pipe
  that is full the first part is late as well.
* `duration`: 1.001 s is shown as `1s1000ms` (`utils.cpp:94` against its comment at 92).

## 4. Fairness

* `Session`: `WF(EventLoop)`, since `io_context::run` (`server.cpp:50`) calls posted handlers as long as there
  are any; `WF(Kernel)`, since the kernel reports what a descriptor is ready for and takes data it has room
  for; `WF(ClientRecv)`, a client that stays reads its answers. Nothing is assumed of what the client
  sends, whether it leaves, or which outcome a handler has.
* `Server`: the kernel completes the accept, the event loop runs its handler. No client has to connect and
  no session to end; that is why `EachIsAccepted` has a premise about descriptors. A lost session keeps its
  descriptor for ever, so with enough of them the premise fails: in the code that is a server that
  accepts no one and spins in `do_accept`.
* `Service`: there is one thread, so only one fairness condition for all handlers, `WF(run)`; which handler
  runs is decided by the queue. `WF(KernelA)` and `WF(KernelB)` hold also while handlers are posted without
  end: asio's scheduler keeps a marker in the same queue and polls the reactor when it comes up. Handlers
  end: how long DuckDB computes inside of one is not part of the model.
* `Loader`: each thread is scheduled. Neither loads, closes nor queries have to happen.

## 5. What is proved

All theorems hold for every value of the constants: any number of requests, sizes, parameters, databases.

* `SessionProofs!TypeCorrect`: `Spec => []TypeOK`. Not only shapes: queued writes have something left to
  send (an empty write never waits), and what the client has not read fits the buffer. One lemma per
  operator of `Stream` and per action.
* `SessionProofs`: `OneActivityHolds` and `ChainOwnsSessionHolds`. The inductive invariant is
  `ChainInv == TypeOK /\ OneActivity /\ ChainOwnsSession`. Neither conjunct is inductive alone. A handler of
  a destroyed session drops its chain and leaves `reader` where it was, so one-activity needs that no
  handler of the main chain is such a handler; that is ownership. Ownership in turn is broken by a chain
  that ends while another of its handlers is posted, which one-activity excludes. The proof sees a chain
  as being nowhere, at a read or at a write, of a queue and a list of handlers; a lemma says for each
  operator of `Stream` how that changes, and each action is then two or three citations.
* `SessionProofs!SessionImplementsLife`: `Spec => ImplementsLife`. From `ChainInv`: a session that is lost or
  closed has no handler of its chain left, and only such a handler moves `reader`.
* `SessionProofs!FramingAgreesHolds`: `_startup_done` lags behind the client, which may send tagged messages
  while its start-up packet is still on its way. The invariant `FrameInv` follows the packet: either it
  has begun to be processed (`Begun`), or it is among the requests in flight, with nothing tagged before
  it and nothing untagged behind it; and what the client may send next agrees with that. It is inductive
  relative to `ChainInv`, which is what makes the handler that runs the one that was read for.
* `OrderProofs`: `NoStaleUseHolds`, `RepliesInOrderHolds`, for a client that waits (`~Pipelining`). Nothing in the
  code waits for the error chain: `do_read` reads on while it writes. That it is over before the next
  request is read is the client's doing, and the invariant has to carry that from end to end. `OrderInv`
  says that one write at most is under way (`Writing`: queued, or in a posted handler that will go on with
  it); that it belongs to the request read last, and has left what the last chunk left of it (`Current`);
  that it is the main chain's while that is busy, and else the error chain's (`Belongs`); that nothing is
  under way when a request has begun to be read (`Reading`); and that a request which is owed an answer is
  the last one the client sent, until its answer is in the kernel's hands (`Asked`, `Sealed`). Orders of
  chunks and the absence of a write to a closed session follow. None of its parts is inductive alone.
  Without the hypothesis `RepliesInOrder` is false: `session_order`.
* `OrderProofs!NoMutualWaitHolds`: for a client that waits, when the ParseHandler throws SqlExceptions only and the
  ExecHandler none, the outcomes that `session_live` checks too. `WaitInv` adds that the client waits for a request that
  is owed an answer, that it sent something behind one only when it had the answer, and that a session is lost only when
  its client has gone or sent a bad length, which is owed nothing. The hypotheses name the two ways in which the code leaves
  a client without its answer: a SqlException of the ExecHandler is swallowed (`session_swallow`), and another
  exception of the ParseHandler rejects `read()` with nothing attached to it (`Abandon`).
* `ProtocolProofs!SessionImplementsProtocol`: `Spec => ImplementsProtocol` for a client that waits, with all outcomes
  of the ParseHandler, and an ExecHandler that throws no SqlException. `SayInv` follows the one write under way: what the session has said of this answer, what is left of the
  write, and what its chain still holds (`todo`, or the `Z` behind an `E`) make an answer that `SimpleQuery` allows,
  or the RowDescription of a query, behind which the statement is executed: the rest of the answer follows, or the
  connection ends. There the hypothesis is needed: with a SqlException the chain goes on to the next request.
  So the write that comes to its end with nothing behind it has completed one. Each action of `Session` is then a
  stutter, the next message, the end of an answer, the taking of a request, or the end of the connection.
* `ServerProofs`: `ServerTypeCorrect`, `RegisteredUntilDoneHolds`, `NoConnectionDroppedHolds`. The type invariant
  bounds ids and connections apart from each other, so it is not inductive. `ServerInv` is one count:
  connections leave the listen queue in the order they came in, so the n-th to be accepted gets the id n;
  those up to `sess_id_counter` have a session, then comes the one that was just accepted, and the listen
  queue goes on from there. An id that is never given twice finds no entry in the map when it is put in,
  and its own when it is erased, and so no session is let go of for another. Ids are taken as unbounded.
* `ServiceProofs`: a step of `Service` is one of a `Session` or leaves it alone, by the way `Service` is put together (the
  lemma `SessionsOfService`), so that what is proved of `Session` can be cited for either session.
  The modules above are instantiated with the variables of either (`PA`, `PB`) and their theorems cited, for `SessionsKeepOrder`, for `ServiceTypeCorrect`, and for the steps of the refinement,
  `ServiceImplementsServer`. `ServiceInv` is what holds between them: the accept that is outstanding is posted once or
  not at all (`AcceptsOnce`), which is why the handler that finds a connection finds one without a session; nobody
  connects twice (`ArrivedOnce`), so a place in `arrived` can be an id; and nothing runs of a session that was not
  started (`NotStarted`), so that it is put into the map reading and registered.
* `MessagesProofs!ReadAll`, and lemmas for each message (`SaysFailure`, `SaysDescription`, `SaysRow`, ...): what `encode`
  makes of any number of messages, a client that knows nothing but the lengths reads back. The encodings and
  the readers are recursive functions, and the library's induction theorems take an operator for the
  statement, which the installed provers cannot instantiate. `Induction` states it of a set instead, from the library's
  theorem that the finite subsets of a set are well ordered by inclusion. By it a recursive function has a value to speak
  of (`Recursion` from the left, `BackRecursion` from the right), and its value is known part by part.
  The client's side rests on `EndsOnce`: no cell is empty (`Cells`), so no two prefixes of a buffer are of the same size,
  and who cuts at the size of the first part gets exactly that part. A cell that could be empty, or a length
  that left out one, would break it. Sizes of texts and values, and the digits of the count of rows, are arbitrary.
* `ExchangeProofs`: `TypeOKHolds`, `ServerUnderstandsHolds`, `ReadsWithinBodyHolds`, `RowsMatchDescriptionHolds`, `CountIsRowsHolds`,
  `ClientReadsAllHolds`, that is, every invariant of the run `exchange`. The inductive invariant is
  `ConnectionInv`, in four parts.
  - `RequestInv` goes with the request through its phases. Between two texts of a start-up packet it says where `start`
    stands (behind the first n parameters, or behind one more name), that `key` is that name, and that the
    fields hold what the n parameters gave last for them (`Latest`); `StartupTexts` says what text is found there. Neither
    part is inductive alone: where the next text ends is known only from which one it is.
  - `ExchangeInv` is about the rows. The fields of the description and the values
    of a row come from two loops that never meet. `RowsInv` says that some `g` names the column behind each
    field, growing, and leaving out no column with an Oid; when the second loop has `i` columns behind it, the
    row has the values of exactly the fields k with `g[k] <= i`. So the next value stands where the field of
    its column does, and a lemma on the tables (`TablesAgree`: every type in `g_typemap` has a case in the switch, with
    the method its Oid calls for) makes it of the right type. `Exchange` adds that no statement is left over when
    a request is processed (`Idle`).
  - `FetchInv` says that the messages in the writer are those of the values that were fetched, row by row.
  - `AnswerInv` says that the bytes so far are the messages so far (`SaysAll`), but for the single byte that
    answers an SSL request. It needs the first part to know what is answered, the second for the count of
    columns that frames each row, and the third for the rows.

  `ClientReadsAll` is a statement about columns that can be counted in 16 bits; the theorem has the same
  hypothesis, which the run's larger results show to be needed.
* `LoaderProofs!ReturnsToAServerHolds`: by `StartedIsClaimed`, that `g_started` means that some thread is past
  setting it, and that such a thread stays there.
* `LoaderProofs!CalmHostSurvives`: under `Calm` (the port is free, the log opens), unless loads ever
  overlapped (`crowded`) or the database that is served was closed (`Orphaned`), by `OneDecides`: one thread at
  most between check and set, it found `g_started` unset and it still is; so one thread at most gets to
  the port. `Orphaned` is never undone (`OrphanedStays`), and a query brings the host down in no other case.

Assumptions are the `ASSUME`s of the modules, which fix the types of the constants, and that an empty
message can only be a batch of rows (`SessionAssumption`: every other message has a tag), and that no name of a start-up
packet is empty (`RequestsAssumption`: an empty name ends the packet; `NoKey` stands for the `nullopt` that is no text).

`~Pipelining` is the client's promise and not the code's, and what the handlers throw is for DuckDB to say; both are
assumptions of the theorems that name them, and of no other.

Every safety property that a passing run checks is proved. Only model-checked is what needs fairness
(`ProcessingEnds`, `TerminateReleases`, `EachIsAccepted`, `FirstLoadServes`, `ServesBeside`, `EachIsStarted`), which is out of
the prover's reach. `Log` and `Duration` have a failing run each, and nothing to prove.

## 6. What is not modelled

* TLS and the extended query protocol: the server answers `N` and has no handler for them. A GSSENCRequest
  and a CancelRequest, which `StartupMessage::decode` takes for start-up packets.
* The binary format of values: `Writer`'s default is text and no caller changes it. The digits of numbers,
  and with them the 256 bytes that `sprintf` gets for a double (`writer.cpp:18`).
* Undersized bodies: a start-up packet of fewer than four bytes, a query without its NUL.
* The log's layout of a line, its end with the program, and a log file that takes no more data (which
  `io::async_write` retries for ever, as in `session_reset`).
* Running out of descriptors in `Service` (it is in `Server`), and more than two sessions there.
* DuckDB itself: a query is prepared or not, executed or not, values are fetched or not, in finite time.
  Whether a statement is bound anew when the catalog changed before `Execute` is not known here.
* Go client, build files; the tests under `test/sql`, `test/nodejs` and `test/python` call a function
  `duckdb_pgwire` that the extension does not define.

## 7. What could follow

The models cover the program, and the safety properties of all of them are proved. What could still be
asked:

1. `Service` with a `Server` that runs out of descriptors, which its mapping excludes by having three.
2. A composition of `Session` and `Exchange` in one module, so that the error chain of a client that does not wait
   cuts messages byte by byte; today the one has the chains and the other the bytes.
