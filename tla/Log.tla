-------------------------------- MODULE Log ---------------------------------
(***************************************************************************)
(* log.cpp, and the StreamWriter of io.cpp: how a line of the log gets to  *)
(* its file (the extension) or to a pipe on stderr (the demo server).      *)
(*                                                                         *)
(* log() builds the line as a temporary std::string and hands its address  *)
(* to io::async_write, which returns as soon as the write is under way.    *)
(* The event loop's handlers log while they run, one handler at a time, so *)
(* that the whole of a call of log() is one step here; the temporary ends  *)
(* with it.  asio writes at most 64 KiB at once: the first such chunk when *)
(* it is called, if the descriptor takes it, and each of the others from   *)
(* the handler of the one before.  A regular file takes every chunk.       *)
(*                                                                         *)
(* A line may be long: it holds the text of a query.                       *)
(***************************************************************************)
EXTENDS Naturals, Sequences

CONSTANTS
    Lines,      \* the lines the program logs, each of them once
    ChunksOf,   \* a line: its length in chunks of 64 KiB, one at least
    PipeRoom    \* the chunks that fit into a pipe

VARIABLES
    writer,     \* "none", or what its descriptor is: "file" or "pipe"
    logged,     \* the lines logged so far
    queued,     \* the writes that wait for room in the pipe: [line, chunk]
    posted,     \* the handlers of writes that were done: [line, chunk]
    sink,       \* what was written: [line, chunk, kept: is it the line's text?]
    drained     \* the chunks a reader of the pipe has taken

vars == <<writer, logged, queued, posted, sink, drained>>

Init ==
    /\ writer = "none"
    /\ logged = {}
    /\ queued = <<>> /\ posted = <<>>
    /\ sink = <<>> /\ drained = 0

\* initialize: without the name of a file the writer is on stderr.
initialize(kind) ==
    /\ writer = "none"
    /\ writer' = kind
    /\ UNCHANGED <<logged, queued, posted, sink, drained>>

-----------------------------------------------------------------------------
HasRoom == writer = "file" \/ Len(sink) - drained < PipeRoom

\* A chunk of l leaves the memory it was handed in.  Once that was freed, it is
\* anybody's guess what it holds.
Transfer(l, n, alive) ==
    \E kept \in IF alive THEN {TRUE} ELSE BOOLEAN :
        sink' = Append(sink, [line |-> l, chunk |-> n, kept |-> kept])

\* async_write_some: at once if nothing waits and there is room.  handlers are
\* the ones that are posted already.
WriteSome(l, n, alive, handlers) ==
    \/ /\ queued = <<>> /\ HasRoom
       /\ Transfer(l, n, alive)
       /\ posted' = Append(handlers, [line |-> l, chunk |-> n])
       /\ UNCHANGED queued
    \/ /\ ~(queued = <<>> /\ HasRoom)
       /\ queued' = Append(queued, [line |-> l, chunk |-> n])
       /\ posted' = handlers
       /\ UNCHANGED sink

\* log, by way of info, warning or error.  Without a writer nothing is done.
log(l) ==
    /\ l \notin logged
    /\ logged' = logged \cup {l}
    /\ \/ writer = "none" /\ UNCHANGED <<queued, posted, sink>>
       \/ writer # "none" /\ WriteSome(l, 1, TRUE, posted)
    /\ UNCHANGED <<writer, drained>>

\* The handler of a chunk: the next one, or the promise of the line is resolved,
\* which nobody waits for.
Written ==
    /\ posted # <<>>
    /\ LET w == Head(posted) IN
       IF w.chunk = ChunksOf[w.line]
       THEN posted' = Tail(posted) /\ UNCHANGED <<queued, sink>>
       ELSE WriteSome(w.line, w.chunk + 1, FALSE, Tail(posted))
    /\ UNCHANGED <<writer, logged, drained>>

\* The pipe takes on a chunk that had to wait.
PipeWritable ==
    /\ queued # <<>> /\ HasRoom
    /\ LET w == Head(queued) IN
           Transfer(w.line, w.chunk, FALSE) /\ posted' = Append(posted, w)
    /\ queued' = Tail(queued)
    /\ UNCHANGED <<writer, logged, drained>>

PipeDrains ==
    /\ writer = "pipe" /\ drained < Len(sink)
    /\ drained' = drained + 1
    /\ UNCHANGED <<writer, logged, queued, posted, sink>>

Next ==
    \/ \E kind \in {"file", "pipe"} : initialize(kind)
    \/ \E l \in Lines : log(l)
    \/ Written \/ PipeWritable \/ PipeDrains

Spec == Init /\ [][Next]_vars

-----------------------------------------------------------------------------
(***************************************************************************)
(* Property                                                                *)
(***************************************************************************)
\* What is written to the log is what was logged: a line outlives its write, as
\* session.cpp 233 has it for the bytes of Session::write.
LinesKept == \A n \in DOMAIN sink : sink[n].kept
=============================================================================
