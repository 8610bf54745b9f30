------------------------------- MODULE Stream -------------------------------
(***************************************************************************)
(* One TCP connection as the server program sees it: the asio socket of a  *)
(* Session, the io_context that runs its completion handlers, and the two  *)
(* promise wrappers io::async_write and io::async_read_exact.              *)
(*                                                                         *)
(* What is said here of asio is what its reactor does with one descriptor: *)
(*   - a write goes out at once when nothing is queued before it and the   *)
(*     kernel has room, otherwise it joins the descriptor's write queue;   *)
(*   - one write_some moves one chunk, and the composed operation issues   *)
(*     the next one from its own handler, BEHIND whatever was queued in    *)
(*     the meantime;                                                       *)
(*   - a finished operation posts its handler to the io_context, which     *)
(*     runs the posted handlers one at a time, first come first served.    *)
(*                                                                         *)
(* A message is abstracted to its tag, the request it answers and the      *)
(* number of chunks it takes; a request to its kind.                       *)
(***************************************************************************)
EXTENDS Naturals, Sequences

CONSTANTS
    SndBuf      \* chunks the kernel accepts before the client must read some

ASSUME SndBufAssumption == SndBuf \in Nat \ {0}

\* The request kinds a client may send (session.cpp, FrontendTag).
Hello == {"SSLRequest", "Startup"}
Kinds == Hello \cup {"Query", "Terminate", "Other", "BadLength"}

\* The messages of the server, by BackendTag; "N" is the SSL answer.
Tags == {"N", "R", "S", "Z", "T", "D", "C", "E"}

\* One pending write: the promise chain that waits for it (see Session), the
\* request it belongs to, its tag and the chunks that are still to be sent.
Writes == [chain : {"main", "error"}, req : Nat, tag : Tags, left : Nat]

\* A queued write has something left to send.
Pending == {w \in Writes : w.left > 0}

NoWrite == [chain |-> "error", req |-> 0, tag |-> "N", left |-> 0]

\* A posted completion handler: of a header read, a body read or a write.
Handlers == [op : {"hdr", "body", "write"}, res : {"done", "failed"}, write : Writes]

\* What the kernel was given, chunk by chunk, what then was left to send, and
\* the messages of the same answer that were complete by then.
Chunks == [req : Nat, tag : Tags, left : Nat, said : Seq(Tags)]

VARIABLES
    peer,       \* the client's end: "open", "closed", "cut" or "reset"
    inbound,    \* requests sent by the client and not yet read by the session
    wq,         \* the socket's queue of write operations
    ready,      \* handlers posted to the io_context, oldest first
    sent,       \* history of the chunks the kernel accepted
    unread      \* how many of the last chunks the client has not read

streamVars == <<peer, inbound, wq, ready, sent, unread>>

StreamTypeOK ==
    /\ peer \in {"open", "closed", "cut", "reset"}
    /\ inbound \in Seq(Kinds)
    /\ wq \in Seq(Pending)
    /\ ready \in Seq(Handlers)
    /\ sent \in Seq(Chunks)
    /\ unread \in 0..SndBuf

StreamInit ==
    /\ peer = "open"
    /\ inbound = <<>>
    /\ wq = <<>>
    /\ ready = <<>>
    /\ sent = <<>>
    /\ unread = 0

-----------------------------------------------------------------------------
(***************************************************************************)
(* Handlers and the posting of handlers                                    *)
(***************************************************************************)
ReadHandler(op, res) == [op |-> op, res |-> res, write |-> NoWrite]
WriteHandler(w, res) == [op |-> "write", res |-> res, write |-> w]

\* The messages of the answer to request r that the kernel was given, as long
\* as it is the last one that was begun.
Said(r) == IF sent # <<>> /\ sent[Len(sent)].req = r THEN sent[Len(sent)].said ELSE <<>>

SaidWith(w) == IF w.left = 1 THEN Append(Said(w.req), w.tag) ELSE Said(w.req)

\* The kernel takes the next chunk of w; its handler goes behind the posted ones.
Transfer(w, posted) ==
    /\ sent' = Append(sent, [req |-> w.req, tag |-> w.tag, left |-> w.left - 1,
                             said |-> SaidWith(w)])
    /\ unread' = unread + 1
    /\ ready' = Append(posted, WriteHandler([w EXCEPT !.left = @ - 1], "done"))

HasRoom == peer # "reset" /\ unread < SndBuf

\* Fault: io::async_write waits for the socket before every write, so that an
\* empty batch of rows waits for room it does not need.
async_writeWhenWritable(w, posted) ==
    /\ wq' = Append(wq, w)
    /\ ready' = posted
    /\ UNCHANGED <<sent, unread>>

\* asio::async_write as io::async_write calls it: start (or go on with) the
\* write w, the handlers `posted` being the ones that run before its own.
\* An empty buffer touches neither the socket nor its queue.
async_write(w, posted) ==
    \/ /\ w.left = 0
       /\ ready' = Append(posted, WriteHandler(w, "done"))
       /\ UNCHANGED <<wq, sent, unread>>
    \/ /\ w.left > 0
       /\ wq = <<>> /\ HasRoom
       /\ Transfer(w, posted)
       /\ UNCHANGED wq
    \/ /\ w.left > 0
       /\ ~(wq = <<>> /\ HasRoom)
       /\ wq' = Append(wq, w)
       /\ ready' = posted
       /\ UNCHANGED <<sent, unread>>

\* The socket is destroyed: every queued operation completes with
\* operation_aborted, behind the handlers `posted`.
CloseSocket(posted) ==
    /\ wq' = <<>>
    /\ ready' = posted \o [i \in 1..Len(wq) |-> WriteHandler(wq[i], "failed")]
    /\ UNCHANGED <<sent, unread>>

-----------------------------------------------------------------------------
(***************************************************************************)
(* Steps of the kernel                                                     *)
(***************************************************************************)
\* The descriptor turns writable: the oldest operation moves one chunk.
SocketWritable ==
    /\ wq # <<>> /\ HasRoom
    /\ Transfer(Head(wq), ready)
    /\ wq' = Tail(wq)
    /\ UNCHANGED <<peer, inbound>>

\* The connection was reset: the oldest operation fails with nothing moved.
SocketBroken ==
    /\ wq # <<>> /\ peer = "reset"
    /\ ready' = Append(ready, WriteHandler(Head(wq), "failed"))
    /\ wq' = Tail(wq)
    /\ UNCHANGED <<peer, inbound, sent, unread>>

(***************************************************************************)
(* Steps of the client's end                                               *)
(***************************************************************************)
ClientRecv ==
    /\ peer = "open" /\ unread > 0
    /\ unread' = unread - 1
    /\ UNCHANGED <<peer, inbound, wq, ready, sent>>

\* The client goes away: after its last request, or ("cut") in the middle of
\* it. What it sent before still arrives.
ClientClose ==
    /\ peer = "open"
    /\ \/ peer' = "closed"
       \/ inbound # <<>> /\ peer' = "cut"
    /\ UNCHANGED <<inbound, wq, ready, sent, unread>>

\* The connection is reset: requests still in flight may be lost.
ClientReset ==
    /\ peer # "reset"
    /\ peer' = "reset"
    /\ \E n \in 0..Len(inbound) : inbound' = SubSeq(inbound, 1, n)
    /\ UNCHANGED <<wq, ready, sent, unread>>
=============================================================================
