----------------------------- MODULE OrderProofs -----------------------------
(***************************************************************************)
(* The order of the answers, for a client that waits for them.             *)
(*                                                                         *)
(* The code reads on while the error chain is still writing; that its      *)
(* answers keep their order, that no message is cut in two and that no     *)
(* handler meets a destroyed session rests on the client's waiting alone.  *)
(* The invariant says so in three parts: at most one write is under way    *)
(* (Writing), it belongs to the request read last (Current), and while it  *)
(* is under way the client has sent nothing behind that request (Asked).   *)
(***************************************************************************)
EXTENDS SessionProofs

\* The requests that are owed an answer, and the messages that end one.
Owed == Hello \cup {"Query"}
Final == {"Z", "N"}

\* The answer to request r is in the kernel's hands.
Sealed(r) == \E i \in DOMAIN sent : sent[i].req = r /\ sent[i].left = 0 /\ sent[i].tag \in Final

\* A posted handler whose write goes on, or after which another one starts.
Live(h) ==
    /\ h.op = "write"
    /\ h.write.chain = "main" \/ h.write.left > 0 \/ h.write.tag = "E" \/ h.res = "failed"

\* No write is under way in the queue q and the posted handlers h.
Quiet(q, h) == q = <<>> /\ \A j \in DOMAIN h : ~Live(h[j])

\* The only write under way is w.
Only(q, h, w) ==
    \/ Len(q) = 1 /\ Head(q) = w /\ \A j \in DOMAIN h : ~Live(h[j])
    \/ /\ q = <<>>
       /\ \E j \in DOMAIN h :
              Live(h[j]) /\ h[j].write = w /\ \A l \in DOMAIN h : Live(h[l]) => l = j

\* The last message is not complete in the kernel's hands.
Cut == Len(sent) > 0 /\ sent[Len(sent)].left > 0

\* A write w of the request read last: what is missing of the last message is
\* what w has left, and it is the end of the answer if that has been sent.
Current(w) ==
    /\ w.req = req /\ req > 0 /\ kind \in Owed
    /\ Cut => /\ sent[Len(sent)].req = w.req
              /\ sent[Len(sent)].tag = w.tag
              /\ sent[Len(sent)].left = w.left
    /\ Sealed(req) <=> w.left = 0 /\ w.tag \in Final

\* What process_message writes behind a message tagged t.
Ahead(t, rest) ==
    IF t \in {"N", "Z", "T"} THEN rest = <<>>
    ELSE /\ rest # <<>> /\ rest[Len(rest)] = "Z"
         /\ \A i \in 1..Len(rest) - 1 : rest[i] \in {"S", "D", "C"}

\* Whose write w is: the main chain's, or, when that reads on, the error chain's.
Belongs(w) ==
    IF reader = "busy" THEN w.chain = "main" /\ Ahead(w.tag, todo)
    ELSE reader # "closed" /\ w.chain = "error" /\ w.tag \in {"E", "Z"}

\* The request read last, if it is owed an answer, has it.  (A SqlException of
\* the ExecHandler is swallowed, and nothing is known then.)
Over ==
    ExecOutcomes \subseteq {"ok", "exn"} /\ req > 0 /\ kind \in Owed => Sealed(req)

Writing ==
    \/ /\ Quiet(wq, ready) /\ ~Cut /\ reader # "busy"
       /\ reader = "hdr" => Over
    \/ \E w \in Writes :
           /\ Only(wq, ready, w) /\ Current(w) /\ Belongs(w)
           /\ reader # "busy" => ~Sealed(req)

\* The request that was begun to be read is answered by nothing yet.
Reading ==
    \/ reader = "body"
    \/ /\ reader = "posted"
       /\ \E j \in DOMAIN ready :
              ready[j].op = "body" \/ (ready[j].op = "hdr" /\ ready[j].res = "done")
    => Quiet(wq, ready) /\ req > 0 /\ \A i \in DOMAIN sent : sent[i].req < req

Ordered == RepliesInOrder /\ \A i \in DOMAIN sent : sent[i].req <= req

\* The requests the client has sent: those read and those in flight.
Wire ==
    /\ req + Len(inbound) <= asked
    /\ peer = "open" => req + Len(inbound) = asked
    /\ waiting <= asked

\* A request that is owed an answer is the last one the client has sent.
Asked ==
    /\ kind \in Owed /\ req > 0 /\ ~Sealed(req) => waiting = req /\ asked = req
    /\ \A k \in DOMAIN inbound :
           inbound[k] \in Owed => waiting = req + k /\ asked = req + k

OrderInv == ~stale /\ Writing /\ Reading /\ Ordered /\ Wire /\ Asked

-----------------------------------------------------------------------------
(***************************************************************************)
(* Writes under way when handlers are taken and posted                     *)
(***************************************************************************)
LEMMA NotBoth ==
  ASSUME NEW q, NEW h, NEW w, Only(q, h, w)
  PROVE  ~Quiet(q, h)
  BY DEF Only, Quiet

LEMMA QuietTail ==
  ASSUME NEW q, NEW h \in Seq(Handlers), h # <<>>, Quiet(q, h)
  PROVE  Quiet(q, Tail(h)) /\ ~Live(Head(h))
  <1>1. 1 \in DOMAIN h /\ Head(h) = h[1]
    OBVIOUS
  <1> QED
    BY <1>1, ChainInTail DEF Quiet

\* The handler of the only write is run: nothing else is under way.
LEMMA TakeLive ==
  ASSUME NEW q, NEW h \in Seq(Handlers), h # <<>>, NEW w, Only(q, h, w), Live(Head(h))
  PROVE  w = Head(h).write /\ Quiet(q, Tail(h))
  <1>1. 1 \in DOMAIN h /\ Head(h) = h[1]
    OBVIOUS
  <1>2. /\ q = <<>> /\ h[1].write = w
        /\ \A l \in DOMAIN h : Live(h[l]) => l = 1
    BY <1>1 DEF Only
  <1>3. \A j \in DOMAIN Tail(h) : j + 1 # 1
    OBVIOUS
  <1>4. \A j \in DOMAIN Tail(h) : ~Live(Tail(h)[j])
    BY <1>2, <1>3, ChainInTail
  <1> QED
    BY <1>1, <1>2, <1>4 DEF Quiet

LEMMA TakeDead ==
  ASSUME NEW q, NEW h \in Seq(Handlers), h # <<>>, NEW w, Only(q, h, w), ~Live(Head(h))
  PROVE  Only(q, Tail(h), w)
  <1>1. 1 \in DOMAIN h /\ Head(h) = h[1]
    OBVIOUS
  <1>2. CASE Len(q) = 1 /\ Head(q) = w /\ \A j \in DOMAIN h : ~Live(h[j])
    BY <1>2, ChainInTail DEF Only
  <1>3. CASE q = <<>> /\ \E j \in DOMAIN h :
                 Live(h[j]) /\ h[j].write = w /\ \A l \in DOMAIN h : Live(h[l]) => l = j
    <2>1. PICK j \in DOMAIN h :
                 Live(h[j]) /\ h[j].write = w /\ \A l \in DOMAIN h : Live(h[l]) => l = j
      BY <1>3
    <2>2. j # 1
      BY <1>1, <2>1
    <2>3. j - 1 \in DOMAIN Tail(h) /\ Tail(h)[j - 1] = h[j]
      <3>1. j - 1 \in DOMAIN Tail(h) /\ (j - 1) + 1 = j
        BY <2>2, ChainInTail
      <3> QED
        BY <3>1, ChainInTail
    <2>4. \A l \in DOMAIN Tail(h) : Live(Tail(h)[l]) => l = j - 1
      <3>1. \A l \in DOMAIN Tail(h) : Live(Tail(h)[l]) => l + 1 = j
        BY <2>1, ChainInTail
      <3>2. \A l \in DOMAIN Tail(h) : l + 1 = j => l = j - 1
        OBVIOUS
      <3> QED
        BY <3>1, <3>2
    <2> QED
      BY <1>3, <2>1, <2>3, <2>4 DEF Only
  <1> QED
    BY <1>2, <1>3 DEF Only

LEMMA PostLive ==
  ASSUME NEW h \in Seq(Handlers), NEW x \in Handlers, Quiet(<<>>, h), Live(x)
  PROVE  Only(<<>>, Append(h, x), x.write)
  <1>1. /\ Len(h) + 1 \in DOMAIN Append(h, x)
        /\ Append(h, x)[Len(h) + 1] = x
    OBVIOUS
  <1>2. \A l \in DOMAIN Append(h, x) :
            l = Len(h) + 1 \/ (l \in DOMAIN h /\ Append(h, x)[l] = h[l])
    OBVIOUS
  <1> QED
    BY <1>1, <1>2 DEF Only, Quiet

LEMMA PostDead ==
  ASSUME NEW q, NEW h \in Seq(Handlers), NEW x \in Handlers, ~Live(x)
  PROVE  /\ Quiet(q, h) => Quiet(q, Append(h, x))
         /\ \A w : Only(q, h, w) => Only(q, Append(h, x), w)
  <1>1. \A l \in DOMAIN Append(h, x) :
            \/ Append(h, x)[l] = x
            \/ l \in DOMAIN h /\ Append(h, x)[l] = h[l]
    OBVIOUS
  <1>2. \A l \in DOMAIN h : l \in DOMAIN Append(h, x) /\ Append(h, x)[l] = h[l]
    OBVIOUS
  <1>3. Quiet(q, h) => Quiet(q, Append(h, x))
    BY <1>1 DEF Quiet
  <1>4. ASSUME NEW w, Only(q, h, w)
        PROVE  Only(q, Append(h, x), w)
    <2>1. CASE Len(q) = 1 /\ Head(q) = w /\ \A j \in DOMAIN h : ~Live(h[j])
      BY <1>1, <2>1 DEF Only
    <2>2. CASE q = <<>> /\ \E j \in DOMAIN h :
                   Live(h[j]) /\ h[j].write = w /\ \A l \in DOMAIN h : Live(h[l]) => l = j
      <3>1. PICK j \in DOMAIN h :
                   Live(h[j]) /\ h[j].write = w /\ \A l \in DOMAIN h : Live(h[l]) => l = j
        BY <2>2
      <3>2. Live(Append(h, x)[j]) /\ Append(h, x)[j].write = w /\ j \in DOMAIN Append(h, x)
        BY <1>2, <3>1
      <3>3. \A l \in DOMAIN Append(h, x) : Live(Append(h, x)[l]) => l = j
        <4>1. \A l \in DOMAIN Append(h, x) :
                  Append(h, x)[l] = x \/ (l \in DOMAIN h /\ Append(h, x)[l] = h[l])
          BY <1>1
        <4> QED
          BY <3>1, <4>1
      <3> QED
        BY <2>2, <3>2, <3>3 DEF Only
    <2> QED
      BY <1>4, <2>1, <2>2 DEF Only
  <1> QED
    BY <1>3, <1>4

\* The queued write is taken out of the queue.
LEMMA TakeQueued ==
  ASSUME NEW q \in Seq(Writes), q # <<>>, NEW h, NEW w, Only(q, h, w)
  PROVE  Head(q) = w /\ Tail(q) = <<>> /\ Quiet(<<>>, h)
  <1>1. Len(q) = 1 /\ Head(q) = w /\ \A j \in DOMAIN h : ~Live(h[j])
    BY DEF Only
  <1>2. Len(Tail(q)) = 0 /\ Tail(q) \in Seq(Writes)
    BY <1>1
  <1>3. Tail(q) = <<>>
    BY <1>2, EmptySeq
  <1> QED
    BY <1>1, <1>3 DEF Quiet

-----------------------------------------------------------------------------
(***************************************************************************)
(* The write under way moves on                                            *)
(***************************************************************************)
\* The write w has become v: nothing of it, or one chunk, went to the kernel.
MovesTo(w, v) ==
    \/ v.left = w.left /\ sent' = sent
    \/ /\ w.left > 0 /\ v.left = w.left - 1
       /\ \E c \in Chunks : c.req = w.req /\ c.said = SaidWith(w) /\ sent' = Append(sent, c)

\* A write whose chunk went out is the only one, or nothing comes after it.
LEMMA ChunkPosted ==
  ASSUME NEW posted \in Seq(Handlers), Quiet(<<>>, posted), NEW v \in Writes,
         ready' = Append(posted, WriteHandler(v, "done")), wq' = <<>>
  PROVE  IF v.chain = "main" \/ v.left > 0 \/ v.tag = "E"
         THEN Only(wq', ready', v) ELSE Quiet(wq', ready')
  <1> DEFINE x == WriteHandler(v, "done")
  <1>1. x \in Handlers /\ x.op = "write" /\ x.res = "done" /\ x.write = v
    BY WriteHandlerType DEF WriteHandler
  <1>2. ready' = Append(posted, x)
    OBVIOUS
  <1> HIDE DEF x
  <1>3. Live(x) <=> v.chain = "main" \/ v.left > 0 \/ v.tag = "E"
    BY <1>1 DEF Live
  <1>4. Live(x) => Only(<<>>, Append(posted, x), v)
    BY <1>1, <1>2, PostLive
  <1>5. ~Live(x) => Quiet(<<>>, Append(posted, x))
    BY <1>1, <1>2, PostDead
  <1> QED
    BY <1>2, <1>3, <1>4, <1>5

\* The kernel takes a chunk of it: what is left of it is still current.
LEMMA TransferCurrent ==
  ASSUME TypeOK, Ordered, NEW w \in Writes, w.left > 0, Current(w),
         NEW posted, Transfer(w, posted), UNCHANGED <<req, kind>>
  PROVE  \E v \in Writes :
             /\ v.chain = w.chain /\ v.tag = w.tag
             /\ ready' = Append(posted, WriteHandler(v, "done"))
             /\ Current(v)' /\ Ordered' /\ MovesTo(w, v)
             /\ \A r : Sealed(r) => Sealed(r)'
  <1>1. PICK v \in Writes : /\ v.req = w.req /\ v.chain = w.chain /\ v.tag = w.tag
                            /\ v.left = w.left - 1
                            /\ ready' = Append(posted, WriteHandler(v, "done"))
    <2> DEFINE v == [w EXCEPT !.left = @ - 1]
    <2>1. /\ v \in Writes /\ v.req = w.req /\ v.chain = w.chain /\ v.tag = w.tag
          /\ v.left = w.left - 1
      BY DEF Writes
    <2>2. ready' = Append(posted, WriteHandler(v, "done"))
      BY DEF Transfer
    <2> HIDE DEF v
    <2> QED
      BY <2>1, <2>2
  <1>2. PICK c \in Chunks : /\ c.req = w.req /\ c.tag = w.tag /\ c.left = v.left
                            /\ c.said = SaidWith(w)
                            /\ sent' = Append(sent, c)
    <2> DEFINE c == [req |-> w.req, tag |-> w.tag, left |-> w.left - 1,
                     said |-> SaidWith(w)]
    <2>1. SaidWith(w) \in Seq(Tags)
      BY SaidWithType DEF TypeOK
    <2>2. /\ c \in Chunks /\ c.req = w.req /\ c.tag = w.tag /\ c.left = v.left
          /\ c.said = SaidWith(w)
      BY <1>1, <2>1 DEF Chunks, Writes
    <2>3. sent' = Append(sent, c)
      BY DEF Transfer
    <2> HIDE DEF c
    <2> QED
      BY <2>2, <2>3
  <1>3. sent \in Seq(Chunks) /\ req \in Nat /\ w.left \in Nat /\ v.left \in Nat
    BY DEF TypeOK, StreamTypeOK, SessionTypeOK, Writes
  <1>4. /\ Len(sent) \in Nat /\ DOMAIN sent = 1..Len(sent)
        /\ Len(sent') = Len(sent) + 1 /\ DOMAIN sent' = 1..Len(sent) + 1
        /\ sent'[Len(sent) + 1] = c
        /\ \A i \in 1..Len(sent) : sent'[i] = sent[i]
    BY <1>2, <1>3
  <1>5. /\ Len(sent) \in Nat /\ DOMAIN sent \subseteq DOMAIN sent'
        /\ Len(sent) + 1 \in DOMAIN sent'
        /\ \A i \in DOMAIN sent' : i \in DOMAIN sent \/ i = Len(sent) + 1
        /\ \A i \in DOMAIN sent : sent'[i] = sent[i]
    BY <1>4
  <1>6. \A r : Sealed(r)' <=> Sealed(r) \/ (r = w.req /\ v.left = 0 /\ v.tag \in Final)
    <2> SUFFICES ASSUME NEW r
                 PROVE  Sealed(r)' <=> Sealed(r) \/ (r = w.req /\ v.left = 0 /\ v.tag \in Final)
      OBVIOUS
    <2>1. ASSUME NEW i \in DOMAIN sent', sent'[i].req = r, sent'[i].left = 0,
                 sent'[i].tag \in Final
          PROVE  Sealed(r) \/ (r = w.req /\ v.left = 0 /\ v.tag \in Final)
      BY <1>1, <1>2, <1>4, <1>5, <2>1 DEF Sealed
    <2>2. Sealed(r) => Sealed(r)'
      BY <1>5 DEF Sealed
    <2>3. r = w.req /\ v.left = 0 /\ v.tag \in Final => Sealed(r)'
      BY <1>1, <1>2, <1>4, <1>5 DEF Sealed
    <2> QED
      BY <2>1, <2>2, <2>3 DEF Sealed
  <1>7. ~Sealed(req) /\ w.req = req
    BY DEF Current
  <1>8. Current(v)'
    <2>1. Cut' => /\ sent'[Len(sent')].req = v.req
                  /\ sent'[Len(sent')].tag = v.tag
                  /\ sent'[Len(sent')].left = v.left
      BY <1>1, <1>2, <1>4
    <2>2. Sealed(req)' <=> v.left = 0 /\ v.tag \in Final
      BY <1>6, <1>7
    <2>3. v.req = req' /\ req' > 0 /\ kind' \in Owed
      BY <1>1 DEF Current
    <2> QED
      BY <2>1, <2>2, <2>3 DEF Current
  <1>9. Ordered'
    <2>1. \A i \in DOMAIN sent' : sent'[i].req <= req'
      BY <1>2, <1>3, <1>4, <1>7 DEF Ordered
    <2>2. ASSUME NEW i \in 1..Len(sent)
          PROVE  /\ sent'[i].req <= sent'[i + 1].req
                 /\ sent'[i].left > 0 =>
                        sent'[i + 1].req = sent'[i].req /\ sent'[i + 1].tag = sent'[i].tag
      <3>1. CASE i \in 1..Len(sent) - 1
        BY <1>4, <3>1 DEF Ordered, RepliesInOrder
      <3>2. CASE i = Len(sent)
        <4>1. sent[i].req <= c.req
          BY <1>2, <1>4, <1>7 DEF Ordered
        <4>2. sent[i].left > 0 => c.req = sent[i].req /\ c.tag = sent[i].tag
          BY <1>2, <1>4, <3>2 DEF Current, Cut
        <4> QED
          BY <1>4, <3>2, <4>1, <4>2
      <3> QED
        BY <1>5, <3>1, <3>2
    <2>3. Len(sent') - 1 = Len(sent)
      BY <1>4
    <2> QED
      BY <2>1, <2>2, <2>3 DEF Ordered, RepliesInOrder
  <1>10. MovesTo(w, v)
    BY <1>1, <1>2 DEF MovesTo
  <1> QED
    BY <1>1, <1>6, <1>8, <1>9, <1>10

\* Starting, or going on with, the only write: it is the only one, or it is
\* over and nothing comes after it.
LEMMA WriteCurrent ==
  ASSUME TypeOK, Ordered, NEW w \in Writes, Current(w), NEW posted \in Seq(Handlers),
         Quiet(wq, posted), async_write(w, posted), UNCHANGED <<req, kind>>
  PROVE  \E v \in Writes :
             /\ v.chain = w.chain /\ v.tag = w.tag
             /\ Current(v)' /\ Ordered' /\ MovesTo(w, v)
             /\ \A r : Sealed(r) => Sealed(r)'
             /\ IF v.chain = "main" \/ v.left > 0 \/ v.tag = "E"
                THEN Only(wq', ready', v) ELSE Quiet(wq', ready')
  <1>1. ASSUME NEW v \in Writes, ready' = Append(posted, WriteHandler(v, "done")), wq' = <<>>
        PROVE  IF v.chain = "main" \/ v.left > 0 \/ v.tag = "E"
               THEN Only(wq', ready', v) ELSE Quiet(wq', ready')
    BY <1>1, ChunkPosted DEF Quiet
  <1>2. wq = <<>>
    BY DEF Quiet
  <1>3. CASE w.left = 0 /\ ready' = Append(posted, WriteHandler(w, "done"))
             /\ UNCHANGED <<wq, sent>>
    <2>1. Current(w)' /\ Ordered' /\ MovesTo(w, w) /\ \A r : Sealed(r) => Sealed(r)'
      BY <1>3 DEF Current, Cut, Sealed, Ordered, RepliesInOrder, MovesTo
    <2> QED
      BY <1>1, <1>2, <1>3, <2>1
  <1>4. CASE w.left > 0 /\ Transfer(w, posted) /\ UNCHANGED wq
    <2>1. PICK v \in Writes :
             /\ v.chain = w.chain /\ v.tag = w.tag
             /\ ready' = Append(posted, WriteHandler(v, "done"))
             /\ Current(v)' /\ Ordered' /\ MovesTo(w, v)
             /\ \A r : Sealed(r) => Sealed(r)'
      BY <1>4, TransferCurrent
    <2> QED
      BY <1>1, <1>2, <1>4, <2>1
  <1>5. CASE w.left > 0 /\ wq' = Append(wq, w) /\ ready' = posted /\ UNCHANGED sent
    <2>1. Current(w)' /\ Ordered' /\ MovesTo(w, w) /\ \A r : Sealed(r) => Sealed(r)'
      BY <1>5 DEF Current, Cut, Sealed, Ordered, RepliesInOrder, MovesTo
    <2>2. Len(wq') = 1 /\ Head(wq') = w
      BY <1>2, <1>5
    <2>3. Only(wq', ready', w)
      BY <1>5, <2>2 DEF Only, Quiet
    <2> QED
      BY <1>5, <2>1, <2>3
  <1> QED
    BY <1>3, <1>4, <1>5 DEF async_write

-----------------------------------------------------------------------------
(***************************************************************************)
(* What a continuation of the chains does to the write under way           *)
(***************************************************************************)
Advances == Writing' /\ Ordered' /\ \A r : Sealed(r) => Sealed(r)'

\* With no write under way, the last message is complete.
LEMMA NothingCut ==
  ASSUME Writing, Quiet(wq, ready)
  PROVE  ~Cut /\ reader # "busy" /\ (reader = "hdr" => Over)
  BY NotBoth DEF Writing

LEMMA FreshCurrent ==
  ASSUME NEW w \in Writes, w.req = req, req > 0, kind \in Owed, ~Cut, ~Sealed(req),
         w.left > 0 \/ w.tag \notin Final
  PROVE  Current(w)
  BY DEF Current, Writes

LEMMA CurrentAdvances ==
  ASSUME TypeOK, Ordered, NEW w \in Writes, Current(w), NEW posted \in Seq(Handlers),
         Quiet(wq, posted), async_write(w, posted), UNCHANGED <<req, kind>>,
         IF reader' = "busy" THEN w.chain = "main" /\ Ahead(w.tag, todo')
         ELSE reader' # "closed" /\ w.chain = "error" /\ w.tag \in {"E", "Z"}
  PROVE  Advances
  <1>1. PICK v \in Writes :
             /\ v.chain = w.chain /\ v.tag = w.tag
             /\ Current(v)' /\ Ordered'
             /\ \A r : Sealed(r) => Sealed(r)'
             /\ IF v.chain = "main" \/ v.left > 0 \/ v.tag = "E"
                THEN Only(wq', ready', v) ELSE Quiet(wq', ready')
    BY WriteCurrent
  <1>2. Belongs(v)'
    BY <1>1 DEF Belongs
  <1>3. v.left \in Nat
    BY DEF Writes
  <1>4. CASE v.chain = "main" \/ v.left > 0 \/ v.tag = "E"
    <2>1. reader' # "busy" => ~Sealed(req)'
      BY <1>1, <1>3, <1>4 DEF Current, Final
    <2> QED
      BY <1>1, <1>2, <1>4, <2>1 DEF Writing, Advances
  <1>5. CASE ~(v.chain = "main" \/ v.left > 0 \/ v.tag = "E")
    <2>1. ~Cut'
      BY <1>1, <1>3, <1>5 DEF Current, Cut
    <2>2. reader' # "busy"
      BY <1>1, <1>5
    <2>3. Over'
      BY <1>1, <1>3, <1>5 DEF Current, Over, Final
    <2> QED
      BY <1>1, <1>5, <2>1, <2>2, <2>3 DEF Writing, Advances
  <1> QED
    BY <1>4, <1>5

LEMMA QuietAdvances ==
  ASSUME Ordered, ~Cut, NEW posted, Quiet(wq, posted), NoMoreWrites(posted),
         UNCHANGED <<req, kind>>, reader' # "busy", reader' = "hdr" => Over
  PROVE  Advances
  <1>1. wq' = wq /\ ready' = posted /\ sent' = sent
    BY DEF NoMoreWrites
  <1>2. Quiet(wq', ready') /\ ~Cut' /\ Ordered' /\ \A r : Sealed(r)' <=> Sealed(r)
    BY <1>1 DEF Cut, Ordered, RepliesInOrder, Sealed
  <1>3. reader' = "hdr" => Over'
    BY <1>2 DEF Over
  <1> QED
    BY <1>2, <1>3 DEF Advances, Writing

\* With nothing queued, closing the socket aborts nothing.
LEMMA CloseAdvances ==
  ASSUME Ordered, ~Cut, NEW posted \in Seq(Handlers), Quiet(wq, posted), CloseSocket(posted),
         UNCHANGED req, reader' = "closed"
  PROVE  Advances
  <1>1. wq = <<>> /\ Len(wq) = 0
    BY DEF Quiet
  <1> DEFINE aborted == [i \in 1..Len(wq) |-> WriteHandler(wq[i], "failed")]
  <1>2. aborted = <<>>
    BY <1>1
  <1>3. wq' = <<>> /\ ready' = posted \o aborted /\ sent' = sent
    BY DEF CloseSocket
  <1> HIDE DEF aborted
  <1>4. ready' = posted
    BY <1>2, <1>3
  <1> QED
    BY <1>1, <1>3, <1>4 DEF Advances, Writing, Quiet, Cut, Ordered, RepliesInOrder, Sealed

\* process_message writes the first message of an answer, or the next one.
LEMMA WriteAllAdvances ==
  ASSUME TypeOK, Ordered, req > 0, kind \in Owed, ~Cut, ~Sealed(req),
         NEW msgs \in Seq(Tags), msgs # <<>>, Ahead(Head(msgs), Tail(msgs)),
         NEW posted \in Seq(Handlers), Quiet(wq, posted), WriteAll(msgs, posted),
         UNCHANGED <<req, kind>>
  PROVE  Advances
  <1>1. PICK n \in Sizes[Head(msgs)] :
            async_write([chain |-> "main", req |-> req, tag |-> Head(msgs), left |-> n],
                        posted)
    BY DEF WriteAll
  <1> DEFINE w == [chain |-> "main", req |-> req, tag |-> Head(msgs), left |-> n]
  <1>2. Head(msgs) \in Tags
    OBVIOUS
  <1>3. w \in Writes /\ w.chain = "main" /\ w.req = req /\ w.tag = Head(msgs) /\ w.left = n
    BY <1>2, SessionAssumption DEF Writes, TypeOK, SessionTypeOK
  <1>4. n \in Nat /\ (Head(msgs) # "D" => n > 0)
    BY <1>2, SessionAssumption
  <1>5. async_write(w, posted)
    BY <1>1
  <1> HIDE DEF w
  <1>6. Current(w)
    BY <1>3, <1>4, FreshCurrent DEF Final
  <1>7. reader' = "busy" /\ todo' = Tail(msgs)
    BY DEF WriteAll
  <1> QED
    BY <1>3, <1>5, <1>6, <1>7, CurrentAdvances

LEMMA ReportErrorAdvances ==
  ASSUME TypeOK, Ordered, req > 0, kind \in Owed, ~Cut, ~Sealed(req),
         NEW posted \in Seq(Handlers), Quiet(wq, posted), ReportError(posted),
         UNCHANGED <<req, kind>>
  PROVE  Advances
  <1>1. PICK n \in Sizes["E"] :
            async_write([chain |-> "error", req |-> req, tag |-> "E", left |-> n], posted)
    BY DEF ReportError
  <1> DEFINE w == [chain |-> "error", req |-> req, tag |-> "E", left |-> n]
  <1>2. w \in Writes /\ w.chain = "error" /\ w.req = req /\ w.tag = "E"
    BY SessionAssumption DEF Writes, Tags, TypeOK, SessionTypeOK
  <1>3. async_write(w, posted)
    BY <1>1
  <1> HIDE DEF w
  <1>4. Current(w)
    BY <1>2, FreshCurrent DEF Final
  <1>5. reader' = "hdr"
    BY DEF ReportError
  <1> QED
    BY <1>2, <1>3, <1>4, <1>5, CurrentAdvances

LEMMA ProcessedAdvances ==
  ASSUME TypeOK, Ordered, ~Cut, NEW posted \in Seq(Handlers), Quiet(wq, posted),
         NEW out, out = "sql" => req > 0 /\ kind \in Owed /\ ~Sealed(req),
         out = "ok" => Over,
         Processed(out, posted), UNCHANGED <<req, kind>>
  PROVE  Advances
  <1>1. CASE out = "ok" /\ DoRead(posted)
    BY <1>1, QuietAdvances DEF DoRead
  <1>2. CASE Finish(posted)
    BY <1>2, CloseAdvances DEF Finish
  <1> QED
    BY <1>1, <1>2, ReportErrorAdvances DEF Processed

-----------------------------------------------------------------------------
(***************************************************************************)
(* The client                                                              *)
(***************************************************************************)
LEMMA InitOrder == Init => OrderInv
  <1> SUFFICES ASSUME Init
               PROVE  OrderInv
    OBVIOUS
  <1>1. /\ wq = <<>> /\ ready = <<>> /\ sent = <<>> /\ inbound = <<>> /\ reader = "hdr"
        /\ req = 0 /\ asked = 0 /\ waiting = 0 /\ stale = FALSE
    BY DEF Init, StreamInit
  <1>2. Writing
    BY <1>1 DEF Writing, Quiet, Cut, Over
  <1>3. Reading /\ Wire /\ Asked
    BY <1>1 DEF Reading, Wire, Asked
  <1>4. Ordered
    BY <1>1 DEF Ordered, RepliesInOrder
  <1> QED
    BY <1>1, <1>2, <1>3, <1>4 DEF OrderInv

\* The session and what it has written are as they were.
LEMMA ServerStays ==
  ASSUME OrderInv, UNCHANGED <<wq, ready, sent, sessionVars>>
  PROVE  ~stale' /\ Writing' /\ Reading' /\ Ordered' /\ \A r : Sealed(r)' <=> Sealed(r)
  <1>1. UNCHANGED <<wq, ready, sent, reader, req, kind, todo, stale>>
    BY DEF sessionVars
  <1>2. Writing'
    BY <1>1 DEF OrderInv, Writing, Current, Belongs, Sealed, Cut, Over
  <1>3. Reading'
    BY <1>1 DEF OrderInv, Reading
  <1>4. Ordered' /\ \A r : Sealed(r)' <=> Sealed(r)
    BY <1>1 DEF OrderInv, Ordered, RepliesInOrder, Sealed
  <1> QED
    BY <1>1, <1>2, <1>3, <1>4 DEF OrderInv

\* A client that waits sends nothing while a request of its own is unanswered.
LEMMA NothingOwed ==
  ASSUME ~Pipelining, TypeOK, OrderInv, NEW k, MaySend(k)
  PROVE  /\ kind \in Owed /\ req > 0 => Sealed(req)
         /\ \A i \in DOMAIN inbound : inbound[i] \notin Owed
  <1>1. sent \in Seq(Chunks) /\ unread \in Nat /\ req \in Nat /\ inbound \in Seq(Kinds)
    BY DEF TypeOK, StreamTypeOK, SessionTypeOK
  <1>2. Answered(waiting) => Sealed(waiting)
    BY <1>1 DEF Answered, Sealed, Final
  <1>3. waiting = 0 \/ Sealed(waiting)
    BY <1>2 DEF MaySend
  <1>4. kind \in Owed /\ req > 0 => Sealed(req)
    BY <1>1, <1>3 DEF OrderInv, Asked
  <1>5. ASSUME NEW i \in DOMAIN inbound, inbound[i] \in Owed
        PROVE  FALSE
    <2>1. waiting = req + i /\ i > 0 /\ i \in Nat
      BY <1>1, <1>5 DEF OrderInv, Asked
    <2>2. Sealed(req + i)
      BY <1>1, <1>3, <2>1
    <2>3. PICK j \in DOMAIN sent : sent[j].req = req + i
      BY <2>2 DEF Sealed
    <2> QED
      BY <1>1, <2>1, <2>3 DEF OrderInv, Ordered
  <1> QED
    BY <1>4, <1>5

LEMMA ClientSendOrder ==
  ASSUME ~Pipelining, TypeOK, OrderInv, NEW k \in Kinds, ClientSend(k)
  PROVE  OrderInv'
  <1>1. ~stale' /\ Writing' /\ Reading' /\ Ordered' /\ \A r : Sealed(r)' <=> Sealed(r)
    BY ServerStays DEF ClientSend
  <1>2. /\ req' = req /\ kind' = kind /\ peer' = peer /\ peer = "open"
        /\ inbound' = Append(inbound, k) /\ asked' = asked + 1
        /\ waiting' = IF k \in Owed THEN asked + 1 ELSE waiting
    BY DEF ClientSend, sessionVars, Owed
  <1>3. inbound \in Seq(Kinds) /\ req \in Nat /\ asked \in Nat /\ waiting \in Nat
    BY DEF TypeOK, StreamTypeOK, SessionTypeOK, ClientTypeOK
  <1>4. /\ Len(inbound) \in Nat /\ Len(inbound') = Len(inbound) + 1
        /\ \A i \in DOMAIN inbound' :
               (i \in DOMAIN inbound /\ inbound'[i] = inbound[i])
                   \/ (i = Len(inbound) + 1 /\ inbound'[i] = k)
    BY <1>2, <1>3
  <1>5. /\ kind \in Owed /\ req > 0 => Sealed(req)
        /\ \A i \in DOMAIN inbound : inbound[i] \notin Owed
    BY NothingOwed DEF ClientSend
  <1>6. req + Len(inbound) = asked /\ waiting <= asked
    BY <1>2 DEF OrderInv, Wire
  <1>7. Wire'
    BY <1>2, <1>3, <1>4, <1>6 DEF Wire
  <1>8. Asked'
    <2>1. kind' \in Owed /\ req' > 0 => Sealed(req)'
      BY <1>1, <1>2, <1>5
    <2>2. ASSUME NEW i \in DOMAIN inbound', inbound'[i] \in Owed
          PROVE  waiting' = req' + i /\ asked' = req' + i
      <3>1. i = Len(inbound) + 1 /\ k \in Owed
        BY <1>4, <1>5, <2>2
      <3> QED
        BY <1>2, <1>3, <1>4, <1>6, <3>1
    <2> QED
      BY <2>1, <2>2 DEF Asked
  <1> QED
    BY <1>1, <1>7, <1>8 DEF OrderInv

LEMMA ClientOrder ==
  ASSUME ~Pipelining, TypeOK, OrderInv, Client
  PROVE  OrderInv'
  <1>1. ASSUME ClientRecv \/ ClientClose \/ ClientReset, UNCHANGED <<clientVars, sessionVars>>
        PROVE  OrderInv'
    <2>1. ~stale' /\ Writing' /\ Reading' /\ Ordered' /\ \A r : Sealed(r)' <=> Sealed(r)
      BY <1>1, ServerStays DEF ClientRecv, ClientClose, ClientReset
    <2>2. inbound \in Seq(Kinds) /\ req \in Nat /\ asked \in Nat
      BY DEF TypeOK, StreamTypeOK, SessionTypeOK, ClientTypeOK
    <2>3. /\ UNCHANGED <<req, kind, asked, waiting>>
          /\ peer' = "open" => UNCHANGED <<peer, inbound>>
      BY <1>1 DEF ClientRecv, ClientClose, ClientReset, clientVars, sessionVars
    <2>4. /\ Len(inbound') \in Nat /\ Len(inbound') <= Len(inbound)
          /\ DOMAIN inbound' \subseteq DOMAIN inbound
          /\ \A i \in DOMAIN inbound' : inbound'[i] = inbound[i]
      BY <1>1, <2>2 DEF ClientRecv, ClientClose, ClientReset
    <2>5. Wire' /\ Asked'
      BY <2>1, <2>2, <2>3, <2>4 DEF OrderInv, Wire, Asked
    <2> QED
      BY <2>1, <2>5 DEF OrderInv
  <1> QED
    BY <1>1, ClientSendOrder DEF Client

-----------------------------------------------------------------------------
(***************************************************************************)
(* The kernel                                                              *)
(***************************************************************************)
\* A step beside the read loop, while a write is under way.
LEMMA BesideReading ==
  ASSUME Reading, ~Quiet(wq, ready), reader' = reader, NoNewRead(ready, ready')
  PROVE  Reading'
  BY DEF Reading, NoNewRead

LEMMA RestStays ==
  ASSUME OrderInv, UNCHANGED <<peer, inbound, asked, waiting, req, kind>>, Advances
  PROVE  Wire' /\ Asked'
  <1>1. \A r : Sealed(r) => Sealed(r)'
    BY DEF Advances
  <1> QED
    BY <1>1 DEF OrderInv, Wire, Asked

LEMMA SocketOrder ==
  ASSUME TypeOK, OrderInv, SocketWritable \/ SocketBroken, UNCHANGED <<clientVars, sessionVars>>
  PROVE  OrderInv'
  <1>1. /\ wq # <<>> /\ wq' = Tail(wq) /\ wq \in Seq(Writes) /\ ready \in Seq(Handlers)
        /\ UNCHANGED <<peer, inbound, asked, waiting, req, kind, reader, todo, stale>>
    BY QueueTypes DEF SocketWritable, SocketBroken, clientVars, sessionVars
  <1>2. ~Quiet(wq, ready)
    BY <1>1 DEF Quiet
  <1>3. PICK w \in Writes : /\ Only(wq, ready, w) /\ Current(w) /\ Belongs(w)
                            /\ reader # "busy" => ~Sealed(req)
    BY <1>2 DEF OrderInv, Writing
  <1>4. Head(wq) = w /\ wq' = <<>> /\ Quiet(<<>>, ready)
    BY <1>1, <1>3, TakeQueued
  <1>5. Advances
    <2>1. CASE SocketWritable
      <3>1. w.left > 0
        <4>1. Head(wq) \in Pending
          BY <1>1, QueueTypes
        <4> QED
          BY <1>4, <4>1 DEF Pending
      <3>2. PICK v \in Writes :
               /\ v.chain = w.chain /\ v.tag = w.tag
               /\ ready' = Append(ready, WriteHandler(v, "done"))
               /\ Current(v)' /\ Ordered'
               /\ \A r : Sealed(r) => Sealed(r)'
        <4>1. Transfer(w, ready)
          BY <1>4, <2>1 DEF SocketWritable
        <4> QED
          BY <1>1, <1>3, <3>1, <4>1, TransferCurrent DEF OrderInv
      <3>3. IF v.chain = "main" \/ v.left > 0 \/ v.tag = "E"
            THEN Only(wq', ready', v) ELSE Quiet(wq', ready')
        BY <1>1, <1>4, <3>2, ChunkPosted
      <3>4. Belongs(v)'
        BY <1>1, <1>3, <3>2 DEF Belongs
      <3>5. v.left \in Nat
        BY DEF Writes
      <3>6. CASE v.chain = "main" \/ v.left > 0 \/ v.tag = "E"
        <4>1. reader' # "busy" => ~Sealed(req)'
          BY <3>2, <3>4, <3>5, <3>6 DEF Belongs, Current, Final
        <4> QED
          BY <3>2, <3>3, <3>4, <3>6, <4>1 DEF Advances, Writing
      <3>7. CASE ~(v.chain = "main" \/ v.left > 0 \/ v.tag = "E")
        <4>1. reader' # "busy" /\ ~Cut'
          BY <3>2, <3>4, <3>5, <3>7 DEF Belongs, Current, Cut
        <4>2. Over'
          BY <3>2, <3>4, <3>5, <3>7 DEF Belongs, Current, Over, Final
        <4> QED
          BY <3>2, <3>3, <3>7, <4>1, <4>2 DEF Advances, Writing
      <3> QED
        BY <3>6, <3>7
    <2>2. CASE SocketBroken
      <3> DEFINE x == WriteHandler(w, "failed")
      <3>1. x \in Handlers /\ x.op = "write" /\ x.write = w /\ x.res = "failed"
        BY WriteHandlerType DEF WriteHandler
      <3>2. ready' = Append(ready, x) /\ sent' = sent
        BY <1>4, <2>2 DEF SocketBroken
      <3> HIDE DEF x
      <3>3. Only(wq', ready', w)
        BY <1>1, <1>4, <3>1, <3>2, PostLive DEF Live
      <3>4. Belongs(w)' /\ Current(w)' /\ Ordered' /\ \A r : Sealed(r)' <=> Sealed(r)
        BY <1>1, <1>3, <3>2
        DEF OrderInv, Belongs, Current, Cut, Sealed, Ordered, RepliesInOrder
      <3> QED
        BY <1>1, <1>3, <3>3, <3>4 DEF Advances, Writing
    <2> QED
      BY <2>1, <2>2
  <1>6. Reading'
    <2>1. \E v, res : ready' = Append(ready, WriteHandler(v, res))
      BY DEF SocketWritable, SocketBroken, Transfer
    <2>2. NoNewRead(ready, ready')
      BY <1>1, <2>1, AppendWriteNoRead
    <2> QED
      BY <1>1, <1>2, <2>2, BesideReading DEF OrderInv
  <1> QED
    BY <1>1, <1>5, <1>6, RestStays DEF OrderInv, Advances

LEMMA ReadIsDead ==
  ASSUME NEW op \in {"hdr", "body"}, NEW res \in {"done", "failed"}
  PROVE  /\ ReadHandler(op, res) \in Handlers
         /\ ReadHandler(op, res).op = op /\ ReadHandler(op, res).res = res
         /\ ~Live(ReadHandler(op, res))
  BY ReadHandlerType DEF ReadHandler, Live

\* A header arrives when the request before it is answered in full: its own
\* request is behind that one.
LEMMA HeaderArrivesOrder ==
  ASSUME ChainInv, OrderInv, HeaderArrives
  PROVE  OrderInv'
  <1>1. /\ reader = "hdr" /\ inbound # <<>> /\ reader' = "posted"
        /\ req' = req + 1 /\ kind' = Head(inbound) /\ inbound' = Tail(inbound)
        /\ ready' = Append(ready, ReadHandler("hdr", "done"))
        /\ UNCHANGED <<peer, wq, sent, asked, waiting, todo, stale>>
    BY DEF HeaderArrives, clientVars
  <1>2. /\ inbound \in Seq(Kinds) /\ ready \in Seq(Handlers) /\ req \in Nat /\ asked \in Nat
        /\ sent \in Seq(Chunks)
    BY QueueTypes DEF ChainInv, TypeOK, StreamTypeOK, SessionTypeOK, ClientTypeOK
  <1>3. /\ Len(inbound) \in Nat /\ Len(inbound) > 0 /\ inbound[1] = Head(inbound)
        /\ Len(inbound') = Len(inbound) - 1
        /\ \A k \in DOMAIN inbound' : k + 1 \in DOMAIN inbound /\ inbound'[k] = inbound[k + 1]
        /\ 1 \in DOMAIN inbound
    BY <1>1, <1>2
  <1>4. Quiet(wq, ready)
    <2> SUFFICES ASSUME NEW w \in Writes, Current(w), ~Sealed(req)
                 PROVE  FALSE
      BY <1>1 DEF OrderInv, Writing
    <2>1. asked = req
      BY DEF Current, OrderInv, Asked
    <2> QED
      BY <1>2, <1>3, <2>1 DEF OrderInv, Wire
  <1>5. ~Cut
    BY <1>4, NothingCut DEF OrderInv
  <1>6. Quiet(wq', ready')
    BY <1>1, <1>2, <1>4, ReadIsDead, PostDead
  <1>7. Writing'
    BY <1>1, <1>5, <1>6 DEF Writing, Cut
  <1>8. Ordered' /\ \A i \in DOMAIN sent' : sent'[i].req < req'
    <2>1. \A i \in DOMAIN sent : sent[i] \in Chunks /\ sent[i].req <= req
      BY <1>2 DEF OrderInv, Ordered
    <2>2. \A i \in DOMAIN sent : sent[i].req \in Nat /\ sent[i].req < req + 1
      BY <1>2, <2>1 DEF Chunks
    <2>3. RepliesInOrder'
      BY <1>1 DEF OrderInv, Ordered, RepliesInOrder
    <2>4. \A i \in DOMAIN sent' : sent'[i].req <= req'
      BY <1>1, <1>2, <2>2
    <2> QED
      BY <1>1, <2>2, <2>3, <2>4 DEF Ordered
  <1>9. Reading'
    BY <1>1, <1>2, <1>6, <1>8 DEF Reading
  <1>10. Wire'
    <2>1. req' + Len(inbound') = req + Len(inbound)
      BY <1>1, <1>2, <1>3
    <2>2. UNCHANGED <<peer, asked, waiting>>
      BY <1>1
    <2> QED
      BY <2>1, <2>2 DEF OrderInv, Wire
  <1>11. Asked'
    <2>1. kind' \in Owed => waiting' = req' /\ asked' = req'
      BY <1>1, <1>3 DEF OrderInv, Asked
    <2>2. ASSUME NEW k \in DOMAIN inbound', inbound'[k] \in Owed
          PROVE  waiting' = req' + k /\ asked' = req' + k
      <3>1. k \in Nat
        BY <1>1, <1>2
      <3>2. waiting = req + (k + 1) /\ asked = req + (k + 1)
        BY <1>3, <2>2 DEF OrderInv, Asked
      <3> QED
        BY <1>1, <1>2, <3>1, <3>2
    <2> QED
      BY <2>1, <2>2 DEF Asked
  <1> QED
    BY <1>1, <1>7, <1>8, <1>9, <1>10, <1>11 DEF OrderInv

\* Another read ends: what is written is as it was.
LEMMA ReadEndsOrder ==
  ASSUME ChainInv, OrderInv, HeaderFails \/ BodyArrives \/ BodyFails
  PROVE  OrderInv'
  <1>1. PICK x \in Handlers :
            /\ ready' = Append(ready, x) /\ ~Live(x) /\ x.op # "write"
            /\ reader = "body" \/ (x.op = "hdr" /\ x.res = "failed")
    BY ReadIsDead DEF HeaderFails, BodyArrives, BodyFails
  <1>2. /\ reader \in {"hdr", "body"} /\ reader' = "posted"
        /\ UNCHANGED <<peer, inbound, wq, sent, asked, waiting, req, kind, todo, stale>>
    BY DEF HeaderFails, BodyArrives, BodyFails, clientVars
  <1>3. ready \in Seq(Handlers)
    BY QueueTypes DEF ChainInv
  <1>4. Writing'
    <2>1. CASE Quiet(wq, ready) /\ ~Cut
      <3>1. Quiet(wq', ready')
        BY <1>1, <1>2, <1>3, <2>1, PostDead
      <3> QED
        BY <1>2, <2>1, <3>1 DEF Writing, Cut
    <2>2. ASSUME NEW w \in Writes, Only(wq, ready, w), Current(w), Belongs(w), ~Sealed(req)
          PROVE  Writing'
      <3>1. Only(wq', ready', w)
        BY <1>1, <1>2, <1>3, <2>2, PostDead
      <3>2. Current(w)' /\ Belongs(w)' /\ ~Sealed(req)'
        BY <1>2, <2>2 DEF Current, Belongs, Cut, Sealed
      <3> QED
        BY <3>1, <3>2 DEF Writing
    <2> QED
      BY <1>2, <2>1, <2>2 DEF OrderInv, Writing
  <1>5. Reading'
    <2>1. CASE reader = "body"
      <3>1. Quiet(wq, ready) /\ req > 0 /\ \A i \in DOMAIN sent : sent[i].req < req
        BY <2>1 DEF OrderInv, Reading
      <3>2. Quiet(wq', ready')
        BY <1>1, <1>2, <1>3, <3>1, PostDead
      <3> QED
        BY <1>2, <3>1, <3>2 DEF Reading
    <2>2. CASE x.op = "hdr" /\ x.res = "failed"
      <3>1. \A j \in DOMAIN ready' : ready'[j].op = "write" \/ ready'[j] = x
        BY <1>1, <1>2, PostedReads
      <3> QED
        BY <1>2, <2>2, <3>1 DEF Reading
    <2> QED
      BY <1>1, <2>1, <2>2
  <1>6. Ordered' /\ Wire' /\ Asked'
    BY <1>2 DEF OrderInv, Ordered, RepliesInOrder, Wire, Asked, Sealed
  <1> QED
    BY <1>2, <1>4, <1>5, <1>6 DEF OrderInv

-----------------------------------------------------------------------------
(***************************************************************************)
(* The event loop                                                          *)
(***************************************************************************)
LEMMA HandlerOrder ==
  ASSUME OrderInv, NEW op, NEW res, Runs(op, res), Advances, Reading', stale' = stale
  PROVE  OrderInv'
  BY RestStays DEF OrderInv, Runs, Advances, clientVars

\* The chain leaves its read, or goes on without one.
LEMMA NoReading ==
  ASSUME reader' \notin {"posted", "body"}
  PROVE  Reading'
  BY DEF Reading

\* The handler of a read that was completed: nothing is being written.
LEMMA ReadRunsQuiet ==
  ASSUME ChainInv, OrderInv, ready # <<>>,
         Head(ready).op = "body" \/ (Head(ready).op = "hdr" /\ Head(ready).res = "done")
  PROVE  /\ Quiet(wq, ready) /\ Quiet(wq, Tail(ready)) /\ ~Cut
         /\ Tail(ready) \in Seq(Handlers)
         /\ req > 0 /\ \A i \in DOMAIN sent : sent[i].req < req
         /\ ~Sealed(req)
  <1>1. ready \in Seq(Handlers) /\ reader = "posted"
    BY QueueTypes, ReadRunsPosted DEF ChainInv
  <1>2. 1 \in DOMAIN ready /\ ready[1] = Head(ready) /\ Tail(ready) \in Seq(Handlers)
    BY <1>1
  <1>3. Quiet(wq, ready) /\ req > 0 /\ \A i \in DOMAIN sent : sent[i].req < req
    BY <1>1, <1>2 DEF OrderInv, Reading
  <1>4. req \in Nat
    BY DEF ChainInv, TypeOK, SessionTypeOK
  <1> QED
    BY <1>1, <1>2, <1>3, <1>4, QuietTail, NothingCut DEF OrderInv, Sealed

LEMMA HeaderReadOrder ==
  ASSUME ChainInv, OrderInv, HeaderRead
  PROVE  OrderInv'
  <1>1. Runs("hdr", "done") /\ stale' = stale
    BY DEF HeaderRead
  <1>2. /\ Quiet(wq, Tail(ready)) /\ ~Cut /\ req > 0
        /\ \A i \in DOMAIN sent : sent[i].req < req
    BY <1>1, ReadRunsQuiet DEF Runs
  <1>3. NoMoreWrites(Tail(ready)) /\ reader' \in {"lost", "body"}
    BY DEF HeaderRead, Abandon
  <1>4. wq' = wq /\ ready' = Tail(ready) /\ sent' = sent /\ req' = req
    BY <1>1, <1>3 DEF NoMoreWrites, Runs
  <1>5. Advances
    <2>1. kind' = kind
      BY <1>1 DEF Runs
    <2> QED
      BY <1>2, <1>3, <1>4, <2>1, QuietAdvances DEF OrderInv
  <1>6. Reading'
    BY <1>2, <1>4 DEF Reading
  <1> QED
    BY <1>1, <1>5, <1>6, HandlerOrder

LEMMA StartupAhead ==
  /\ Ahead(Head(StartupReply), Tail(StartupReply))
  /\ Ahead(Head(<<"N">>), Tail(<<"N">>)) /\ Ahead(Head(<<"T">>), Tail(<<"T">>))
  /\ Ahead(Head(<<"D", "C", "Z">>), Tail(<<"D", "C", "Z">>))
  <1> DEFINE params == [i \in 1..NumParams |-> "S"]
  <1>1. NumParams \in Nat
    BY SessionAssumption
  <1>2. params \in Seq(Tags) /\ Len(params) = NumParams /\ \A i \in 1..NumParams : params[i] = "S"
    BY <1>1 DEF Tags
  <1>3. <<"R">> \in Seq(Tags) /\ <<"Z">> \in Seq(Tags)
    BY DEF Tags
  <1>4. StartupReply = <<"R">> \o params \o <<"Z">>
    BY DEF StartupReply
  <1> HIDE DEF params
  <1>5. /\ StartupReply \in Seq(Tags) /\ Len(StartupReply) = NumParams + 2
        /\ StartupReply[1] = "R" /\ StartupReply[NumParams + 2] = "Z"
        /\ \A i \in 1..NumParams : StartupReply[i + 1] = "S"
    BY <1>1, <1>2, <1>3, <1>4
  <1>6. /\ Head(StartupReply) = "R" /\ Len(Tail(StartupReply)) = NumParams + 1
        /\ \A i \in 1..NumParams + 1 : Tail(StartupReply)[i] = StartupReply[i + 1]
    BY <1>1, <1>5
  <1>7. Ahead(Head(StartupReply), Tail(StartupReply))
    <2>1. Tail(StartupReply)[NumParams + 1] = "Z"
      BY <1>1, <1>5, <1>6
    <2>2. \A i \in 1..NumParams : Tail(StartupReply)[i] = "S"
      BY <1>1, <1>5, <1>6
    <2>3. Tail(StartupReply) # <<>>
      BY <1>1, <1>6
    <2> QED
      BY <1>1, <1>6, <2>1, <2>2, <2>3 DEF Ahead
  <1>8. Ahead(Head(<<"N">>), Tail(<<"N">>)) /\ Ahead(Head(<<"T">>), Tail(<<"T">>))
    BY DEF Ahead
  <1>9. Ahead(Head(<<"D", "C", "Z">>), Tail(<<"D", "C", "Z">>))
    BY DEF Ahead
  <1> QED
    BY <1>7, <1>8, <1>9

LEMMA BodyReadOrder ==
  ASSUME ChainInv, OrderInv, BodyRead
  PROVE  OrderInv'
  <1>1. Runs("body", "done") /\ stale' = stale /\ UNCHANGED <<req, kind>>
    BY DEF BodyRead, Runs
  <1>2. /\ Quiet(wq, Tail(ready)) /\ ~Cut /\ Tail(ready) \in Seq(Handlers)
        /\ req > 0 /\ ~Sealed(req)
    BY <1>1, ReadRunsQuiet DEF Runs
  <1>3. TypeOK /\ Ordered
    BY DEF ChainInv, OrderInv
  <1>4. <<"N">> \in Seq(Tags) /\ <<"T">> \in Seq(Tags)
    BY DEF Tags
  <1>5. CASE HandleStartup(Tail(ready))
    <2>1. kind \in Owed /\ reader' = "busy"
      BY <1>5 DEF HandleStartup, WriteAll, Owed, Hello
    <2>2. PICK msgs \in {StartupReply, <<"N">>} : WriteAll(msgs, Tail(ready))
      BY <1>5 DEF HandleStartup
    <2>3. msgs \in Seq(Tags) /\ msgs # <<>> /\ Ahead(Head(msgs), Tail(msgs))
      <3>1. CASE msgs = StartupReply
        BY <3>1, StartupReplyTypes, StartupAhead
      <3>2. CASE msgs = <<"N">>
        BY <1>4, <3>2, StartupAhead
      <3> QED
        BY <3>1, <3>2
    <2>4. Advances
      BY <1>1, <1>2, <1>3, <2>1, <2>2, <2>3, WriteAllAdvances
    <2> QED
      BY <1>1, <2>1, <2>4, NoReading, HandlerOrder
  <1>6. CASE HandleQuery(Tail(ready))
    <2>1. kind \in Owed
      BY <1>6 DEF HandleQuery, Owed
    <2>2. PICK out \in ParseOutcomes :
              \/ WriteAll(<<"T">>, Tail(ready))
              \/ out # "ok" /\ Processed(out, Tail(ready))
              \/ Abandon(Tail(ready))
      BY <1>6 DEF HandleQuery
    <2>3. CASE WriteAll(<<"T">>, Tail(ready))
      <3>1. Advances
        BY <1>1, <1>2, <1>3, <1>4, <2>1, <2>3, StartupAhead, WriteAllAdvances
      <3> QED
        BY <1>1, <2>3, <3>1, NoReading, HandlerOrder DEF WriteAll
    <2>4. CASE out # "ok" /\ Processed(out, Tail(ready))
      <3>1. Advances
        BY <1>1, <1>2, <1>3, <2>1, <2>4, ProcessedAdvances
      <3> QED
        BY <1>1, <2>4, <3>1, ProcessedReader, NoReading, HandlerOrder
    <2>5. CASE Abandon(Tail(ready))
      <3>1. Advances
        BY <1>1, <1>2, <1>3, <2>5, QuietAdvances DEF Abandon
      <3> QED
        BY <1>1, <2>5, <3>1, NoReading, HandlerOrder DEF Abandon
    <2> QED
      BY <2>2, <2>3, <2>4, <2>5
  <1>7. CASE HandleTerminate(Tail(ready))
    <2>1. Advances /\ reader' = "closed"
      BY <1>1, <1>2, <1>3, <1>7, CloseAdvances DEF HandleTerminate, Finish
    <2> QED
      BY <1>1, <2>1, NoReading, HandlerOrder
  <1>8. CASE HandleOther(Tail(ready))
    <2>1. Over
      BY <1>8 DEF HandleOther, Over, Owed, Hello
    <2>2. Advances /\ reader' = "hdr"
      BY <1>1, <1>2, <1>3, <1>8, <2>1, QuietAdvances DEF HandleOther, DoRead
    <2> QED
      BY <1>1, <2>2, NoReading, HandlerOrder
  <1> QED
    BY <1>5, <1>6, <1>7, <1>8 DEF BodyRead

\* The connection ends: a write that is under way stays under way.
LEMMA ReadFailedOrder ==
  ASSUME ChainInv, OrderInv, ReadFailed
  PROVE  OrderInv'
  <1>1. PICK op \in {"hdr", "body"} : Runs(op, "failed")
    BY DEF ReadFailed
  <1>2. /\ reader' = "lost" /\ wq' = wq /\ ready' = Tail(ready)
        /\ UNCHANGED <<sent, req, kind, stale>>
    BY <1>1 DEF ReadFailed, Abandon, NoMoreWrites, Runs
  <1>3. /\ ready # <<>> /\ ready \in Seq(Handlers) /\ ~Live(Head(ready))
        /\ reader = "posted"
    BY <1>1, QueueTypes, ReadRunsPosted DEF Runs, ChainInv, Live
  <1>4. Advances
    <2>1. CASE Quiet(wq, ready) /\ ~Cut
      <3>1. Quiet(wq, Tail(ready))
        BY <1>3, <2>1, QuietTail
      <3> QED
        BY <1>2, <2>1, <3>1
        DEF Advances, Writing, Cut, OrderInv, Ordered, RepliesInOrder, Sealed
    <2>2. ASSUME NEW w \in Writes, Only(wq, ready, w), Current(w), Belongs(w), ~Sealed(req)
          PROVE  Advances
      <3>1. Only(wq', ready', w)
        BY <1>2, <1>3, <2>2, TakeDead
      <3>2. Current(w)' /\ ~Sealed(req)' /\ Ordered' /\ \A r : Sealed(r) => Sealed(r)'
        BY <1>2, <2>2 DEF Current, Cut, Sealed, OrderInv, Ordered, RepliesInOrder
      <3>3. Belongs(w)'
        BY <1>2, <1>3, <2>2 DEF Belongs
      <3> QED
        BY <3>1, <3>2, <3>3 DEF Advances, Writing
    <2> QED
      BY <1>3, <2>1, <2>2 DEF OrderInv, Writing
  <1> QED
    BY <1>1, <1>2, <1>4, NoReading, HandlerOrder

\* The handler of the write that is under way.
LEMMA LiveRuns ==
  ASSUME ChainInv, OrderInv, ready # <<>>, Live(Head(ready))
  PROVE  \E w \in Writes :
             /\ w = Written /\ Quiet(wq, Tail(ready)) /\ Tail(ready) \in Seq(Handlers)
             /\ Only(wq, ready, w) /\ Current(w) /\ Belongs(w)
             /\ reader # "busy" => ~Sealed(req)
             /\ registered /\ ~Quiet(wq, ready)
  <1>1. ready \in Seq(Handlers) /\ Tail(ready) \in Seq(Handlers)
    BY QueueTypes DEF ChainInv
  <1>2. ~Quiet(wq, ready)
    BY <1>1, QuietTail
  <1>3. PICK w \in Writes : /\ Only(wq, ready, w) /\ Current(w) /\ Belongs(w)
                            /\ reader # "busy" => ~Sealed(req)
    BY <1>2 DEF OrderInv, Writing
  <1>4. w = Written /\ Quiet(wq, Tail(ready))
    BY <1>1, <1>3, TakeLive DEF Written
  <1>5. registered
    BY <1>3 DEF Belongs, ChainInv, ChainOwnsSession
  <1> QED
    BY <1>1, <1>2, <1>3, <1>4, <1>5

\* A write goes on, or the error chain's second one is started.
LEMMA ContinueOrder ==
  ASSUME ChainInv, OrderInv, NEW res, Runs("write", res), ~Quiet(wq, ready),
         NEW w \in Writes, Current(w), Belongs(w),
         Quiet(wq, Tail(ready)), async_write(w, Tail(ready)),
         UNCHANGED <<startup_done, reader, todo, registered, stale>>
  PROVE  OrderInv'
  <1>1. ready \in Seq(Handlers) /\ ready # <<>> /\ Tail(ready) \in Seq(Handlers)
    BY QueueTypes, RunsFacts DEF ChainInv, Runs
  <1>2. Advances
    <2>1. IF reader' = "busy" THEN w.chain = "main" /\ Ahead(w.tag, todo')
          ELSE reader' # "closed" /\ w.chain = "error" /\ w.tag \in {"E", "Z"}
      BY DEF Belongs
    <2>2. UNCHANGED <<req, kind>>
      BY DEF Runs
    <2> QED
      BY <1>1, <2>1, <2>2, CurrentAdvances DEF ChainInv, OrderInv
  <1>3. Reading'
    <2>1. NoNewRead(ready, Tail(ready)) /\ NoNewRead(Tail(ready), ready')
      BY <1>1, TailNoRead, AsyncWriteNoRead
    <2> QED
      BY <2>1, NoNewReadTrans, BesideReading DEF OrderInv
  <1> QED
    BY <1>2, <1>3, HandlerOrder

LEMMA WriteMoreOrder ==
  ASSUME ChainInv, OrderInv, WriteMore \/ WriteAgain
  PROVE  OrderInv'
  <1>1. PICK res : Runs("write", res) /\ Live(Head(ready)) /\ ready # <<>>
    BY DEF WriteMore, WriteAgain, Runs, Live, Written
  <1>2. PICK w \in Writes : /\ w = Written /\ Quiet(wq, Tail(ready))
                            /\ Current(w) /\ Belongs(w)
                            /\ registered /\ ~Quiet(wq, ready)
    BY <1>1, LiveRuns
  <1>3. /\ async_write(w, Tail(ready))
        /\ UNCHANGED <<startup_done, reader, todo, registered, stale>>
    BY <1>2 DEF WriteMore, WriteAgain, UsesFreedSession
  <1> QED
    BY <1>1, <1>2, <1>3, ContinueOrder

LEMMA ErrorWrittenOrder ==
  ASSUME ChainInv, OrderInv, ErrorWritten
  PROVE  OrderInv'
  <1>1. /\ Runs("write", "done") /\ Live(Head(ready)) /\ ready # <<>>
        /\ Written.left = 0 /\ Written.chain = "error" /\ Written.tag = "E"
    BY DEF ErrorWritten, Runs, Live, Written
  <1>2. PICK w \in Writes : /\ w = Written /\ Quiet(wq, Tail(ready))
                            /\ Current(w) /\ Belongs(w)
                            /\ reader # "busy" => ~Sealed(req)
                            /\ registered /\ ~Quiet(wq, ready)
    BY <1>1, LiveRuns
  <1>3. PICK n \in Sizes["Z"] : async_write([w EXCEPT !.tag = "Z", !.left = n], Tail(ready))
    BY <1>2 DEF ErrorWritten, UsesFreedSession
  <1>4. UNCHANGED <<startup_done, reader, todo, registered, stale>>
    BY <1>2 DEF ErrorWritten, UsesFreedSession
  <1> DEFINE z == [w EXCEPT !.tag = "Z", !.left = n]
  <1>5. n \in Nat /\ n > 0
    BY SessionAssumption DEF Tags
  <1>6. /\ z \in Writes /\ z.tag = "Z" /\ z.left > 0 /\ z.req = w.req /\ z.chain = "error"
    BY <1>1, <1>2, <1>5 DEF Writes, Tags
  <1>7. async_write(z, Tail(ready))
    BY <1>3
  <1> HIDE DEF z
  <1>8. reader # "busy" /\ reader # "closed"
    BY <1>1, <1>2 DEF Belongs
  <1>9. ~Cut
    BY <1>1, <1>2 DEF Current, Cut
  <1>10. Current(z)
    BY <1>2, <1>6, <1>8, <1>9, FreshCurrent DEF Current
  <1>11. Belongs(z)
    BY <1>6, <1>8 DEF Belongs
  <1> QED
    BY <1>1, <1>2, <1>4, <1>6, <1>7, <1>10, <1>11, ContinueOrder

\* The end of the error chain: nothing comes after it.
LEMMA ErrorDoneOrder ==
  ASSUME ChainInv, OrderInv, ErrorDone
  PROVE  OrderInv'
  <1>1. /\ Runs("write", "done") /\ ready # <<>> /\ ~Live(Head(ready))
        /\ wq' = wq /\ ready' = Tail(ready)
        /\ UNCHANGED <<sent, req, kind, reader, todo, stale>>
    BY DEF ErrorDone, Runs, Live, Written, NoMoreWrites
  <1>2. ready \in Seq(Handlers)
    BY QueueTypes DEF ChainInv
  <1>3. Writing'
    <2>1. CASE Quiet(wq, ready) /\ ~Cut /\ reader # "busy" /\ (reader = "hdr" => Over)
      BY <1>1, <1>2, <2>1, QuietTail DEF Writing, Cut, Over, Sealed
    <2>2. ASSUME NEW w \in Writes, Only(wq, ready, w), Current(w), Belongs(w),
                 reader # "busy" => ~Sealed(req)
          PROVE  Writing'
      <3>1. Only(wq', ready', w)
        BY <1>1, <1>2, <2>2, TakeDead
      <3>2. Current(w)' /\ Belongs(w)' /\ (reader' # "busy" => ~Sealed(req)')
        BY <1>1, <2>2 DEF Current, Belongs, Cut, Sealed
      <3> QED
        BY <3>1, <3>2 DEF Writing
    <2> QED
      BY <2>1, <2>2 DEF OrderInv, Writing
  <1>4. Advances
    BY <1>1, <1>3 DEF Advances, OrderInv, Ordered, RepliesInOrder, Sealed
  <1>5. Reading'
    <2>1. NoNewRead(ready, ready')
      BY <1>1, <1>2, TailNoRead
    <2>2. CASE Quiet(wq, ready)
      <3>1. Quiet(wq', ready')
        BY <1>1, <1>2, <2>2, QuietTail
      <3> QED
        BY <1>1, <2>1, <3>1 DEF OrderInv, Reading, NoNewRead
    <2> QED
      BY <1>1, <2>1, <2>2, BesideReading DEF OrderInv
  <1> QED
    BY <1>1, <1>4, <1>5, HandlerOrder

\* A message of the answer is out: the next one, or the next request.
LEMMA MainWrittenOrder ==
  ASSUME ChainInv, OrderInv, MainWritten
  PROVE  OrderInv'
  <1>1. /\ Runs("write", "done") /\ Live(Head(ready)) /\ ready # <<>> /\ stale' = stale
        /\ Written.left = 0 /\ Written.chain = "main" /\ Head(ready).op = "write"
        /\ UNCHANGED <<req, kind>>
    BY DEF MainWritten, Runs, Live, Written
  <1>2. PICK w \in Writes : /\ w = Written /\ Quiet(wq, Tail(ready))
                            /\ Tail(ready) \in Seq(Handlers)
                            /\ Current(w) /\ Belongs(w)
    BY <1>1, LiveRuns
  <1>3. Ahead(w.tag, todo) /\ w.tag \in Tags
    BY <1>1, <1>2, MainWriteRunsBusy DEF Belongs, Writes
  <1>4. req > 0 /\ kind \in Owed /\ ~Cut
    BY <1>1, <1>2 DEF Current, Cut
  <1>5. w.tag \notin Final => ~Sealed(req)
    BY <1>2 DEF Current
  <1>6. TypeOK /\ Ordered /\ todo \in Seq(Tags)
    BY DEF ChainInv, OrderInv, TypeOK, SessionTypeOK
  <1>7. reader' \in {"busy", "hdr", "closed"}
    BY ProcessedReader DEF MainWritten, Execute, WriteAll
  <1>8. CASE w.tag = "T" /\ Execute(Tail(ready))
    <2>1. <<"D", "C", "Z">> \in Seq(Tags)
      BY DEF Tags
    <2>2. PICK out \in ExecOutcomes :
              \/ WriteAll(<<"D", "C", "Z">>, Tail(ready))
              \/ out # "ok" /\ Processed(QueryChain(out), Tail(ready))
      BY <1>8 DEF Execute
    <2>3. ~Sealed(req)
      BY <1>5, <1>8 DEF Final
    <2>4. out # "ok" => QueryChain(out) # "sql" /\ (QueryChain(out) = "ok" => Over)
      BY DEF QueryChain, Over
    <2>5. Advances
      BY <1>1, <1>2, <1>4, <1>6, <2>1, <2>2, <2>3, <2>4, StartupAhead,
         WriteAllAdvances, ProcessedAdvances
    <2> QED
      BY <1>1, <1>7, <2>5, NoReading, HandlerOrder
  <1>9. CASE w.tag # "T" /\ todo # <<>> /\ WriteAll(todo, Tail(ready))
    <2>1. w.tag \notin {"N", "Z", "T"} /\ ~Sealed(req)
      BY <1>3, <1>5, <1>9 DEF Ahead, Final
    <2>2. /\ todo[Len(todo)] = "Z"
          /\ \A i \in 1..Len(todo) - 1 : todo[i] \in {"S", "D", "C"}
      BY <1>3, <2>1 DEF Ahead
    <2>3. Ahead(Head(todo), Tail(todo))
      <3>1. /\ Len(todo) \in Nat /\ Len(todo) > 0 /\ Head(todo) = todo[1]
            /\ Len(Tail(todo)) = Len(todo) - 1
            /\ \A i \in 1..Len(todo) - 1 : Tail(todo)[i] = todo[i + 1]
            /\ Tail(todo) \in Seq(Tags)
        BY <1>6, <1>9
      <3>2. CASE Len(todo) = 1
        <4>1. Len(Tail(todo)) = 0 /\ Tail(todo) \in Seq(Tags)
          BY <3>1, <3>2
        <4>2. Tail(todo) = <<>>
          BY <4>1, EmptySeq
        <4> QED
          BY <2>2, <3>1, <3>2, <4>2 DEF Ahead
      <3>3. CASE Len(todo) > 1
        <4>1. Head(todo) \in {"S", "D", "C"}
          BY <2>2, <3>1, <3>3
        <4>2. Tail(todo)[Len(Tail(todo))] = "Z"
          <5>1. Len(todo) - 1 \in 1..Len(todo) - 1 /\ (Len(todo) - 1) + 1 = Len(todo)
            BY <3>1, <3>3
          <5> QED
            BY <2>2, <3>1, <5>1
        <4>3. \A i \in 1..Len(Tail(todo)) - 1 : Tail(todo)[i] \in {"S", "D", "C"}
          BY <2>2, <3>1, <3>3
        <4>4. Tail(todo) # <<>>
          <5>1. Len(Tail(todo)) # 0 /\ Len(<<>>) = 0
            BY <3>1, <3>3
          <5> QED
            BY <5>1
        <4> QED
          BY <4>1, <4>2, <4>3, <4>4 DEF Ahead
      <3>4. Len(todo) = 1 \/ Len(todo) > 1
        BY <3>1
      <3> QED
        BY <3>2, <3>3, <3>4
    <2>4. Advances
      BY <1>1, <1>2, <1>4, <1>6, <1>9, <2>1, <2>3, WriteAllAdvances
    <2> QED
      BY <1>1, <1>7, <2>4, NoReading, HandlerOrder
  <1>10. CASE w.tag # "T" /\ todo = <<>> /\ Processed("ok", Tail(ready))
    <2>1. w.left = 0 /\ w.tag \in Final
      BY <1>1, <1>2, <1>3, <1>10 DEF Ahead, Final
    <2>2. Over
      BY <1>2, <2>1 DEF Current, Over
    <2>3. Advances
      BY <1>1, <1>2, <1>4, <1>6, <1>10, <2>2, ProcessedAdvances
    <2> QED
      BY <1>1, <1>7, <2>3, NoReading, HandlerOrder
  <1> QED
    BY <1>2, <1>8, <1>9, <1>10 DEF MainWritten

-----------------------------------------------------------------------------
LEMMA OrderStep ==
  ASSUME ~Pipelining
  PROVE  ChainInv /\ OrderInv /\ [Next]_vars => OrderInv'
  <1> SUFFICES ASSUME ChainInv, OrderInv, [Next]_vars
               PROVE  OrderInv'
    OBVIOUS
  <1>1. CASE UNCHANGED vars
    <2>1. UNCHANGED <<wq, ready, sent, sessionVars>>
      BY <1>1 DEF vars, streamVars
    <2>2. ~stale' /\ Writing' /\ Reading' /\ Ordered' /\ \A r : Sealed(r)' <=> Sealed(r)
      BY <2>1, ServerStays
    <2> QED
      BY <1>1, <2>2 DEF OrderInv, Wire, Asked, vars, streamVars, clientVars, sessionVars
  <1>2. CASE Client
    BY <1>2, ClientOrder DEF ChainInv
  <1>3. CASE Kernel
    BY <1>3, SocketOrder, HeaderArrivesOrder, ReadEndsOrder DEF Kernel, ChainInv
  <1>4. CASE EventLoop
    BY <1>4, HeaderReadOrder, BodyReadOrder, ReadFailedOrder, WriteMoreOrder,
       MainWrittenOrder, ErrorWrittenOrder, ErrorDoneOrder
    DEF EventLoop
  <1> QED
    BY <1>1, <1>2, <1>3, <1>4 DEF Next

LEMMA OrderInvHolds ==
  ASSUME ~Pipelining
  PROVE  Spec => []OrderInv
  BY InitOrder, OrderStep, ChainInvHolds, PTL DEF Spec

\* A session is never used after it was destroyed: the error chain, which
\* nothing waits for, is over before the next request is read.
THEOREM NoStaleUseHolds ==
  ASSUME ~Pipelining
  PROVE  Spec => []NoStaleUse
  <1>1. OrderInv => NoStaleUse
    BY DEF OrderInv, NoStaleUse
  <1> QED
    BY <1>1, OrderInvHolds, PTL

\* The answers come in the order of the requests, each message in one piece.
THEOREM RepliesInOrderHolds ==
  ASSUME ~Pipelining
  PROVE  Spec => []RepliesInOrder
  <1>1. OrderInv => RepliesInOrder
    BY DEF OrderInv, Ordered
  <1> QED
    BY <1>1, OrderInvHolds, PTL

-----------------------------------------------------------------------------
(***************************************************************************)
(* Client and server do not wait for each other                            *)
(***************************************************************************)
\* A read fails when the client has gone, and not before.
FailedRead ==
    \A j \in DOMAIN ready : ready[j].op # "write" /\ ready[j].res = "failed" => peer # "open"

\* What makes read() reject, when its handlers throw nothing but SqlExceptions.
Lost == reader = "lost" => peer # "open" \/ kind = "BadLength"

\* The request the client waits for is owed an answer.
WaitingOwed ==
    /\ waiting = req /\ req > 0 => kind \in Owed
    /\ \A k \in DOMAIN inbound : waiting = req + k => inbound[k] \in Owed

\* The client sent something behind it only when it had its answer.
Behind == waiting # asked => waiting = 0 \/ Sealed(waiting)

WaitInv == FailedRead /\ Lost /\ WaitingOwed /\ Behind

LEMMA InitWait == Init => WaitInv
  BY DEF Init, StreamInit, WaitInv, FailedRead, Lost, WaitingOwed, Behind

LEMMA ClientSendWait ==
  ASSUME ~Pipelining, TypeOK, OrderInv, WaitInv, NEW k \in Kinds, ClientSend(k)
  PROVE  WaitInv'
  <1>1. /\ UNCHANGED <<req, kind, peer, ready, reader, sent>> /\ peer = "open"
        /\ inbound' = Append(inbound, k) /\ asked' = asked + 1
        /\ waiting' = IF k \in Owed THEN asked + 1 ELSE waiting
    BY DEF ClientSend, sessionVars, Owed
  <1>2. inbound \in Seq(Kinds) /\ req \in Nat /\ asked \in Nat /\ waiting \in Nat
    BY DEF TypeOK, StreamTypeOK, SessionTypeOK, ClientTypeOK
  <1>3. /\ Len(inbound) \in Nat
        /\ \A i \in DOMAIN inbound' :
               (i \in DOMAIN inbound /\ i <= Len(inbound) /\ inbound'[i] = inbound[i])
                   \/ (i = Len(inbound) + 1 /\ inbound'[i] = k)
    BY <1>1, <1>2
  <1>4. req + Len(inbound) = asked /\ waiting <= asked
    BY <1>1 DEF OrderInv, Wire
  <1>5. FailedRead' /\ Lost'
    BY <1>1 DEF WaitInv, FailedRead, Lost
  <1>6. WaitingOwed'
    <2>1. waiting' = req' /\ req' > 0 => kind' \in Owed
      BY <1>1, <1>2, <1>3, <1>4 DEF WaitInv, WaitingOwed
    <2>2. ASSUME NEW i \in DOMAIN inbound', waiting' = req' + i
          PROVE  inbound'[i] \in Owed
      <3>1. CASE i \in DOMAIN inbound /\ i <= Len(inbound) /\ inbound'[i] = inbound[i]
        <4>1. i \in Nat /\ req + i <= asked
          BY <1>2, <1>4, <3>1
        <4>2. waiting = req + i
          BY <1>1, <1>2, <2>2, <4>1
        <4> QED
          BY <3>1, <4>2 DEF WaitInv, WaitingOwed
      <3>2. CASE i = Len(inbound) + 1 /\ inbound'[i] = k
        BY <1>1, <1>2, <1>3, <1>4, <2>2, <3>2
      <3> QED
        BY <1>3, <3>1, <3>2
    <2> QED
      BY <2>1, <2>2 DEF WaitingOwed
  <1>7. Behind'
    <2>1. sent \in Seq(Chunks) /\ unread \in Nat
      BY DEF TypeOK, StreamTypeOK
    <2>2. Answered(waiting) => Sealed(waiting)
      BY <2>1 DEF Answered, Sealed, Final
    <2>3. waiting = 0 \/ Sealed(waiting)
      BY <2>2 DEF ClientSend, MaySend
    <2>4. CASE k \in Owed
      BY <1>1, <2>4 DEF Behind
    <2>5. CASE k \notin Owed
      BY <1>1, <2>3, <2>5 DEF Behind, Sealed
    <2> QED
      BY <2>4, <2>5
  <1> QED
    BY <1>5, <1>6, <1>7 DEF WaitInv

LEMMA ClientWait ==
  ASSUME ~Pipelining, TypeOK, OrderInv, WaitInv, Client
  PROVE  WaitInv'
  <1>1. ASSUME ClientRecv \/ ClientClose \/ ClientReset, UNCHANGED <<clientVars, sessionVars>>
        PROVE  WaitInv'
    <2>1. inbound \in Seq(Kinds)
      BY DEF TypeOK, StreamTypeOK
    <2>2. /\ UNCHANGED <<req, kind, asked, waiting, ready, reader, sent>>
          /\ peer' = "open" => peer = "open"
      BY <1>1 DEF ClientRecv, ClientClose, ClientReset, clientVars, sessionVars
    <2>3. /\ DOMAIN inbound' \subseteq DOMAIN inbound
          /\ \A i \in DOMAIN inbound' : inbound'[i] = inbound[i]
      BY <1>1, <2>1 DEF ClientRecv, ClientClose, ClientReset
    <2>4. FailedRead' /\ Lost'
      BY <2>2 DEF WaitInv, FailedRead, Lost
    <2>5. WaitingOwed' /\ Behind'
      BY <2>2, <2>3 DEF WaitInv, WaitingOwed, Behind, Sealed
    <2> QED
      BY <2>4, <2>5 DEF WaitInv
  <1> QED
    BY <1>1, ClientSendWait DEF Client

LEMMA BesideWait ==
  ASSUME WaitInv, UNCHANGED <<peer, reader, kind>>, NoNewRead(ready, ready')
  PROVE  FailedRead' /\ Lost'
  BY DEF WaitInv, FailedRead, Lost, NoNewRead

\* The history only grows.
LEMMA AsyncWriteSends ==
  ASSUME NEW w, NEW posted, async_write(w, posted)
  PROVE  sent' = sent \/ \E c : sent' = Append(sent, c)
  BY DEF async_write, Transfer

LEMMA ProcessedSends ==
  ASSUME NEW out, NEW posted, Processed(out, posted)
  PROVE  sent' = sent \/ \E c : sent' = Append(sent, c)
  BY AsyncWriteSends DEF Processed, DoRead, NoMoreWrites, ReportError, Finish, CloseSocket

LEMMA WriteAllSends ==
  ASSUME NEW msgs, NEW posted, WriteAll(msgs, posted)
  PROVE  sent' = sent \/ \E c : sent' = Append(sent, c)
  BY AsyncWriteSends DEF WriteAll

LEMMA ServerSends ==
  ASSUME Kernel \/ EventLoop
  PROVE  sent' = sent \/ \E c : sent' = Append(sent, c)
  <1>1. CASE Kernel
    BY <1>1 DEF Kernel, SocketWritable, SocketBroken, Transfer, HeaderArrives, HeaderFails,
                BodyArrives, BodyFails
  <1>2. CASE HeaderRead \/ ReadFailed \/ ErrorDone
    BY <1>2 DEF HeaderRead, ReadFailed, ErrorDone, Abandon, NoMoreWrites
  <1>3. CASE WriteMore \/ WriteAgain \/ ErrorWritten
    BY <1>3, AsyncWriteSends DEF WriteMore, WriteAgain, ErrorWritten, UsesFreedSession, NoMoreWrites
  <1>4. CASE BodyRead
    <2>1. CASE HandleStartup(Tail(ready))
      BY <2>1, WriteAllSends DEF HandleStartup
    <2>2. CASE HandleQuery(Tail(ready))
      BY <2>2, WriteAllSends, ProcessedSends DEF HandleQuery, Abandon, NoMoreWrites
    <2>3. CASE HandleTerminate(Tail(ready)) \/ HandleOther(Tail(ready))
      BY <2>3 DEF HandleTerminate, HandleOther, Finish, CloseSocket, DoRead, NoMoreWrites
    <2> QED
      BY <1>4, <2>1, <2>2, <2>3 DEF BodyRead
  <1>5. CASE MainWritten
    BY <1>5, WriteAllSends, ProcessedSends DEF MainWritten, Execute
  <1> QED
    BY <1>1, <1>2, <1>3, <1>4, <1>5 DEF EventLoop

LEMMA SealedStays ==
  ASSUME TypeOK, Kernel \/ EventLoop
  PROVE  \A r : Sealed(r) => Sealed(r)'
  <1>1. sent \in Seq(Chunks)
    BY DEF TypeOK, StreamTypeOK
  <1>2. \A i \in DOMAIN sent : i \in DOMAIN sent' /\ sent'[i] = sent[i]
    BY <1>1, ServerSends
  <1> QED
    BY <1>2 DEF Sealed

LEMMA KernelWait ==
  ASSUME ChainInv, OrderInv, WaitInv, Kernel
  PROVE  WaitInv'
  <1>1. TypeOK /\ ready \in Seq(Handlers) /\ \A r : Sealed(r) => Sealed(r)'
    BY QueueTypes, SealedStays DEF ChainInv
  <1>2. ASSUME SocketWritable \/ SocketBroken, UNCHANGED <<clientVars, sessionVars>>
        PROVE  WaitInv'
    <2>1. \E w, res : ready' = Append(ready, WriteHandler(w, res))
      BY <1>2 DEF SocketWritable, SocketBroken, Transfer
    <2>2. NoNewRead(ready, ready')
      BY <1>1, <2>1, AppendWriteNoRead
    <2>3. UNCHANGED <<peer, inbound, asked, waiting, req, kind, reader>>
      BY <1>2 DEF SocketWritable, SocketBroken, clientVars, sessionVars
    <2> QED
      BY <1>1, <2>2, <2>3, BesideWait DEF WaitInv, WaitingOwed, Behind
  <1>3. ASSUME reader \in {"hdr", "body"}, reader' = "posted", NEW x \in Handlers,
               ready' = Append(ready, x), x.res = "failed" => peer' # "open"
        PROVE  FailedRead' /\ Lost'
    <2>1. \A j \in DOMAIN ready' : ready'[j].op = "write" \/ ready'[j] = x
      BY <1>3, PostedReads
    <2> QED
      BY <1>3, <2>1 DEF FailedRead, Lost
  <1>4. CASE HeaderArrives
    <2>1. /\ reader = "hdr" /\ inbound # <<>> /\ reader' = "posted"
          /\ req' = req + 1 /\ kind' = Head(inbound) /\ inbound' = Tail(inbound)
          /\ ready' = Append(ready, ReadHandler("hdr", "done"))
          /\ UNCHANGED <<asked, waiting>>
      BY <1>4 DEF HeaderArrives, clientVars
    <2>2. inbound \in Seq(Kinds) /\ req \in Nat
      BY <1>1 DEF TypeOK, StreamTypeOK, SessionTypeOK
    <2>3. /\ 1 \in DOMAIN inbound /\ inbound[1] = Head(inbound)
          /\ \A k \in DOMAIN inbound' :
                 k \in Nat /\ k + 1 \in DOMAIN inbound /\ inbound'[k] = inbound[k + 1]
      BY <2>1, <2>2
    <2>4. FailedRead' /\ Lost'
      BY <1>3, <2>1, ReadIsDead
    <2>5. waiting' = req' => kind' \in Owed
      BY <2>1, <2>3 DEF WaitInv, WaitingOwed
    <2>6. ASSUME NEW k \in DOMAIN inbound', waiting' = req' + k
          PROVE  inbound'[k] \in Owed
      <3>1. waiting = req + (k + 1)
        BY <2>1, <2>2, <2>3, <2>6
      <3> QED
        BY <2>3, <3>1 DEF WaitInv, WaitingOwed
    <2>7. Behind'
      BY <1>1, <2>1 DEF WaitInv, Behind
    <2> QED
      BY <2>4, <2>5, <2>6, <2>7 DEF WaitInv, WaitingOwed
  <1>5. CASE HeaderFails \/ BodyArrives \/ BodyFails
    <2>1. /\ UNCHANGED <<peer, inbound, asked, waiting, req, kind>>
          /\ reader \in {"hdr", "body"} /\ reader' = "posted"
      BY <1>5 DEF HeaderFails, BodyArrives, BodyFails, clientVars
    <2>2. PICK x \in Handlers : ready' = Append(ready, x) /\ (x.res = "failed" => peer # "open")
      BY <1>5, ReadIsDead DEF HeaderFails, BodyArrives, BodyFails, BodyMayFail
    <2>3. FailedRead' /\ Lost'
      BY <1>3, <2>1, <2>2
    <2> QED
      BY <1>1, <2>1, <2>3 DEF WaitInv, WaitingOwed, Behind
  <1> QED
    BY <1>2, <1>4, <1>5 DEF Kernel

\* No read is posted once the chain is elsewhere.
LEMMA NoReadLeft ==
  ASSUME ChainInv', reader' \in {"hdr", "body", "busy", "lost", "closed"}
  PROVE  FailedRead'
  <1>1. \A j \in DOMAIN ready' : OnChain(ready'[j]) => ready'[j].op = "write"
    BY DEF ChainInv, OneActivity, ChainIn
  <1> QED
    BY <1>1 DEF FailedRead, OnChain

LEMMA EventLoopWait ==
  ASSUME ParseOutcomes \subseteq {"ok", "sql", "fatal"},
         ChainInv, WaitInv, EventLoop, ChainInv'
  PROVE  WaitInv'
  <1>1. TypeOK /\ ready \in Seq(Handlers) /\ \A r : Sealed(r) => Sealed(r)'
    BY QueueTypes, SealedStays DEF ChainInv
  <1>2. UNCHANGED <<peer, inbound, asked, waiting, req, kind>>
    BY DEF EventLoop, HeaderRead, BodyRead, ReadFailed, WriteMore, WriteAgain, MainWritten,
           ErrorWritten, ErrorDone, Runs, clientVars
  <1>3. FailedRead' /\ Lost'
    <2>1. CASE HeaderRead
      <3>1. reader' = "body" \/ (reader' = "lost" /\ kind = "BadLength")
        BY <2>1 DEF HeaderRead, Abandon
      <3> QED
        BY <1>2, <3>1, NoReadLeft DEF Lost
    <2>2. CASE BodyRead
      <3>1. reader' \in {"busy", "hdr", "closed"}
        BY <2>2, ProcessedReader
        DEF BodyRead, HandleStartup, HandleQuery, HandleTerminate, HandleOther,
            WriteAll, DoRead, Finish
      <3> QED
        BY <3>1, NoReadLeft DEF Lost
    <2>3. CASE ReadFailed
      <3>1. ready # <<>> /\ Head(ready).op # "write" /\ Head(ready).res = "failed"
            /\ reader' = "lost"
        BY <2>3 DEF ReadFailed, Runs, Abandon
      <3>2. 1 \in DOMAIN ready /\ ready[1] = Head(ready)
        BY <1>1, <3>1
      <3>3. peer # "open"
        BY <3>1, <3>2 DEF WaitInv, FailedRead
      <3> QED
        BY <1>2, <3>1, <3>3, NoReadLeft DEF Lost
    <2>4. CASE MainWritten
      <3>1. reader' \in {"busy", "hdr", "closed"}
        BY <2>4, ProcessedReader DEF MainWritten, Execute, WriteAll
      <3> QED
        BY <3>1, NoReadLeft DEF Lost
    <2>5. CASE WriteMore \/ WriteAgain \/ ErrorWritten \/ ErrorDone
      <3>1. ready # <<>> /\ Tail(ready) \in Seq(Handlers)
        <4>1. PICK res \in {"done", "failed"} : Runs("write", res)
          BY <2>5 DEF WriteMore, WriteAgain, ErrorWritten, ErrorDone
        <4> QED
          BY <1>1, <4>1, RunsFacts DEF Runs
      <3>2. NoNewRead(ready, Tail(ready))
        BY <1>1, <3>1, TailNoRead
      <3>3. NoNewRead(Tail(ready), ready')
        <4>1. ready' = Tail(ready) \/ \E w : async_write(w, Tail(ready))
          BY <2>5 DEF WriteMore, WriteAgain, ErrorWritten, ErrorDone, UsesFreedSession,
                      NoMoreWrites
        <4>2. NoNewRead(Tail(ready), Tail(ready))
          BY DEF NoNewRead
        <4> QED
          BY <3>1, <4>1, <4>2, AsyncWriteNoRead
      <3>4. reader' = reader
        BY <2>5 DEF WriteMore, WriteAgain, ErrorWritten, ErrorDone, UsesFreedSession
      <3> QED
        BY <1>2, <3>2, <3>3, <3>4, NoNewReadTrans, BesideWait
    <2> QED
      BY <2>1, <2>2, <2>3, <2>4, <2>5 DEF EventLoop
  <1> QED
    BY <1>1, <1>2, <1>3 DEF WaitInv, WaitingOwed, Behind

LEMMA WaitStep ==
  ASSUME ~Pipelining, ParseOutcomes \subseteq {"ok", "sql", "fatal"}
  PROVE  ChainInv /\ OrderInv /\ WaitInv /\ [Next]_vars /\ ChainInv' => WaitInv'
  <1> SUFFICES ASSUME ChainInv, OrderInv, WaitInv, [Next]_vars, ChainInv'
               PROVE  WaitInv'
    OBVIOUS
  <1>1. CASE UNCHANGED vars
    BY <1>1 DEF WaitInv, FailedRead, Lost, WaitingOwed, Behind, Sealed,
                vars, streamVars, clientVars, sessionVars
  <1> QED
    BY <1>1, ClientWait, KernelWait, EventLoopWait DEF Next, ChainInv

\* An idle session of a client that is there has answered what it was asked.
LEMMA IdleAnswered ==
  ASSUME ExecOutcomes \subseteq {"ok", "exn"}, TypeOK, OrderInv, WaitInv
  PROVE  NoMutualWait
  <1> SUFFICES ASSUME Idle, waiting > 0, peer = "open"
               PROVE  Sealed(waiting)
    BY DEF NoMutualWait, Sealed, Final
  <1>1. Quiet(wq, ready) /\ inbound = <<>> /\ reader \in {"hdr", "lost"}
    BY DEF Idle, Quiet
  <1>2. req = asked
    BY <1>1 DEF OrderInv, Wire, TypeOK, SessionTypeOK
  <1>3. CASE waiting # asked
    BY <1>3 DEF WaitInv, Behind
  <1>4. CASE waiting = asked
    <2>1. req > 0 /\ kind \in Owed
      BY <1>2, <1>4 DEF WaitInv, WaitingOwed
    <2>2. reader = "hdr"
      BY <1>1, <2>1 DEF WaitInv, Lost, Owed, Hello
    <2>3. Over
      BY <1>1, <2>2, NothingCut DEF OrderInv
    <2> QED
      BY <1>2, <1>4, <2>1, <2>3 DEF Over
  <1> QED
    BY <1>3, <1>4

\* When the handlers throw what the chains report, a session that has nothing
\* left to do has answered the request its client waits for.
THEOREM NoMutualWaitHolds ==
  ASSUME ~Pipelining, ParseOutcomes \subseteq {"ok", "sql", "fatal"},
         ExecOutcomes \subseteq {"ok", "exn"}
  PROVE  Spec => []NoMutualWait
  <1>1. Spec => []WaitInv
    BY InitWait, WaitStep, OrderInvHolds, ChainInvHolds, PTL DEF Spec
  <1>2. ChainInv /\ OrderInv /\ WaitInv => NoMutualWait
    BY IdleAnswered DEF ChainInv
  <1> QED
    BY <1>1, <1>2, ChainInvHolds, OrderInvHolds, PTL
=============================================================================
