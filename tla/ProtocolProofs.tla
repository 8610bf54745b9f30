--------------------------- MODULE ProtocolProofs ----------------------------
(***************************************************************************)
(* For a client that waits for its answers, the session implements         *)
(* SimpleQuery: one whole answer after another, message by message.        *)
(*                                                                         *)
(* OrderProofs shows that one write at most is under way, and whose it is. *)
(* What is added here is what that write leads to (Saying): the messages   *)
(* said so far, what is left of the write, and the messages its chain      *)
(* still holds together are an answer to the request, or the first message *)
(* of one whose statement is still to be executed.  A write that comes to  *)
(* its end with nothing behind it has thus said a whole answer, as long as *)
(* no SqlException of an ExecHandler ends the answer there.                *)
(***************************************************************************)
EXTENDS OrderProofs

\* The messages to come from the write w, when its main chain holds `more`.
Missing(w, more) ==
    (IF w.left > 0 THEN <<w.tag>> ELSE <<>>)
        \o (IF w.chain = "main" THEN more ELSE IF w.tag = "E" THEN <<"Z">> ELSE <<>>)

\* What the messages said, with those to come, make in the end.
Whole(w, more) == Said(req) \o Missing(w, more)

\* The write w, with `more` to follow it on its main chain, leads to an answer.
\* The RowDescription of a query comes by itself: what follows it is known when
\* the statement was executed.  Only the first batch of rows may be empty.
Leads(w, more) ==
    /\ IF w.tag = "T" THEN w.chain = "main" /\ kind = "Query" /\ Whole(w, more) = <<"T">>
       ELSE Whole(w, more) \in Protocol!Answers[kind]
    /\ \A i \in DOMAIN more : more[i] # "D"

Saying(w) == Leads(w, todo)

SayInv == \A w \in Writes : Only(wq, ready, w) => Saying(w)

\* The chain has ended, and the connection with it.
Gone == reader \in {"lost", "closed"}

-----------------------------------------------------------------------------
(***************************************************************************)
(* The messages of an answer                                               *)
(***************************************************************************)
LEMMA AnswerValues ==
  /\ DOMAIN Protocol!Answers = Owed
  /\ Protocol!Answers["Startup"] = {StartupReply}
  /\ Protocol!Answers["SSLRequest"] = {<<"N">>}
  /\ Protocol!Answers["Query"]
         = {<<"T", "D", "C", "Z">>, <<"T", "C", "Z">>, <<"E", "Z">>}
  BY DEF Protocol!Answers, Owed, Hello, StartupReply

\* Answers put together of what is said and what is to come.
LEMMA AnswerConcats ==
  /\ <<"E">> \o <<"Z">> = <<"E", "Z">>
  /\ <<"T">> \o <<"C", "Z">> = <<"T", "C", "Z">>
  /\ <<"T">> \o <<"D", "C", "Z">> = <<"T", "D", "C", "Z">>
  <1>1. ASSUME NEW h \in Tags, NEW s \in Seq(Tags), NEW t \in Seq(Tags),
               Len(t) = Len(s) + 1, t[1] = h, \A i \in 1..Len(s) : t[i + 1] = s[i]
        PROVE  <<h>> \o s = t
    <2>1. /\ <<h>> \in Seq(Tags) /\ Len(<<h>>) = 1 /\ <<h>>[1] = h
          /\ Len(s) \in Nat
      OBVIOUS
    <2>2. /\ <<h>> \o s \in Seq(Tags) /\ Len(<<h>> \o s) = 1 + Len(s)
          /\ \A i \in 1..1 + Len(s) : (<<h>> \o s)[i] = IF i <= 1 THEN h ELSE s[i - 1]
      BY <2>1, ConcatProperties
    <2>3. \A i \in 1..Len(t) : (<<h>> \o s)[i] = t[i]
      BY <1>1, <2>1, <2>2
    <2> QED
      BY <1>1, <2>1, <2>2, <2>3, SeqEqual
  <1>2. <<"E">> \o <<"Z">> = <<"E", "Z">>
    <2>1. <<"Z">> \in Seq(Tags) /\ <<"E", "Z">> \in Seq(Tags) /\ "E" \in Tags
      BY DEF Tags
    <2>2. \A i \in 1..1 : i = 1
      OBVIOUS
    <2>3. \A i \in 1..1 : <<"E", "Z">>[i + 1] = <<"Z">>[i]
      BY <2>2
    <2>4. Len(<<"Z">>) = 1 /\ Len(<<"E", "Z">>) = 1 + 1 /\ <<"E", "Z">>[1] = "E"
      OBVIOUS
    <2> QED
      BY <1>1, <2>1, <2>3, <2>4
  <1>3. <<"T">> \o <<"C", "Z">> = <<"T", "C", "Z">>
    <2>1. <<"C", "Z">> \in Seq(Tags) /\ <<"T", "C", "Z">> \in Seq(Tags) /\ "T" \in Tags
      BY DEF Tags
    <2>2. \A i \in 1..2 : i = 1 \/ i = 2
      OBVIOUS
    <2>3. \A i \in 1..2 : <<"T", "C", "Z">>[i + 1] = <<"C", "Z">>[i]
      BY <2>2
    <2>4. Len(<<"C", "Z">>) = 2 /\ Len(<<"T", "C", "Z">>) = 2 + 1 /\ <<"T", "C", "Z">>[1] = "T"
      OBVIOUS
    <2> QED
      BY <1>1, <2>1, <2>3, <2>4
  <1>4. <<"T">> \o <<"D", "C", "Z">> = <<"T", "D", "C", "Z">>
    <2>1. <<"D", "C", "Z">> \in Seq(Tags) /\ <<"T", "D", "C", "Z">> \in Seq(Tags) /\ "T" \in Tags
      BY DEF Tags
    <2>2. \A i \in 1..3 : i = 1 \/ i = 2 \/ i = 3
      OBVIOUS
    <2>3. \A i \in 1..3 : <<"T", "D", "C", "Z">>[i + 1] = <<"D", "C", "Z">>[i]
      BY <2>2
    <2>4. Len(<<"D", "C", "Z">>) = 3 /\ Len(<<"T", "D", "C", "Z">>) = 3 + 1 /\ <<"T", "D", "C", "Z">>[1] = "T"
      OBVIOUS
    <2> QED
      BY <1>1, <2>1, <2>3, <2>4
  <1> QED
    BY <1>2, <1>3, <1>4

LEMMA PrefixOfConcat ==
  ASSUME NEW a \in Seq(Tags), NEW b \in Seq(Tags)
  PROVE  Protocol!IsPrefix(a, a \o b)
  <1>1. /\ a \o b \in Seq(Tags) /\ Len(a) \in Nat /\ Len(b) \in Nat
        /\ Len(a \o b) = Len(a) + Len(b)
        /\ \A i \in 1..Len(a) : (a \o b)[i] = a[i]
    BY ConcatProperties
  <1>2. SubSeq(a, 1, Len(a)) = SubSeq(a \o b, 1, Len(a))
    BY <1>1
  <1> QED
    BY <1>1, <1>2 DEF Protocol!IsPrefix

LEMMA PrefixOfAppend ==
  ASSUME NEW a \in Seq(Tags), NEW t \in Tags
  PROVE  /\ Protocol!IsPrefix(a, a) /\ Protocol!IsPrefix(a, Append(a, t))
         /\ Len(Append(a, t)) = Len(a) + 1
  <1>1. <<t>> \in Seq(Tags) /\ <<>> \in Seq(Tags)
    OBVIOUS
  <1>2. a \o <<t>> = Append(a, t) /\ a \o <<>> = a
    OBVIOUS
  <1>3. Protocol!IsPrefix(a, a \o <<>>) /\ Protocol!IsPrefix(a, a \o <<t>>)
    BY <1>1, PrefixOfConcat
  <1>4. Len(Append(a, t)) = Len(a) + 1
    OBVIOUS
  <1>5. Protocol!IsPrefix(a, a)
    BY <1>2, <1>3
  <1>6. Protocol!IsPrefix(a, Append(a, t))
    BY <1>2, <1>3, Zenon
  <1> QED
    BY <1>4, <1>5, <1>6

LEMMA SaidOK == TypeOK => Said(req) \in Seq(Tags)
  BY SaidType DEF TypeOK, SessionTypeOK

LEMMA SaidNext == (TypeOK => Said(req) \in Seq(Tags))'
  BY SaidOK, PTL

LEMMA MissingType ==
  ASSUME NEW w \in Writes, NEW more \in Seq(Tags)
  PROVE  Missing(w, more) \in Seq(Tags)
  <1>1. w.tag \in Tags /\ <<"Z">> \in Seq(Tags) /\ <<>> \in Seq(Tags)
    BY DEF Writes, Tags
  <1> QED
    BY <1>1, ConcatProperties DEF Missing

\* One message more is said, or none.
Grows == Said(req)' = Said(req) \/ \E t \in Tags : Said(req)' = Append(Said(req), t)

\* A write that moves on says what it left to be said.
LEMMA MovesSaying ==
  ASSUME TypeOK, NEW w \in Writes, NEW v \in Writes, w.req = req,
         v.chain = w.chain, v.tag = w.tag, MovesTo(w, v), UNCHANGED req
  PROVE  /\ Grows
         /\ \A more \in Seq(Tags) :
                Said(req)' \o Missing(v, more) = Said(req) \o Missing(w, more)
  <1>1. Said(req) \in Seq(Tags) /\ w.tag \in Tags /\ w.left \in Nat
    BY SaidType DEF TypeOK, SessionTypeOK, Writes
  <1>2. CASE v.left = w.left /\ sent' = sent
    BY <1>2 DEF Said, Grows, Missing
  <1>3. ASSUME w.left > 0, v.left = w.left - 1, NEW c \in Chunks, c.req = w.req,
               c.said = SaidWith(w), sent' = Append(sent, c)
        PROVE  /\ Grows
               /\ \A more \in Seq(Tags) :
                      Said(req)' \o Missing(v, more) = Said(req) \o Missing(w, more)
    <2>1. Said(req)' = SaidWith(w)
      <3>1. sent \in Seq(Chunks)
        BY DEF TypeOK, StreamTypeOK
      <3>2. Len(sent') = Len(sent) + 1 /\ sent'[Len(sent')] = c /\ sent' # <<>>
        BY <1>3, <3>1
      <3> QED
        BY <1>3, <3>2 DEF Said
    <2>2. CASE w.left = 1
      <3>1. Said(req)' = Append(Said(req), w.tag)
        BY <2>1, <2>2 DEF SaidWith
      <3>2. ASSUME NEW x \in Seq(Tags)
            PROVE  Append(Said(req), w.tag) \o (<<>> \o x) = Said(req) \o (<<w.tag>> \o x)
        <4>1. <<w.tag>> \in Seq(Tags) /\ <<>> \o x = x
          BY <1>1
        <4>2. Append(Said(req), w.tag) = Said(req) \o <<w.tag>>
          BY <1>1
        <4> QED
          BY <1>1, <4>1, <4>2, ConcatAssociative
      <3>3. ASSUME NEW more \in Seq(Tags)
            PROVE  Said(req)' \o Missing(v, more) = Said(req) \o Missing(w, more)
        <4>1. more \in Seq(Tags) /\ <<"Z">> \in Seq(Tags) /\ <<>> \in Seq(Tags)
          BY DEF Tags
        <4>2. ~(v.left > 0)
          BY <1>3, <2>2
        <4> QED
          BY <1>3, <3>1, <3>2, <4>1, <4>2 DEF Missing
      <3> QED
        BY <1>1, <3>1, <3>3 DEF Grows
    <2>3. CASE w.left # 1
      <3>1. v.left > 0
        BY <1>1, <1>3, <2>3
      <3> QED
        BY <1>3, <2>1, <2>3, <3>1 DEF SaidWith, Grows, Missing
    <2> QED
      BY <2>2, <2>3
  <1> QED
    BY <1>2, <1>3 DEF MovesTo

-----------------------------------------------------------------------------
(***************************************************************************)
(* The mode of the connection, and the steps of SimpleQuery                *)
(***************************************************************************)
LEMMA OnlyOne ==
  ASSUME NEW q, NEW h, NEW v, NEW w, Only(q, h, v), Only(q, h, w)
  PROVE  v = w
  <1>1. CASE Len(q) = 1
    <2>1. q # <<>>
      BY <1>1, EmptySeq
    <2> QED
      BY <2>1 DEF Only
  <1>2. CASE Len(q) # 1
    BY <1>2 DEF Only
  <1> QED
    BY <1>1, <1>2

\* The mode is told by the write under way alone.
ModeFacts ==
    /\ Gone <=> Mode = "closed"
    /\ ~Gone /\ Quiet(wq, ready) => Mode = "listening"
    /\ ~Gone /\ ~Quiet(wq, ready) => Mode = "answering"

LEMMA ModeIs == TypeOK /\ OrderInv => ModeFacts
  <1> SUFFICES ASSUME TypeOK, OrderInv
               PROVE  ModeFacts
    OBVIOUS
  <1>1. Gone <=> Mode = "closed"
    BY DEF Gone, Mode
  <1>2. wq \in Seq(Writes) /\ ready \in Seq(Handlers)
    BY QueueTypes
  <1>3. ASSUME ~Gone, Quiet(wq, ready)
        PROVE  Mode = "listening"
    <2>1. reader # "busy"
      BY <1>3, NothingCut DEF OrderInv
    <2>2. ~ErrorUnderWay
      BY <1>3 DEF ErrorUnderWay, Quiet, Live, OnChain
    <2> QED
      BY <1>3, <2>1, <2>2 DEF Mode, Gone
  <1>4. ASSUME ~Gone, ~Quiet(wq, ready), reader # "busy"
        PROVE  ErrorUnderWay
    <2>1. PICK w \in Writes : /\ Only(wq, ready, w) /\ Current(w) /\ Belongs(w)
                              /\ ~Sealed(req)
      BY <1>4 DEF OrderInv, Writing
    <2>2. w.chain = "error" /\ (w.tag = "E" \/ w.left > 0)
      BY <1>4, <2>1 DEF Belongs, Current, Final, Writes
    <2>3. CASE Len(wq) = 1 /\ Head(wq) = w
      <3>1. 1 \in DOMAIN wq /\ wq[1] = w
        BY <1>2, <2>3
      <3> QED
        BY <2>2, <3>1 DEF ErrorUnderWay
    <2>4. ASSUME NEW j \in DOMAIN ready, Live(ready[j]), ready[j].write = w
          PROVE  ErrorUnderWay
      BY <2>2, <2>4 DEF ErrorUnderWay, Live, OnChain
    <2> QED
      BY <2>1, <2>3, <2>4 DEF Only
  <1>5. ~Gone /\ ~Quiet(wq, ready) => Mode = "answering"
    BY <1>4 DEF Mode, Gone
  <1> QED
    BY <1>1, <1>3, <1>5 DEF ModeFacts

LEMMA ModeNext == (TypeOK /\ OrderInv)' => ModeFacts'
  BY ModeIs, PTL

LEMMA ClosesProtocol ==
  ASSUME ~Gone, Gone'
  PROVE  Protocol!Close
  BY DEF Gone, Mode, Protocol!Close

LEMMA StuttersGone ==
  ASSUME Gone, Gone'
  PROVE  UNCHANGED Protocol!vars
  BY DEF Gone, Mode, Protocol!vars

LEMMA Stutters ==
  ASSUME ModeFacts, ModeFacts', Gone' <=> Gone, Quiet(wq', ready') <=> Quiet(wq, ready),
         Said(req)' = Said(req), Quiet(wq, ready) \/ kind' = kind
  PROVE  UNCHANGED Protocol!vars
  <1>1. Mode' = Mode /\ (Mode = "answering" => kind' = kind)
    BY DEF ModeFacts
  <1> QED
    BY <1>1 DEF Protocol!vars

\* What a step of the write under way says.
Speaks ==
    /\ SayInv' /\ Grows
    /\ \E m \in Seq(Tags) : Said(req)' \o m \in Protocol!Answers[kind]
    /\ Quiet(wq', ready') => Said(req)' \in Protocol!Answers[kind]

LEMMA SpeaksProtocol ==
  ASSUME TypeOK, TypeOK', ModeFacts, ModeFacts', ~Gone, ~Gone', ~Quiet(wq, ready),
         Speaks, UNCHANGED kind
  PROVE  Protocol!Say \/ Protocol!Done
  <1>1. Said(req) \in Seq(Tags) /\ Said(req)' \in Seq(Tags)
    BY SaidOK, SaidNext
  <1>2. Mode = "answering"
    BY DEF ModeFacts
  <1>3. Protocol!IsPrefix(Said(req), Said(req)') /\ Len(Said(req)') <= Len(Said(req)) + 1
    <2>1. CASE Said(req)' = Said(req)
      <3>1. "N" \in Tags
        BY DEF Tags
      <3>2. Protocol!IsPrefix(Said(req), Said(req))
        BY <1>1, <3>1, PrefixOfAppend
      <3>3. Len(Said(req)) <= Len(Said(req)) + 1
        BY <1>1
      <3> QED
        BY <2>1, <3>2, <3>3
    <2>2. ASSUME NEW t \in Tags, Said(req)' = Append(Said(req), t)
          PROVE  Protocol!IsPrefix(Said(req), Said(req)')
                 /\ Len(Said(req)') <= Len(Said(req)) + 1
      <3>1. /\ Protocol!IsPrefix(Said(req), Append(Said(req), t))
            /\ Len(Append(Said(req), t)) = Len(Said(req)) + 1
        BY <1>1, PrefixOfAppend
      <3>2. Len(Said(req)) + 1 <= Len(Said(req)) + 1
        BY <1>1
      <3> QED
        BY <2>2, <3>1, <3>2
    <2> QED
      BY <2>1, <2>2 DEF Speaks, Grows
  <1>4. CASE Quiet(wq', ready')
    <2>1. Mode' = "listening"
      BY <1>4 DEF ModeFacts
    <2>2. Said(req)' \in Protocol!Answers[kind]
      BY <1>4 DEF Speaks
    <2> QED
      BY <1>2, <1>3, <2>1, <2>2 DEF Protocol!Done, Protocol!Continues
  <1>5. CASE ~Quiet(wq', ready')
    <2>1. Mode' = "answering"
      BY <1>5 DEF ModeFacts
    <2>2. PICK m \in Seq(Tags) : Said(req)' \o m \in Protocol!Answers[kind]
      BY DEF Speaks
    <2>3. Protocol!IsPrefix(Said(req)', Said(req)' \o m)
      BY <1>1, PrefixOfConcat
    <2> QED
      BY <1>2, <1>3, <2>1, <2>2, <2>3 DEF Protocol!Say, Protocol!Continues
  <1> QED
    BY <1>4, <1>5

LEMMA AsksProtocol ==
  ASSUME ModeFacts, ModeFacts', ~Gone, ~Gone', Quiet(wq, ready), ~Quiet(wq', ready'),
         Speaks, Said(req) = <<>>, UNCHANGED kind, kind \in Owed
  PROVE  Protocol!Ask(kind)
  <1>1. Mode = "listening" /\ Mode' = "answering"
    BY DEF ModeFacts
  <1>2. Said(req)' = <<>> \/ \E a \in Protocol!Answers[kind] : Said(req)' = <<Head(a)>>
    <2>1. ASSUME NEW t \in Tags, Said(req)' = Append(Said(req), t)
          PROVE  \E a \in Protocol!Answers[kind] : Said(req)' = <<Head(a)>>
      <3>1. PICK m \in Seq(Tags) : Said(req)' \o m \in Protocol!Answers[kind]
        BY DEF Speaks
      <3>2. Said(req)' = <<t>>
        BY <2>1
      <3>3. Head(<<t>> \o m) = t
        BY <3>1
      <3> QED
        BY <3>1, <3>2, <3>3
    <2> QED
      BY <2>1 DEF Speaks, Grows
  <1> QED
    BY <1>1, <1>2 DEF Protocol!Ask

\* No write is begun and none ends: what it leads to is as it was.
LEMMA SayingStays ==
  ASSUME OrderInv, SayInv, UNCHANGED <<sent, req, kind>>,
         todo' = todo \/ (todo' = <<>> /\ reader # "busy"),
         Quiet(wq, ready) => Quiet(wq', ready'),
         \A w \in Writes : Only(wq, ready, w) => Only(wq', ready', w)
  PROVE  SayInv' /\ Said(req)' = Said(req) /\ (Quiet(wq', ready') <=> Quiet(wq, ready))
  <1>1. Said(req)' = Said(req)
    BY DEF Said
  <1>2. CASE Quiet(wq, ready)
    BY <1>1, <1>2, NotBoth DEF SayInv
  <1>3. CASE ~Quiet(wq, ready)
    <2>1. PICK w \in Writes : Only(wq, ready, w) /\ Belongs(w)
      BY <1>3 DEF OrderInv, Writing
    <2>2. Only(wq', ready', w) /\ Saying(w)
      BY <2>1 DEF SayInv
    <2>3. Saying(w)'
      <3>1. CASE todo' = todo
        BY <1>1, <2>2, <3>1 DEF Saying, Leads, Whole
      <3>2. CASE todo' = <<>> /\ reader # "busy"
        <4>1. Missing(w, todo') = Missing(w, todo)
          BY <2>1, <3>2 DEF Missing, Belongs
        <4>2. \A i \in DOMAIN todo' : todo'[i] # "D"
          BY <3>2
        <4> QED
          BY <1>1, <2>2, <4>1, <4>2 DEF Saying, Leads, Whole
      <3> QED
        BY <3>1, <3>2
    <2>4. \A u \in Writes : Only(wq', ready', u) => u = w
      BY <2>2, OnlyOne
    <2> QED
      BY <1>1, <1>3, <2>2, <2>3, <2>4, NotBoth DEF SayInv
  <1> QED
    BY <1>2, <1>3

\* A write that moves on, or is begun, says what it leads to.
LEMMA MovesSpeaks ==
  ASSUME TypeOK, TypeOK', NEW w \in Writes, NEW v \in Writes, w.req = req,
         v.chain = w.chain, v.tag = w.tag, MovesTo(w, v), UNCHANGED <<req, kind>>,
         IF v.chain = "main" \/ v.left > 0 \/ v.tag = "E"
         THEN Only(wq', ready', v) ELSE Quiet(wq', ready'),
         Leads(w, todo')
  PROVE  Speaks /\ (w.chain = "main" \/ w.tag = "E" => ~Quiet(wq', ready'))
  <1>1. todo' \in Seq(Tags)
    BY DEF TypeOK, SessionTypeOK
  <1>2. Grows /\ Said(req)' \o Missing(v, todo') = Said(req) \o Missing(w, todo')
    BY <1>1, MovesSaying
  <1>3. Saying(v)'
    BY <1>2 DEF Saying, Leads, Whole
  <1>4. SayInv'
    <2>1. \A u \in Writes : Only(wq', ready', u) => u = v
      BY OnlyOne, NotBoth
    <2> QED
      BY <1>3, <2>1 DEF SayInv
  <1>5. w.tag # "T" => Said(req)' \o Missing(v, todo') \in Protocol!Answers[kind]
    BY <1>2 DEF Leads, Whole
  <1>6. Missing(v, todo') \in Seq(Tags)
    BY <1>1, MissingType
  <1>8. \E m \in Seq(Tags) : Said(req)' \o m \in Protocol!Answers[kind]
    <2>1. CASE w.tag # "T"
      BY <1>5, <1>6, <2>1
    <2>2. CASE w.tag = "T"
      <3>1. kind = "Query" /\ Said(req)' \o Missing(v, todo') = <<"T">>
        BY <1>2, <2>2 DEF Leads, Whole
      <3>2. Said(req)' \in Seq(Tags) /\ <<"C", "Z">> \in Seq(Tags)
        BY SaidNext DEF Tags
      <3>3. Said(req)' \o (Missing(v, todo') \o <<"C", "Z">>) = <<"T", "C", "Z">>
        <4>1. (Said(req)' \o Missing(v, todo')) \o <<"C", "Z">>
                  = Said(req)' \o (Missing(v, todo') \o <<"C", "Z">>)
          BY <1>6, <3>2, ConcatAssociative
        <4> QED
          BY <3>1, <4>1, AnswerConcats
      <3>4. Missing(v, todo') \o <<"C", "Z">> \in Seq(Tags)
        BY <1>6, <3>2, ConcatProperties
      <3> QED
        BY <3>1, <3>3, <3>4, AnswerValues
    <2> QED
      BY <2>1, <2>2
  <1>7. ASSUME Quiet(wq', ready')
        PROVE  Said(req)' \in Protocol!Answers[kind]
    <2>1. Missing(v, todo') = <<>> \o <<>>
      BY <1>7, NotBoth DEF Missing
    <2>2. <<>> \o <<>> = <<>>
      BY ConcatEmptySeq, EmptySeq
    <2>3. Said(req)' \o <<>> = Said(req)'
      <3>1. Said(req)' \in Seq(Tags)
        BY SaidNext
      <3> QED
        BY <3>1, ConcatEmptySeq
    <2>4. w.tag # "T"
      BY <1>7, NotBoth DEF Leads
    <2> QED
      BY <1>5, <2>1, <2>2, <2>3, <2>4
  <1> QED
    BY <1>2, <1>4, <1>7, <1>8, NotBoth DEF Speaks

\* A write starts or goes on.
LEMMA WriteSpeaks ==
  ASSUME TypeOK, TypeOK', Ordered, NEW w \in Writes, Current(w),
         NEW posted \in Seq(Handlers), Quiet(wq, posted), async_write(w, posted),
         UNCHANGED <<req, kind>>, Leads(w, todo')
  PROVE  Speaks /\ (w.chain = "main" \/ w.tag = "E" => ~Quiet(wq', ready'))
  <1>1. PICK v \in Writes :
             /\ v.chain = w.chain /\ v.tag = w.tag /\ MovesTo(w, v)
             /\ IF v.chain = "main" \/ v.left > 0 \/ v.tag = "E"
                THEN Only(wq', ready', v) ELSE Quiet(wq', ready')
    BY WriteCurrent
  <1>2. w.req = req
    BY DEF Current
  <1> QED
    BY <1>1, <1>2, MovesSpeaks

\* process_message begins to write msgs, which go on with an answer.
LEMMA WriteAllSpeaks ==
  ASSUME TypeOK, TypeOK', Ordered, req > 0, kind \in Owed, ~Cut, ~Sealed(req),
         NEW msgs \in Seq(Tags), msgs # <<>>,
         Head(msgs) # "T" => Said(req) \o msgs \in Protocol!Answers[kind],
         Head(msgs) = "D" => Said(req) \o Tail(msgs) \in Protocol!Answers[kind],
         Head(msgs) = "T" => kind = "Query" /\ Said(req) \o msgs = <<"T">>,
         \A i \in DOMAIN Tail(msgs) : Tail(msgs)[i] # "D",
         NEW posted \in Seq(Handlers), Quiet(wq, posted), WriteAll(msgs, posted),
         UNCHANGED <<req, kind>>
  PROVE  Speaks /\ ~Quiet(wq', ready')
  <1>1. PICK n \in Sizes[Head(msgs)] :
            async_write([chain |-> "main", req |-> req, tag |-> Head(msgs), left |-> n],
                        posted)
    BY DEF WriteAll
  <1> DEFINE w == [chain |-> "main", req |-> req, tag |-> Head(msgs), left |-> n]
  <1>2. /\ Head(msgs) \in Tags /\ Tail(msgs) \in Seq(Tags)
        /\ <<Head(msgs)>> \o Tail(msgs) = msgs
    OBVIOUS
  <1>3. w \in Writes /\ w.chain = "main" /\ w.req = req /\ w.tag = Head(msgs) /\ w.left = n
    BY <1>2, SessionAssumption DEF Writes, TypeOK, SessionTypeOK
  <1>4. n \in Nat /\ (Head(msgs) # "D" => n > 0)
    BY <1>2, SessionAssumption
  <1>5. async_write(w, posted) /\ todo' = Tail(msgs)
    BY <1>1 DEF WriteAll
  <1> HIDE DEF w
  <1>6. Current(w)
    BY <1>3, <1>4, FreshCurrent DEF Final
  <1>7. Missing(w, Tail(msgs)) = IF n > 0 THEN msgs ELSE Tail(msgs)
    <2>1. <<>> \o Tail(msgs) = Tail(msgs)
      BY <1>2, ConcatEmptySeq
    <2> QED
      BY <1>2, <1>3, <2>1 DEF Missing
  <1>8. Leads(w, todo')
    BY <1>3, <1>4, <1>5, <1>7 DEF Leads, Whole
  <1> QED
    BY <1>3, <1>5, <1>6, <1>8, WriteSpeaks

LEMMA ReportErrorSpeaks ==
  ASSUME TypeOK, TypeOK', Ordered, req > 0, kind = "Query", ~Cut, ~Sealed(req),
         Said(req) = <<>>, NEW posted \in Seq(Handlers), Quiet(wq, posted),
         ReportError(posted), UNCHANGED <<req, kind>>
  PROVE  Speaks /\ ~Quiet(wq', ready')
  <1>1. PICK n \in Sizes["E"] :
            async_write([chain |-> "error", req |-> req, tag |-> "E", left |-> n], posted)
    BY DEF ReportError
  <1> DEFINE w == [chain |-> "error", req |-> req, tag |-> "E", left |-> n]
  <1>2. w \in Writes /\ w.chain = "error" /\ w.req = req /\ w.tag = "E" /\ w.left = n
    BY SessionAssumption DEF Writes, Tags, TypeOK, SessionTypeOK
  <1>3. async_write(w, posted) /\ todo' = <<>>
    BY <1>1 DEF ReportError
  <1>4. n \in Nat /\ n > 0
    BY SessionAssumption DEF Tags
  <1> HIDE DEF w
  <1>5. Current(w)
    BY <1>2, FreshCurrent DEF Final, Owed
  <1>6. Said(req) \o Missing(w, <<>>) = <<"E", "Z">>
    <2>1. Missing(w, <<>>) = <<"E">> \o <<"Z">>
      BY <1>2, <1>4 DEF Missing
    <2>2. <<"E">> \o <<"Z">> = <<"E", "Z">>
      BY AnswerConcats
    <2>3. <<"E", "Z">> \in Seq(Tags)
      BY DEF Tags
    <2>4. <<>> \o <<"E", "Z">> = <<"E", "Z">>
      BY <2>3, ConcatEmptySeq
    <2> QED
      BY <2>1, <2>2, <2>4
  <1>7. Leads(w, todo')
    BY <1>2, <1>3, <1>6, AnswerValues DEF Leads, Whole
  <1> QED
    BY <1>2, <1>3, <1>5, <1>7, WriteSpeaks

-----------------------------------------------------------------------------
(***************************************************************************)
(* The steps of the session                                                *)
(***************************************************************************)
Inv == ChainInv /\ OrderInv /\ SayInv
NextInv == ChainInv' /\ OrderInv'

\* A step of the session is one of the protocol, or none that it tells.
Implemented == SayInv' /\ (Protocol!Next \/ UNCHANGED Protocol!vars)

LEMMA InvFacts ==
  ASSUME Inv, NextInv
  PROVE  /\ TypeOK /\ TypeOK' /\ ModeFacts /\ ModeFacts' /\ Ordered /\ SayInv
         /\ ready \in Seq(Handlers) /\ wq \in Seq(Writes)
         /\ reader' = "closed" => Quiet(wq', ready')
         /\ Quiet(wq', ready') => SayInv'
  <1>1. TypeOK /\ TypeOK' /\ Ordered /\ SayInv
    BY DEF Inv, NextInv, ChainInv, OrderInv
  <1>2. ModeFacts /\ ModeFacts'
    BY <1>1, ModeIs, ModeNext DEF Inv, NextInv
  <1>3. ready \in Seq(Handlers) /\ wq \in Seq(Writes)
    BY <1>1, QueueTypes
  <1>4. reader' = "closed" => Quiet(wq', ready')
    BY DEF NextInv, OrderInv, Writing, Belongs
  <1>5. Quiet(wq', ready') => SayInv'
    BY NotBoth DEF SayInv
  <1> QED
    BY <1>1, <1>2, <1>3, <1>4, <1>5

\* No write is begun and none ends, and the chain goes on.
LEMMA StaysProtocol ==
  ASSUME Inv, NextInv, UNCHANGED <<sent, req, kind, todo>>, Gone' <=> Gone,
         Quiet(wq, ready) => Quiet(wq', ready'),
         \A w \in Writes : Only(wq, ready, w) => Only(wq', ready', w)
  PROVE  Implemented
  <1>1. SayInv' /\ Said(req)' = Said(req) /\ (Quiet(wq', ready') <=> Quiet(wq, ready))
    BY SayingStays DEF Inv
  <1> QED
    BY <1>1, InvFacts, Stutters DEF Implemented

LEMMA BesideProtocol ==
  ASSUME Inv, NextInv, UNCHANGED <<wq, ready, sent, sessionVars>>
  PROVE  Implemented
  BY StaysProtocol DEF sessionVars, Gone

\* The write under way goes on, or another one of its chain does.
LEMMA SpeaksImplemented ==
  ASSUME Inv, NextInv, Speaks, ~Quiet(wq, ready), UNCHANGED kind,
         Gone' <=> Gone
  PROVE  Implemented
  <1>1. SayInv'
    BY DEF Speaks
  <1>2. CASE Gone
    BY <1>1, <1>2, StuttersGone DEF Implemented
  <1>3. CASE ~Gone
    <2>1. Protocol!Say \/ Protocol!Done
      BY <1>3, InvFacts, SpeaksProtocol
    <2> QED
      BY <1>1, <2>1 DEF Implemented, Protocol!Next
  <1> QED
    BY <1>2, <1>3

LEMMA SocketProtocol ==
  ASSUME Inv, NextInv, SocketWritable \/ SocketBroken, UNCHANGED <<clientVars, sessionVars>>
  PROVE  Implemented
  <1>1. /\ wq # <<>> /\ wq' = Tail(wq) /\ UNCHANGED <<req, kind, reader, todo>>
    BY DEF SocketWritable, SocketBroken, sessionVars
  <1>2. ~Quiet(wq, ready)
    BY <1>1 DEF Quiet
  <1>3. PICK w \in Writes : Only(wq, ready, w) /\ Current(w)
    BY <1>2 DEF Inv, OrderInv, Writing
  <1>4. Head(wq) = w /\ wq' = <<>> /\ Quiet(<<>>, ready)
    BY <1>1, <1>3, InvFacts, TakeQueued
  <1>5. CASE SocketWritable
    <2>1. w.left > 0
      <3>1. wq \in Seq(Pending)
        BY InvFacts, QueueTypes
      <3>2. Head(wq) \in Pending
        BY <1>1, <3>1
      <3> QED
        BY <1>4, <3>2 DEF Pending
    <2>2. Transfer(w, ready)
      BY <1>4, <1>5 DEF SocketWritable
    <2>3. PICK v \in Writes : /\ v.chain = w.chain /\ v.tag = w.tag /\ MovesTo(w, v)
                              /\ ready' = Append(ready, WriteHandler(v, "done"))
      BY <1>1, <1>3, <2>1, <2>2, InvFacts, TransferCurrent
    <2>4. IF v.chain = "main" \/ v.left > 0 \/ v.tag = "E"
          THEN Only(wq', ready', v) ELSE Quiet(wq', ready')
      BY <1>4, <2>3, InvFacts, ChunkPosted
    <2>5. Leads(w, todo')
      BY <1>1, <1>3 DEF Inv, SayInv, Saying
    <2>6. w.req = req
      BY <1>3 DEF Current
    <2>7. Speaks
      BY <1>1, <2>3, <2>4, <2>5, <2>6, InvFacts, MovesSpeaks
    <2> QED
      BY <1>1, <1>2, <2>7, SpeaksImplemented DEF Gone
  <1>6. CASE SocketBroken
    <2> DEFINE x == WriteHandler(w, "failed")
    <2>1. x \in Handlers /\ x.op = "write" /\ x.write = w /\ x.res = "failed"
      BY WriteHandlerType DEF WriteHandler
    <2>2. ready' = Append(ready, x) /\ sent' = sent
      BY <1>4, <1>6 DEF SocketBroken
    <2> HIDE DEF x
    <2>3. Only(wq', ready', w)
      BY <1>4, <2>1, <2>2, InvFacts, PostLive DEF Live
    <2>4. \A u \in Writes : Only(wq, ready, u) => Only(wq', ready', u)
      BY <1>3, <2>3, OnlyOne
    <2> QED
      BY <1>1, <1>2, <2>2, <2>4, StaysProtocol DEF Gone
  <1> QED
    BY <1>5, <1>6

LEMMA ReadIsPosted ==
  ASSUME Inv, NextInv, NEW x \in Handlers, ~Live(x), ready' = Append(ready, x), wq' = wq
  PROVE  /\ Quiet(wq, ready) => Quiet(wq', ready')
         /\ \A w \in Writes : Only(wq, ready, w) => Only(wq', ready', w)
  BY InvFacts, PostDead

\* No message of the request read last is with the kernel.
LEMMA NothingSaid ==
  TypeOK /\ (\A i \in DOMAIN sent : sent[i].req < req) => Said(req) = <<>>
  <1> SUFFICES ASSUME TypeOK, \A i \in DOMAIN sent : sent[i].req < req, sent # <<>>
               PROVE  sent[Len(sent)].req # req
    BY DEF Said
  <1>1. Len(sent) \in DOMAIN sent /\ sent[Len(sent)] \in Chunks /\ req \in Nat
    BY DEF TypeOK, StreamTypeOK, SessionTypeOK
  <1> QED
    BY <1>1 DEF Chunks

LEMMA NothingSaidNext ==
  (TypeOK /\ (\A i \in DOMAIN sent : sent[i].req < req) => Said(req) = <<>>)'
  BY NothingSaid, PTL

\* The next request is on its way: what was said before is history.
LEMMA HeaderArrivesProtocol ==
  ASSUME Inv, NextInv, HeaderArrives
  PROVE  Implemented
  <1>1. /\ reader = "hdr" /\ reader' = "posted" /\ wq' = wq
        /\ ready' = Append(ready, ReadHandler("hdr", "done"))
    BY DEF HeaderArrives
  <1>2. /\ Len(ready) + 1 \in DOMAIN ready'
        /\ ready'[Len(ready) + 1] = ReadHandler("hdr", "done")
        /\ \A j \in DOMAIN ready : j \in DOMAIN ready' /\ ready'[j] = ready[j]
    BY <1>1, InvFacts
  <1>3. Quiet(wq', ready') /\ \A i \in DOMAIN sent' : sent'[i].req < req'
    BY <1>1, <1>2, ReadIsDead DEF NextInv, OrderInv, Reading
  <1>4. Quiet(wq, ready)
    BY <1>1, <1>2, <1>3 DEF Quiet
  <1>5. Said(req)' = <<>>
    BY <1>3, InvFacts, NothingSaidNext
  <1>6. Mode = "listening" /\ Mode' = "listening"
    BY <1>1, <1>3, <1>4, InvFacts DEF ModeFacts, Gone
  <1>7. Protocol!Forget
    BY <1>5, <1>6 DEF Protocol!Forget
  <1> QED
    BY <1>3, <1>7, InvFacts DEF Implemented, Protocol!Next

LEMMA ReadEndsProtocol ==
  ASSUME Inv, NextInv, HeaderFails \/ BodyArrives \/ BodyFails
  PROVE  Implemented
  <1>1. PICK x \in Handlers : ready' = Append(ready, x) /\ ~Live(x)
    BY ReadIsDead DEF HeaderFails, BodyArrives, BodyFails
  <1>2. /\ reader \in {"hdr", "body"} /\ reader' = "posted"
        /\ UNCHANGED <<wq, sent, req, kind, todo>>
    BY DEF HeaderFails, BodyArrives, BodyFails
  <1> QED
    BY <1>1, <1>2, ReadIsPosted, StaysProtocol DEF Gone

\* The chain ends with no write of its own under way.
LEMMA EndsProtocol ==
  ASSUME Inv, NextInv, ~Gone, Gone', SayInv'
  PROVE  Implemented
  BY ClosesProtocol DEF Implemented, Protocol!Next

LEMMA HeaderReadProtocol ==
  ASSUME Inv, NextInv, HeaderRead
  PROVE  Implemented
  <1>1. Runs("hdr", "done")
    BY DEF HeaderRead
  <1>2. Quiet(wq, ready) /\ Quiet(wq, Tail(ready))
    BY <1>1, ReadRunsQuiet DEF Runs, Inv
  <1>3. /\ NoMoreWrites(Tail(ready)) /\ reader' \in {"lost", "body"}
        /\ reader' = "body" => todo' = todo
    BY DEF HeaderRead, Abandon
  <1>4. reader = "posted"
    BY <1>1, ReadRunsPosted DEF Runs, Inv
  <1>5. Quiet(wq', ready') /\ UNCHANGED <<sent, req, kind>>
    BY <1>1, <1>2, <1>3 DEF NoMoreWrites, Runs
  <1>6. CASE reader' = "lost"
    BY <1>4, <1>5, <1>6, InvFacts, EndsProtocol DEF Gone
  <1>7. CASE reader' = "body"
    BY <1>2, <1>3, <1>4, <1>5, <1>7, NotBoth, StaysProtocol DEF Gone
  <1> QED
    BY <1>3, <1>6, <1>7

LEMMA ReadFailedProtocol ==
  ASSUME Inv, NextInv, ReadFailed
  PROVE  Implemented
  <1>1. PICK op \in {"hdr", "body"} : Runs(op, "failed")
    BY DEF ReadFailed
  <1>2. /\ reader' = "lost" /\ todo' = <<>> /\ wq' = wq /\ ready' = Tail(ready)
        /\ UNCHANGED <<sent, req, kind>>
    BY <1>1 DEF ReadFailed, Abandon, NoMoreWrites, Runs
  <1>3. ready # <<>> /\ ~Live(Head(ready)) /\ reader = "posted"
    BY <1>1, ReadRunsPosted DEF Runs, Inv, Live
  <1>4. /\ Quiet(wq, ready) => Quiet(wq', ready')
        /\ \A w \in Writes : Only(wq, ready, w) => Only(wq', ready', w)
    BY <1>2, <1>3, InvFacts, QuietTail, TakeDead
  <1>5. SayInv'
    BY <1>2, <1>3, <1>4, SayingStays DEF Inv
  <1> QED
    BY <1>2, <1>3, <1>5, EndsProtocol DEF Gone

\* The end of the error chain was the kernel's already.
LEMMA ErrorDoneProtocol ==
  ASSUME Inv, NextInv, ErrorDone
  PROVE  Implemented
  <1>1. /\ ready # <<>> /\ ~Live(Head(ready)) /\ wq' = wq /\ ready' = Tail(ready)
        /\ UNCHANGED <<sent, req, kind, reader, todo>>
    BY DEF ErrorDone, Runs, Live, Written, NoMoreWrites
  <1>2. /\ Quiet(wq, ready) => Quiet(wq', ready')
        /\ \A w \in Writes : Only(wq, ready, w) => Only(wq', ready', w)
    BY <1>1, InvFacts, QuietTail, TakeDead
  <1> QED
    BY <1>1, <1>2, StaysProtocol DEF Gone

\* A write goes on, or the error chain's second one starts.
LEMMA ContinueProtocol ==
  ASSUME Inv, NextInv, NEW res, Runs("write", res), ~Quiet(wq, ready),
         NEW w \in Writes, Current(w), Leads(w, todo),
         Quiet(wq, Tail(ready)), async_write(w, Tail(ready)), UNCHANGED <<reader, todo>>
  PROVE  Implemented
  <1>1. Tail(ready) \in Seq(Handlers) /\ UNCHANGED <<req, kind>>
    BY InvFacts, RunsFacts DEF Runs
  <1>2. Leads(w, todo')
    OBVIOUS
  <1>3. Speaks
    BY <1>1, <1>2, InvFacts, WriteSpeaks
  <1> QED
    BY <1>1, <1>3, SpeaksImplemented DEF Gone

LEMMA WriteMoreProtocol ==
  ASSUME Inv, NextInv, WriteMore \/ WriteAgain
  PROVE  Implemented
  <1>1. PICK res : Runs("write", res) /\ Live(Head(ready)) /\ ready # <<>>
    BY DEF WriteMore, WriteAgain, Runs, Live, Written
  <1>2. PICK w \in Writes : /\ w = Written /\ Quiet(wq, Tail(ready))
                            /\ Only(wq, ready, w) /\ Current(w)
                            /\ registered /\ ~Quiet(wq, ready)
    BY <1>1, LiveRuns DEF Inv
  <1>3. async_write(w, Tail(ready)) /\ UNCHANGED <<reader, todo>>
    BY <1>2 DEF WriteMore, WriteAgain, UsesFreedSession
  <1>4. Leads(w, todo)
    BY <1>2 DEF Inv, SayInv, Saying
  <1> QED
    BY <1>1, <1>2, <1>3, <1>4, ContinueProtocol

LEMMA ErrorWrittenProtocol ==
  ASSUME Inv, NextInv, ErrorWritten
  PROVE  Implemented
  <1>1. /\ Runs("write", "done") /\ Live(Head(ready)) /\ ready # <<>>
        /\ Written.left = 0 /\ Written.chain = "error" /\ Written.tag = "E"
    BY DEF ErrorWritten, Runs, Live, Written
  <1>2. PICK w \in Writes : /\ w = Written /\ Quiet(wq, Tail(ready))
                            /\ Only(wq, ready, w) /\ Current(w) /\ Belongs(w)
                            /\ reader # "busy" => ~Sealed(req)
                            /\ registered /\ ~Quiet(wq, ready)
    BY <1>1, LiveRuns DEF Inv
  <1>3. PICK n \in Sizes["Z"] : async_write([w EXCEPT !.tag = "Z", !.left = n], Tail(ready))
    BY <1>2 DEF ErrorWritten, UsesFreedSession
  <1>4. UNCHANGED <<reader, todo>>
    BY <1>2 DEF ErrorWritten, UsesFreedSession
  <1> DEFINE z == [w EXCEPT !.tag = "Z", !.left = n]
  <1>5. n \in Nat /\ n > 0
    BY SessionAssumption DEF Tags
  <1>6. z \in Writes /\ z.tag = "Z" /\ z.left > 0 /\ z.req = w.req /\ z.chain = "error"
    BY <1>1, <1>2, <1>5 DEF Writes, Tags
  <1>7. async_write(z, Tail(ready))
    BY <1>3
  <1> HIDE DEF z
  <1>8. ~Cut /\ ~Sealed(req)
    BY <1>1, <1>2 DEF Current, Cut, Belongs
  <1>9. Current(z)
    BY <1>2, <1>6, <1>8, FreshCurrent DEF Current
  <1>10. Leads(z, todo)
    <2>1. <<"Z">> \in Seq(Tags) /\ <<>> \in Seq(Tags)
      BY DEF Tags
    <2>2. <<>> \o <<"Z">> = <<"Z">> /\ <<"Z">> \o <<>> = <<"Z">>
      BY <2>1, ConcatEmptySeq
    <2>3. Missing(w, todo) = <<"Z">>
      <3>1. w.left = 0 /\ w.chain = "error" /\ w.tag = "E"
        BY <1>1, <1>2
      <3>2. ~(w.left > 0) /\ w.chain # "main"
        BY <3>1
      <3> QED
        BY <2>2, <3>1, <3>2 DEF Missing
    <2>4. Missing(z, todo) = <<"Z">>
      <3>1. z.tag # "E" /\ z.chain # "main"
        BY <1>6
      <3> QED
        BY <1>6, <2>2, <3>1 DEF Missing
    <2>5. Leads(w, todo) /\ w.tag # "T" /\ z.tag # "T"
      BY <1>1, <1>2, <1>6 DEF Inv, SayInv, Saying
    <2> QED
      BY <2>3, <2>4, <2>5 DEF Leads, Whole
  <1> QED
    BY <1>1, <1>2, <1>4, <1>6, <1>7, <1>9, <1>10, ContinueProtocol

LEMMA StartupTail ==
  /\ Head(StartupReply) = "R"
  /\ \A i \in DOMAIN Tail(StartupReply) : Tail(StartupReply)[i] # "D"
  <1> DEFINE params == [i \in 1..NumParams |-> "S"]
  <1>1. NumParams \in Nat /\ <<"R">> \in Seq(Tags) /\ <<"Z">> \in Seq(Tags)
    BY SessionAssumption DEF Tags
  <1>2. params \in Seq(Tags) /\ Len(params) = NumParams /\ \A i \in 1..NumParams : params[i] = "S"
    BY <1>1 DEF Tags
  <1>3. StartupReply = <<"R">> \o params \o <<"Z">>
    BY DEF StartupReply
  <1> HIDE DEF params
  <1>4. /\ StartupReply \in Seq(Tags) /\ Len(StartupReply) = NumParams + 2
        /\ StartupReply[1] = "R"
        /\ \A i \in 1..NumParams + 1 : StartupReply[i + 1] \in {"S", "Z"}
    BY <1>1, <1>2, <1>3
  <1>5. /\ Head(StartupReply) = "R" /\ DOMAIN Tail(StartupReply) = 1..NumParams + 1
        /\ \A i \in 1..NumParams + 1 : Tail(StartupReply)[i] = StartupReply[i + 1]
    BY <1>1, <1>4
  <1> QED
    BY <1>4, <1>5

\* The first message of an answer is begun, and the request thereby taken.
LEMMA AskImplemented ==
  ASSUME Inv, NextInv, Speaks, Quiet(wq, ready), ~Quiet(wq', ready'), ~Gone, ~Gone',
         Said(req) = <<>>, UNCHANGED kind, kind \in Owed
  PROVE  Implemented
  <1>1. Protocol!Ask(kind)
    BY InvFacts, AsksProtocol
  <1>2. kind \in DOMAIN Protocol!Answers
    BY AnswerValues
  <1> QED
    BY <1>1, <1>2 DEF Implemented, Speaks, Protocol!Next

LEMMA BodyReadProtocol ==
  ASSUME Inv, NextInv, BodyRead
  PROVE  Implemented
  <1>1. Runs("body", "done") /\ UNCHANGED <<req, kind>>
    BY DEF BodyRead, Runs
  <1>2. /\ Quiet(wq, ready) /\ Quiet(wq, Tail(ready)) /\ ~Cut
        /\ Tail(ready) \in Seq(Handlers) /\ req > 0 /\ ~Sealed(req)
        /\ \A i \in DOMAIN sent : sent[i].req < req
    BY <1>1, ReadRunsQuiet DEF Runs, Inv
  <1>3. Said(req) = <<>>
    BY <1>2, InvFacts, NothingSaid
  <1>4. reader = "posted" /\ ~Gone
    BY <1>1, ReadRunsPosted DEF Runs, Inv, Gone
  <1>5. <<"N">> \in Seq(Tags) /\ <<"T">> \in Seq(Tags)
    BY DEF Tags
  <1>6. \A msgs \in Seq(Tags) : Said(req) \o msgs = msgs
    BY <1>3, ConcatEmptySeq
  <1>7. CASE HandleStartup(Tail(ready))
    <2>1. /\ kind \in Owed
          /\ \/ kind = "Startup" /\ WriteAll(StartupReply, Tail(ready))
             \/ kind = "SSLRequest" /\ WriteAll(<<"N">>, Tail(ready))
      BY <1>7 DEF HandleStartup, Owed, Hello
    <2>2. reader' = "busy"
      BY <2>1 DEF WriteAll
    <2>3. CASE kind = "Startup" /\ WriteAll(StartupReply, Tail(ready))
      <3>1. StartupReply \in Seq(Tags) /\ StartupReply # <<>> /\ Head(StartupReply) = "R"
        BY StartupReplyTypes, StartupTail
      <3>2. \A i \in DOMAIN Tail(StartupReply) : Tail(StartupReply)[i] # "D"
        BY StartupTail
      <3>3. Speaks /\ ~Quiet(wq', ready')
        BY <1>1, <1>2, <1>6, <2>1, <2>3, <3>1, <3>2, InvFacts, AnswerValues, WriteAllSpeaks
      <3> QED
        BY <1>1, <1>2, <1>3, <1>4, <2>1, <2>2, <3>3, AskImplemented DEF Gone
    <2>4. CASE kind = "SSLRequest" /\ WriteAll(<<"N">>, Tail(ready))
      <3>1. /\ Head(<<"N">>) = "N" /\ <<"N">> # <<>>
            /\ \A i \in DOMAIN Tail(<<"N">>) : Tail(<<"N">>)[i] # "D"
        OBVIOUS
      <3>2. Said(req) \o <<"N">> = <<"N">>
        BY <1>5, <1>6
      <3>3. <<"N">> \in Protocol!Answers[kind]
        BY <2>4, AnswerValues
      <3>4. Speaks /\ ~Quiet(wq', ready')
        BY <1>1, <1>2, <1>5, <2>1, <2>4, <3>1, <3>2, <3>3, InvFacts, WriteAllSpeaks
      <3> QED
        BY <1>1, <1>2, <1>3, <1>4, <2>1, <2>2, <3>4, AskImplemented DEF Gone
    <2> QED
      BY <2>1, <2>3, <2>4
  <1>8. CASE HandleQuery(Tail(ready))
    <2>1. kind = "Query" /\ kind \in Owed
      BY <1>8 DEF HandleQuery, Owed
    <2>2. \/ WriteAll(<<"T">>, Tail(ready))
          \/ ReportError(Tail(ready))
          \/ Finish(Tail(ready)) \/ Abandon(Tail(ready))
      BY <1>8 DEF HandleQuery, Processed
    <2>3. CASE WriteAll(<<"T">>, Tail(ready))
      <3>1. /\ Head(<<"T">>) = "T" /\ <<"T">> # <<>>
            /\ \A i \in DOMAIN Tail(<<"T">>) : Tail(<<"T">>)[i] # "D"
        OBVIOUS
      <3>2. Said(req) \o <<"T">> = <<"T">>
        BY <1>5, <1>6
      <3>3. Speaks /\ ~Quiet(wq', ready')
        BY <1>1, <1>2, <1>5, <2>1, <2>3, <3>1, <3>2, InvFacts, WriteAllSpeaks
      <3>4. reader' = "busy"
        BY <2>3 DEF WriteAll
      <3> QED
        BY <1>1, <1>2, <1>3, <1>4, <2>1, <3>3, <3>4, AskImplemented DEF Gone
    <2>4. CASE ReportError(Tail(ready))
      <3>1. Speaks /\ ~Quiet(wq', ready')
        BY <1>1, <1>2, <1>3, <2>1, <2>4, InvFacts, ReportErrorSpeaks DEF Owed
      <3>2. reader' = "hdr"
        BY <2>4 DEF ReportError
      <3> QED
        BY <1>1, <1>2, <1>3, <1>4, <2>1, <3>1, <3>2, AskImplemented DEF Gone
    <2>5. CASE Finish(Tail(ready))
      BY <1>4, <2>5, InvFacts, EndsProtocol DEF Finish, Gone
    <2>6. CASE Abandon(Tail(ready))
      <3>1. Quiet(wq', ready') /\ reader' = "lost"
        BY <1>2, <2>6 DEF Abandon, NoMoreWrites
      <3> QED
        BY <1>4, <3>1, InvFacts, EndsProtocol DEF Gone
    <2> QED
      BY <2>2, <2>3, <2>4, <2>5, <2>6
  <1>9. CASE HandleTerminate(Tail(ready))
    BY <1>4, <1>9, InvFacts, EndsProtocol DEF HandleTerminate, Finish, Gone
  <1>10. CASE HandleOther(Tail(ready))
    <2>1. /\ Quiet(wq', ready') /\ sent' = sent /\ reader' = "hdr" /\ todo' = <<>>
      BY <1>2, <1>10 DEF HandleOther, DoRead, NoMoreWrites
    <2>2. SayInv' /\ Said(req)' = Said(req)
      BY <1>1, <2>1, InvFacts DEF Said
    <2>3. UNCHANGED Protocol!vars
      BY <1>2, <1>4, <2>1, <2>2, InvFacts, Stutters DEF Gone
    <2> QED
      BY <2>2, <2>3 DEF Implemented
  <1> QED
    BY <1>1, <1>7, <1>8, <1>9, <1>10 DEF BodyRead

\* A message of the answer is out: the next one, the end of the answer, or
\* that of the connection.
LEMMA MainWrittenProtocol ==
  ASSUME ExecOutcomes \subseteq {"ok", "exn"}, Inv, NextInv, MainWritten
  PROVE  Implemented
  <1>1. /\ Runs("write", "done") /\ Live(Head(ready)) /\ ready # <<>>
        /\ Written.left = 0 /\ Written.chain = "main" /\ Head(ready).op = "write"
        /\ UNCHANGED <<req, kind>>
    BY DEF MainWritten, Runs, Live, Written
  <1>2. PICK w \in Writes : /\ w = Written /\ Quiet(wq, Tail(ready))
                            /\ Tail(ready) \in Seq(Handlers)
                            /\ Only(wq, ready, w) /\ Current(w) /\ Belongs(w)
                            /\ ~Quiet(wq, ready)
    BY <1>1, LiveRuns DEF Inv
  <1>3. reader = "busy" /\ ~Gone
    BY <1>1, MainWriteRunsBusy DEF Inv, Gone
  <1>4. Ahead(w.tag, todo) /\ w.left = 0 /\ w.chain = "main" /\ ~(w.left > 0)
    BY <1>1, <1>2, <1>3 DEF Belongs
  <1>5. req > 0 /\ kind \in Owed /\ ~Cut /\ (w.tag \notin Final => ~Sealed(req))
    BY <1>2, <1>4 DEF Current, Cut
  <1>6. Leads(w, todo)
    BY <1>2 DEF Inv, SayInv, Saying
  <1>7. Said(req) \in Seq(Tags) /\ todo \in Seq(Tags)
    BY InvFacts, SaidOK DEF TypeOK, SessionTypeOK
  <1>8. Whole(w, todo) = Said(req) \o todo
    <2>1. Missing(w, todo) = <<>> \o todo
      BY <1>4 DEF Missing
    <2> QED
      BY <1>7, <2>1, ConcatEmptySeq DEF Whole
  <1>9. w.tag # "T" /\ todo = <<>> => Said(req) \in Protocol!Answers[kind]
    BY <1>6, <1>7, <1>8, ConcatEmptySeq DEF Leads
  <1>10. ASSUME Said(req) \in Protocol!Answers[kind], DoRead(Tail(ready))
         PROVE  Implemented
    <2>1. Quiet(wq', ready') /\ sent' = sent /\ reader' = "hdr"
      BY <1>2, <1>10 DEF DoRead, NoMoreWrites
    <2>2. SayInv' /\ Said(req)' = Said(req)
      BY <1>1, <2>1, InvFacts DEF Said
    <2>3. Speaks
      <3>1. <<>> \in Seq(Tags) /\ Said(req)' \o <<>> = Said(req)
        BY <1>7, <2>2, ConcatEmptySeq, EmptySeq
      <3> QED
        BY <1>10, <2>2, <3>1 DEF Speaks, Grows
    <2> QED
      BY <1>1, <1>2, <1>3, <2>1, <2>3, SpeaksImplemented DEF Gone
  <1>11. ASSUME Finish(Tail(ready))
         PROVE  Implemented
    BY <1>3, <1>11, InvFacts, EndsProtocol DEF Finish, Gone
  <1>12. CASE w.tag = "T" /\ Execute(Tail(ready))
    <2>1. todo = <<>> /\ kind = "Query" /\ ~Sealed(req) /\ Said(req) = <<"T">>
      <3>1. todo = <<>> /\ kind = "Query" /\ ~Sealed(req)
        BY <1>4, <1>5, <1>6, <1>12 DEF Ahead, Leads, Final
      <3>2. Said(req) \o <<>> = <<"T">>
        BY <1>6, <1>8, <1>12, <3>1 DEF Leads
      <3> QED
        BY <1>7, <3>1, <3>2, ConcatEmptySeq
    <2>2. CASE WriteAll(<<"D", "C", "Z">>, Tail(ready))
      <3>1. /\ <<"D", "C", "Z">> \in Seq(Tags) /\ <<"D", "C", "Z">> # <<>>
            /\ Head(<<"D", "C", "Z">>) = "D" /\ Tail(<<"D", "C", "Z">>) = <<"C", "Z">>
        BY DEF Tags
      <3>2. \A i \in DOMAIN <<"C", "Z">> : <<"C", "Z">>[i] # "D"
        OBVIOUS
      <3>3. /\ Said(req) \o <<"D", "C", "Z">> \in Protocol!Answers[kind]
            /\ Said(req) \o <<"C", "Z">> \in Protocol!Answers[kind]
        BY <2>1, AnswerConcats, AnswerValues
      <3>4. Speaks
        BY <1>1, <1>2, <1>5, <2>1, <2>2, <3>1, <3>2, <3>3, InvFacts, WriteAllSpeaks
      <3> QED
        BY <1>1, <1>2, <1>3, <2>2, <3>4, SpeaksImplemented DEF WriteAll, Gone
    <2>3. PICK out \in ExecOutcomes :
              \/ WriteAll(<<"D", "C", "Z">>, Tail(ready))
              \/ out # "ok" /\ Processed(QueryChain(out), Tail(ready))
      BY <1>12 DEF Execute
    <2>4. out # "ok" => QueryChain(out) = "exn"
      BY DEF QueryChain
    <2> QED
      BY <1>11, <2>2, <2>3, <2>4 DEF Processed
  <1>13. CASE w.tag # "T" /\ todo # <<>> /\ WriteAll(todo, Tail(ready))
    <2>1. ~Sealed(req) /\ Head(todo) \in {"S", "D", "C", "Z"}
      <3>1. w.tag \notin {"N", "Z", "T"}
        BY <1>4, <1>13 DEF Ahead
      <3>2. /\ todo[Len(todo)] = "Z"
            /\ \A i \in 1..Len(todo) - 1 : todo[i] \in {"S", "D", "C"}
        BY <1>4, <3>1 DEF Ahead
      <3>3. Head(todo) = todo[1] /\ Len(todo) \in Nat /\ Len(todo) >= 1
        BY <1>7, <1>13
      <3> QED
        BY <1>5, <3>1, <3>2, <3>3 DEF Final
    <2>2. Head(todo) # "D" /\ \A i \in DOMAIN Tail(todo) : Tail(todo)[i] # "D"
      <3>1. \A i \in DOMAIN todo : todo[i] # "D"
        BY <1>6 DEF Leads
      <3>2. /\ 1 \in DOMAIN todo /\ Head(todo) = todo[1]
            /\ \A i \in DOMAIN Tail(todo) : i + 1 \in DOMAIN todo /\ Tail(todo)[i] = todo[i + 1]
        BY <1>7, <1>13
      <3> QED
        BY <3>1, <3>2
    <2>3. Said(req) \o todo \in Protocol!Answers[kind]
      BY <1>6, <1>8, <1>13 DEF Leads
    <2>4. Speaks
      BY <1>1, <1>2, <1>5, <1>7, <1>13, <2>1, <2>2, <2>3, InvFacts, WriteAllSpeaks
    <2> QED
      BY <1>1, <1>2, <1>3, <1>13, <2>4, SpeaksImplemented DEF WriteAll, Gone
  <1>14. CASE w.tag # "T" /\ todo = <<>> /\ Processed("ok", Tail(ready))
    BY <1>9, <1>10, <1>14 DEF Processed
  <1> QED
    BY <1>2, <1>12, <1>13, <1>14 DEF MainWritten

-----------------------------------------------------------------------------
LEMMA InitProtocol == Init => SayInv /\ Protocol!Init
  <1> SUFFICES ASSUME Init
               PROVE  SayInv /\ Protocol!Init
    OBVIOUS
  <1>1. wq = <<>> /\ ready = <<>> /\ sent = <<>> /\ reader = "hdr"
    BY DEF Init, StreamInit
  <1>2. SayInv
    BY <1>1, NotBoth DEF SayInv, Quiet
  <1>3. Mode = "listening"
    BY <1>1 DEF Mode, ErrorUnderWay
  <1> QED
    BY <1>1, <1>2, <1>3 DEF Protocol!Init, Said

LEMMA ProtocolStep ==
  ASSUME ExecOutcomes \subseteq {"ok", "exn"}
  PROVE  Inv /\ NextInv /\ [Next]_vars => Implemented
  <1> SUFFICES ASSUME Inv, NextInv, [Next]_vars
               PROVE  Implemented
    OBVIOUS
  <1>1. CASE UNCHANGED vars
    BY <1>1, BesideProtocol DEF vars, streamVars
  <1>2. CASE Client
    BY <1>2, BesideProtocol DEF Client, ClientSend, ClientRecv, ClientClose, ClientReset
  <1>3. CASE Kernel
    BY <1>3, SocketProtocol, HeaderArrivesProtocol, ReadEndsProtocol DEF Kernel
  <1>4. CASE EventLoop
    BY <1>4, HeaderReadProtocol, BodyReadProtocol, ReadFailedProtocol, WriteMoreProtocol,
       MainWrittenProtocol, ErrorWrittenProtocol, ErrorDoneProtocol
    DEF EventLoop
  <1> QED
    BY <1>1, <1>2, <1>3, <1>4 DEF Next

\* The session gives a client that waits what SimpleQuery promises, whatever
\* the ParseHandler throws, and an ExecHandler but a SqlException: it takes a
\* request, says the messages of one answer to it, whole and in order, and
\* listens again when the answer is whole, or the connection ends.
THEOREM SessionImplementsProtocol ==
  ASSUME ~Pipelining, ExecOutcomes \subseteq {"ok", "exn"}
  PROVE  Spec => ImplementsProtocol
  <1>1. ChainInv /\ OrderInv /\ SayInv /\ [Next]_vars /\ ChainInv' /\ OrderInv'
            => SayInv' /\ [Protocol!Next]_(Protocol!vars)
    BY ProtocolStep DEF Inv, NextInv, Implemented
  <1>2. Spec => Protocol!Init /\ [][Protocol!Next]_(Protocol!vars)
    BY <1>1, InitProtocol, ChainInvHolds, OrderInvHolds, PTL DEF Spec
  <1> QED
    BY <1>2 DEF ImplementsProtocol, Protocol!Spec
=============================================================================
