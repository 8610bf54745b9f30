----------------------------- MODULE SimpleQuery -----------------------------
(***************************************************************************)
(* What one connection promises a client that speaks the simple query      *)
(* protocol: the server listens, takes a request, says whole messages that *)
(* form an answer to it, and listens again once the answer is whole.  It   *)
(* never speaks unasked, never begins a message before the previous one is *)
(* complete, and never answers two requests at a time.                     *)
(*                                                                         *)
(* The answers are the ones process_message and do_read give, when they    *)
(* give one: a statement that fails in its ExecHandler gets none (Session, *)
(* QueryChain), and so is not within this promise.                         *)
(***************************************************************************)
EXTENDS Naturals, Sequences, SequencesExt

CONSTANT NumParams      \* entries of server_status

VARIABLES
    mode,       \* "listening", "answering" or "closed"
    asked,      \* the kind of the request being answered, or "none"
    said        \* tags of the messages completed for the last request

vars == <<mode, asked, said>>

\* A start-up packet, an SSL request, and a query: with rows, with none, or
\* one that fails.  A batch of no rows says nothing.
Answers ==
    [Startup    |-> {<<"R">> \o [i \in 1..NumParams |-> "S"] \o <<"Z">>},
     SSLRequest |-> {<<"N">>},
     Query      |-> {<<"T", "D", "C", "Z">>, <<"T", "C", "Z">>, <<"E", "Z">>}]

Init == mode = "listening" /\ asked = "none" /\ said = <<>>

\* One message more, or none.
Continues(longer) == IsPrefix(said, longer) /\ Len(longer) <= Len(said) + 1

\* Take a request; the first message may be out by the end of the same step.
Ask(k) ==
    /\ mode = "listening"
    /\ mode' = "answering" /\ asked' = k
    /\ said' = <<>> \/ \E a \in Answers[k] : said' = <<Head(a)>>

Say ==
    /\ mode = "answering"
    /\ \E a \in Answers[asked] : IsPrefix(said', a)
    /\ Continues(said')
    /\ UNCHANGED <<mode, asked>>

\* The client's turn comes with a whole answer only.
Done ==
    /\ mode = "answering"
    /\ mode' = "listening" /\ asked' = "none"
    /\ said' \in Answers[asked] /\ Continues(said')

\* The next request is on its way.
Forget == mode = "listening" /\ said' = <<>> /\ UNCHANGED <<mode, asked>>

Close ==
    /\ mode # "closed"
    /\ mode' = "closed" /\ asked' = "none" /\ said' = <<>>

Next == (\E k \in DOMAIN Answers : Ask(k)) \/ Say \/ Done \/ Forget \/ Close

Spec == Init /\ [][Next]_vars
=============================================================================
