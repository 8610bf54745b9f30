------------------------------ MODULE Requests -------------------------------
(***************************************************************************)
(* What a client asks, from the bytes it sends to the FrontendMessage that *)
(* process_message gets: Session::read and read_startup, which cut the     *)
(* stream by its lengths, Buffer's get_* methods, and the decode methods   *)
(* of StartupMessage, Query and Terminate.                                 *)
(*                                                                         *)
(* One round of StartupMessage's loop that meets a NUL is one step; the    *)
(* rounds that look for it are left out.                                   *)
(***************************************************************************)
EXTENDS Buffer

CONSTANTS
    Names,          \* names of parameters that a client may give
    ParamTexts,     \* and values of them; a value may be the name of another
    MaxParams,      \* bound: parameters in one packet
    Queries         \* texts of queries

NoText == ""

ASSUME RequestsAssumption ==
    /\ MaxParams \in Nat
    /\ Names \cup ParamTexts \cup Queries \cup {NoText} \subseteq Texts
    /\ NoText \notin Names /\ "no key" \notin Texts

NoKey == "no key"

Params == UNION {[1..n -> [name : Names, value : ParamTexts]] : n \in 0..MaxParams}

\* An untagged request, or a tagged one.  "Other" is a message with a tag that
\* is not in sFrontendMessageRegsitry, as a Flush or a Parse.
Untagged == {[kind |-> "SSLRequest"]} \cup [kind : {"Startup"}, params : Params]
Tagged == [kind : {"Query"}, text : Queries]
          \cup [kind : {"Other"}, text : {"none"} \cup Queries]
          \cup {[kind |-> "Terminate"]}

VARIABLES
    wire,           \* what the client sent and the session has not read
    asked,          \* history: the request it sent last
    understood,     \* history: the messages decoded since then
    startup_done,   \* Session::_startup_done
    step,           \* "header", "body", "decode", "texts" or "message"
    tag, length,    \* read from the header: the tag, the size of the body
    body, pos,      \* the Buffer of the body, and its _pos
    start, key,     \* decode: bytes behind it; the name that lacks its value
    message         \* the FrontendMessage

readVars == <<step, tag, length, body, pos, start, key, message>>
requestVars == <<wire, asked, understood, startup_done, readVars>>

Invalid == [kind |-> "Invalid"]
NewStartup == [kind |-> "Startup", user |-> NoText, database |-> NoText, options |-> NoText]

RequestsTypeOK ==
    /\ asked \in {<<>>} \cup [1..1 -> Untagged \cup Tagged]
    /\ startup_done \in BOOLEAN
    /\ step \in {"header", "body", "decode", "texts", "message"}
    /\ tag \in {"none", "Q", "X", "P"}
    /\ length \in Nat /\ pos \in Nat /\ start \in Nat
    /\ key \in Texts \cup {NoKey}

RequestsInit ==
    /\ wire = <<>> /\ asked = <<>> /\ understood = <<>>
    /\ startup_done = FALSE
    /\ step = "header" /\ tag = "none" /\ length = 0
    /\ body = <<>> /\ pos = 0 /\ start = 0 /\ key = NoKey
    /\ message = Invalid

-----------------------------------------------------------------------------
(***************************************************************************)
(* The client                                                              *)
(***************************************************************************)
PacketTag(r) == CASE r.kind = "Query" -> "Q" [] r.kind = "Terminate" -> "X" [] OTHER -> "P"

\* A start-up packet is a version, then texts that each end in a NUL: names and
\* values by turns, and an empty name at the end.
put_version(major, minor) == put_numeric(2, major) \o put_numeric(2, minor)
put_param(p) == put_string(p.name) \o put_string(p.value)
put_params(params) == EncodeAll(params, put_param)

PacketBody(r) ==
    CASE r.kind = "SSLRequest" -> put_version(1234, 5679)
      [] r.kind = "Startup" -> put_version(3, 0) \o put_params(r.params) \o put_string(NoText)
      [] r.kind = "Query" -> put_string(r.text)
      [] r.kind = "Terminate" -> <<>>
      [] r.kind = "Other" -> IF r.text = "none" THEN <<>> ELSE put_string(r.text)

Packet(r) ==
    (IF r \in Untagged THEN <<>> ELSE put_byte(PacketTag(r)))
      \o put_numeric(4, size(PacketBody(r)) + 4) \o PacketBody(r)

\* Send r, once all of the last request was read.
Send(r) ==
    /\ IF startup_done THEN r \in Tagged ELSE r \in Untagged
    /\ wire' = wire \o Packet(r)
    /\ asked' = <<r>> /\ understood' = <<>>
    /\ UNCHANGED <<startup_done, readVars>>

-----------------------------------------------------------------------------
(***************************************************************************)
(* Session::read and read_startup                                          *)
(***************************************************************************)
HeaderSize == IF startup_done THEN 5 ELSE 4

\* Fault: the length is taken for that of the body.
BodySizeWhole(len) == len

\* ... to exclude its own length
BodySize(len) == len - 4

ReadHeader ==
    /\ step = "header" /\ size(wire) >= HeaderSize
    /\ LET header == Take(wire, HeaderSize)
       IN  /\ tag' = IF startup_done THEN At(header, 0).holds ELSE "none"
           /\ length' = BodySize(At(header, HeaderSize - 4).holds)
    /\ wire' = Drop(wire, HeaderSize)
    /\ step' = "body"
    /\ UNCHANGED <<asked, understood, startup_done, body, pos, start, key, message>>

ReadBody ==
    /\ step = "body" /\ size(wire) >= length
    /\ body' = Take(wire, length) /\ wire' = Drop(wire, length)
    /\ step' = "decode"
    /\ UNCHANGED <<asked, understood, startup_done, tag, length, pos, start, key, message>>

-----------------------------------------------------------------------------
(***************************************************************************)
(* The decode methods                                                      *)
(***************************************************************************)
\* The message is decoded, and process_message called with it.
Decoded(m) ==
    /\ step' = "message" /\ message' = m
    /\ understood' = Append(understood, m)

\* Fault: both numbers are read as int32_t.
DecodeVersionWide ==
    /\ step = "decode" /\ ~startup_done
    /\ pos' = pos + 8
    /\ \/ /\ At(body, pos).holds = 1234
          /\ Decoded([kind |-> "SSLRequest"])
       \/ /\ At(body, pos).holds # 1234
          /\ step' = "texts"
          /\ message' = NewStartup
          /\ UNCHANGED understood
    /\ UNCHANGED <<wire, asked, startup_done, tag, length, body, start, key>>

\* StartupMessage::decode: version 1234.5679 asks for SSL, and nothing else is
\* looked at.
DecodeVersion ==
    /\ step = "decode" /\ ~startup_done
    /\ pos' = pos + 4
    /\ LET ssl == At(body, pos).holds = 1234 /\ At(body, pos + 2).holds = 5679
       IN  \/ ssl /\ Decoded([kind |-> "SSLRequest"])
           \/ /\ ~ssl
              /\ step' = "texts"
              /\ message' = NewStartup
              /\ UNCHANGED understood
    /\ UNCHANGED <<wire, asked, startup_done, tag, length, body, start, key>>

\* A NUL is found: the text from `start' up to it.
Text == At(body, pos + start)
TextFound == step = "texts" /\ pos + start < size(body)

\* The parameters of which the values are kept.
Kept == key \in {"user", "database", "options"}

TakeKey ==
    /\ TextFound
    /\ key = NoKey
    /\ key' = Text.holds /\ start' = start + Text.bytes
    /\ UNCHANGED <<wire, asked, understood, startup_done, step, tag, length, body, pos, message>>

\* Fault: the key is put away only when its value was wanted.
TakeValueKeepsKey ==
    /\ TextFound
    /\ key # NoKey
    /\ message' = IF Kept THEN [message EXCEPT ![key] = Text.holds] ELSE message
    /\ key' = IF Kept THEN NoKey ELSE key
    /\ start' = start + Text.bytes
    /\ UNCHANGED <<wire, asked, understood, startup_done, step, tag, length, body, pos>>

TakeValue ==
    /\ TextFound
    /\ key # NoKey
    /\ message' = IF Kept THEN [message EXCEPT ![key] = Text.holds] ELSE message
    /\ key' = NoKey /\ start' = start + Text.bytes
    /\ UNCHANGED <<wire, asked, understood, startup_done, step, tag, length, body, pos>>

\* The loop ends, and read_startup's continuation notes that this was it.
FinishStartup ==
    /\ step = "texts" /\ ~TextFound
    /\ Decoded(message)
    /\ startup_done' = TRUE
    /\ UNCHANGED <<wire, asked, tag, length, body, pos, start, key>>

\* Query::decode is one get_string, Terminate::decode reads nothing, and for
\* another tag there is no message.
DecodeTagged ==
    /\ step = "decode" /\ startup_done
    /\ \/ /\ tag = "Q"
          /\ pos' = pos + At(body, pos).bytes
          /\ Decoded([kind |-> "Query", text |-> At(body, pos).holds])
       \/ tag = "X" /\ Decoded([kind |-> "Terminate"]) /\ UNCHANGED pos
       \/ tag \notin {"Q", "X"} /\ Decoded([kind |-> "Other"]) /\ UNCHANGED pos
    /\ UNCHANGED <<wire, asked, startup_done, tag, length, body, start, key>>

read ==
    \/ ReadHeader \/ ReadBody
    \/ DecodeVersion \/ TakeKey \/ TakeValue \/ FinishStartup \/ DecodeTagged

\* The message is processed; what is read next is read anew.
ReadAnew ==
    /\ step' = "header" /\ tag' = "none" /\ length' = 0
    /\ body' = <<>> /\ pos' = 0 /\ start' = 0 /\ key' = NoKey
    /\ message' = Invalid
    /\ UNCHANGED <<wire, asked, understood, startup_done>>

-----------------------------------------------------------------------------
(***************************************************************************)
(* Properties                                                              *)
(***************************************************************************)
\* The value the client gave last for a name, or the empty one.
Given(params, name) ==
    LET given == {k \in DOMAIN params : params[k].name = name}
    IN  IF given = {} THEN NoText
        ELSE params[CHOOSE k \in given : \A l \in given : l <= k].value

\* What the server is to make of a request.
Meant(r) ==
    CASE r.kind = "Startup" ->
             [kind |-> "Startup", user |-> Given(r.params, "user"),
              database |-> Given(r.params, "database"), options |-> Given(r.params, "options")]
      [] r.kind = "Other" -> [kind |-> "Other"]
      [] OTHER -> r

\* The session waits for bytes that the client has not sent.
Starved ==
    \/ step = "header" /\ size(wire) < HeaderSize
    \/ step = "body" /\ size(wire) < length

\* Each request of the client is understood as it was meant, once, and no part
\* of it is left over for the next or waited for in vain: header sizes, lengths,
\* widths and terminators agree with what clients send.  In a start-up packet
\* names and values are not taken for each other, also when a value reads like a
\* name and between them stand parameters the server does not know.
ServerUnderstands ==
    /\ Len(understood) <= Len(asked)
    /\ \A k \in DOMAIN understood : understood[k] = Meant(asked[k])
    /\ Starved => wire = <<>> /\ Len(understood) = Len(asked)

\* get_numeric and get_string read no further than the body goes, which nothing
\* in them looks at.
ReadsWithinBody == pos + start <= size(body)
=============================================================================
