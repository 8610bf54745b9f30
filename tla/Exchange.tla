------------------------------ MODULE Exchange -------------------------------
(***************************************************************************)
(* One connection at the level of its bytes: a client that sends a request *)
(* and waits for the answer, the decoding of the request (Requests), the   *)
(* handlers and row writers that make the answer (Rows), its encoding and  *)
(* the client's reading of it (Messages).  process_message ties them.      *)
(*                                                                         *)
(* How the bytes travel, and how they may fail to, is in Session.          *)
(***************************************************************************)
EXTENDS Requests, Rows

CONSTANTS
    server_status,  \* the parameters that are reported at start-up
    MaxRequests     \* bound: requests of one client

ASSUME ExchangeAssumption ==
    /\ server_status \in Seq([name : Texts, value : Texts])
    /\ MaxRequests \in Nat

VARIABLES
    turn,           \* whose turn it is: "client", "server", "database" or,
                    \* when the connection ends or the client waits in vain, "over"
    requests,       \* requests that were sent
    said,           \* history: the messages of the answer that were encoded
    stream          \* and their bytes

answerVars == <<said, stream>>
vars == <<requestVars, rowsVars, turn, requests, answerVars>>

TypeOK ==
    /\ RequestsTypeOK /\ RowsTypeOK
    /\ turn \in {"client", "server", "database", "over"}
    /\ requests \in 0..MaxRequests

Init ==
    /\ RequestsInit /\ RowsInit
    /\ turn = "client" /\ requests = 0
    /\ said = <<>> /\ stream = <<>>

-----------------------------------------------------------------------------
\* Session::write of some messages.
write(messages) ==
    /\ said' = said \o messages
    /\ stream' = stream \o EncodeAll(messages, encode)

\* The client has read the last answer and asks on.
Ask(r) ==
    /\ turn = "client" /\ requests < MaxRequests
    /\ Send(r)
    /\ turn' = "server" /\ requests' = requests + 1
    /\ ForgetRows /\ said' = <<>> /\ stream' = <<>>

ReadRequest == turn = "server" /\ read /\ UNCHANGED <<rowsVars, turn, requests, answerVars>>

\* process_message is called with a message of this kind.
Processes(kind) ==
    /\ turn = "server" /\ step = "message"
    /\ message.kind = kind
    /\ ReadAnew
    /\ UNCHANGED requests

AuthenticationOk == <<[tag |-> "R"]>>
ReadyForQuery == <<[tag |-> "Z"]>>

Greet ==
    /\ Processes("Startup")
    /\ write(AuthenticationOk
             \o [k \in DOMAIN server_status |-> [tag |-> "S", name |-> server_status[k].name,
                                           value |-> server_status[k].value]]
             \o ReadyForQuery)
    /\ turn' = "client" /\ UNCHANGED rowsVars

RefuseSSL ==
    /\ Processes("SSLRequest")
    /\ said' = <<[tag |-> "N"]>> /\ stream' = stream \o encode_ssl
    /\ turn' = "client" /\ UNCHANGED rowsVars

Leave ==
    /\ Processes("Terminate")
    /\ turn' = "over" /\ UNCHANGED <<rowsVars, answerVars>>

\* The client of this module waits for no answer to a message of another tag.
Ignore ==
    /\ Processes("Other")
    /\ turn' = "client" /\ UNCHANGED <<rowsVars, answerVars>>

\* The statement is not prepared: the error chain of do_read reports it.
ParseFails ==
    /\ Processes("Query")
    /\ \E text \in Texts :
           write(<<[tag |-> "E", severity |-> "ERROR", code |-> "22000", message |-> text]>>
                 \o ReadyForQuery)
    /\ turn' = "client" /\ UNCHANGED rowsVars

Parse ==
    /\ Processes("Query")
    /\ Prepare
    /\ turn' = "database" /\ UNCHANGED answerVars

\* The turn and the frame of the steps that the handler of the statement takes.
Database(step1) ==
    turn = "database" /\ step1 /\ UNCHANGED <<requestVars, requests>>

Describe ==
    /\ Database(Described)
    /\ write(<<[tag |-> "T", fields |-> fields]>>)
    /\ UNCHANGED turn

\* Execute reports an error, of which nothing is said (see Session).
ExecFails ==
    /\ Database(pc = "execute" /\ i = Len(column_types) /\ num_rows = 0)
    /\ turn' = "over" /\ UNCHANGED <<rowsVars, answerVars>>

WriteRows ==
    /\ Database(DescribeColumn \/ add_row \/ WriteNull \/ WriteValue \/ SkipColumn \/ EndRow)
    /\ UNCHANGED <<turn, answerVars>>

\* An exception that is no SqlException ends the connection.
ExecThrows ==
    /\ Database(Throw)
    /\ turn' = "over" /\ UNCHANGED answerVars

\* The rows, CommandComplete and ReadyForQuery.
Complete ==
    /\ Database(Return)
    /\ said' = said \o [k \in 1..num_rows |-> [tag |-> "D", values |-> fetched[k]]]
                    \o <<[tag |-> "C", num_rows |-> num_rows]>> \o ReadyForQuery
    /\ stream' = stream \o encode_writer
                        \o encode([tag |-> "C", num_rows |-> num_rows])
                        \o encode(ReadyForQuery[1])
    /\ turn' = "client"

Next ==
    \/ \E r \in Untagged \cup Tagged : Ask(r)
    \/ ReadRequest
    \/ Greet \/ RefuseSSL \/ Leave \/ Ignore \/ ParseFails \/ Parse
    \/ Describe \/ ExecFails \/ WriteRows \/ ExecThrows \/ Complete

Spec == Init /\ [][Next]_vars

-----------------------------------------------------------------------------
\* What the client makes of the answer.  After an SSLRequest it reads one byte.
ClientReads ==
    IF asked # <<>> /\ asked[1].kind = "SSLRequest" /\ stream # <<>>
    THEN <<[tag |-> stream[1].holds]>> \o Read(Tail(stream))
    ELSE Read(stream)

\* A client that follows the protocol reads the messages that were meant, each
\* row with the values DuckDB gave for the described columns, and nothing else:
\* lengths, widths, counts and terminators agree.  That is so as long as the
\* columns can be counted in 16 bits, which nothing in the code sees to.
ClientReadsAll == Len(fields) <= Int16Max => ClientReads = said
=============================================================================
