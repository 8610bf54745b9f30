------------------------------ MODULE Messages -------------------------------
(***************************************************************************)
(* The messages of the server as they are put on the wire (protocol.cpp),  *)
(* and a client that reads them back by the rules of the protocol.         *)
(***************************************************************************)
EXTENDS Buffer, FiniteSets

\* The types the extension describes columns with (and Char, which it does not,
\* see Rows), and get_oid_size of them.
Oid ==
    [Float4 |-> 700, Float8 |-> 701, Int2 |-> 21, Int4 |-> 23, Int8 |-> 20,
     Varchar |-> 1043, Date |-> 1082, Time |-> 1083, Timestamp |-> 1114, Char |-> 18]

get_oid_size ==
    [Float4 |-> 4, Float8 |-> 8, Int2 |-> 2, Int4 |-> 4, Int8 |-> 8,
     Varchar |-> -1, Date |-> 4, Time |-> 8, Timestamp |-> 8, Char |-> 1]

\* A value of a row: NULL, or a text of some size that a write_* method makes.
Null == [method |-> "null", size |-> -1]

-----------------------------------------------------------------------------
(***************************************************************************)
(* The messages and their encode methods                                   *)
(***************************************************************************)
\* Severities and SQLSTATEs are texts of five characters.
put_code(s) == put_text(s, 5)

EncodeField(field) ==
    put_string(field.name) \o put_numeric(4, 0) \o put_numeric(2, 0)
      \o put_numeric(4, Oid[field.oid]) \o put_numeric(2, get_oid_size[field.oid])
      \o put_numeric(4, -1) \o put_numeric(2, 0)

RowDescription(m) ==
    put_numeric(2, int16(Len(m.fields))) \o EncodeAll(m.fields, EncodeField)

ErrorResponse(m) ==
    put_byte("S") \o put_code(m.severity) \o put_byte("C") \o put_code(m.code)
      \o put_byte("M") \o put_string(m.message) \o put_byte("NUL")

\* The decimal digits of a count.
digits(n) == 1 + Cardinality({d \in 1..n : 10^d <= n})

\* "SELECT n".
CommandComplete(m) == put_text(m.num_rows, 7 + digits(m.num_rows))

Body(m) ==
    CASE m.tag = "R" -> put_numeric(4, 0)
      [] m.tag = "S" -> put_string(m.name) \o put_string(m.value)
      [] m.tag = "Z" -> put_byte("I")
      [] m.tag = "T" -> RowDescription(m)
      [] m.tag = "C" -> CommandComplete(m)
      [] m.tag = "E" -> ErrorResponse(m)

\* Fault: the length does not count its own four bytes.
encodeShort(m) ==
    put_byte(m.tag) \o put_numeric(4, size(Body(m))) \o Body(m)

\* encode(Buffer&, BackendMessage const&): the length counts itself and the body.
encode(m) ==
    put_byte(m.tag) \o put_numeric(4, size(Body(m)) + 4) \o Body(m)

\* SSLResponse is a byte, without a length.
encode_ssl == put_byte("N")

-----------------------------------------------------------------------------
(***************************************************************************)
(* The client.  It cuts the stream by the lengths alone, and takes each    *)
(* body apart by widths and terminators: `Bad' is what it cannot read.     *)
(***************************************************************************)
Bad == [tag |-> "bad"]

IsField(b, at) ==
    /\ IsText(b[at])
    /\ \A k \in 1..6 : IsNum(b[at + k], IF k \in {1, 3, 5} THEN 4 ELSE 2)

ReadFields(b) ==
    IF /\ b # <<>> /\ IsNum(b[1], 2) /\ Len(b) = 1 + 7 * b[1].holds
       /\ \A k \in 1..b[1].holds : IsField(b, 7 * k - 5)
    THEN [tag |-> "T", fields |-> [k \in 1..b[1].holds |->
              [name |-> b[7 * k - 5].holds, oid |-> CHOOSE o \in DOMAIN Oid :
                                             Oid[o] = b[7 * k - 2].holds]]]
    ELSE Bad

\* Pairs of a field type and its text, then a zero byte.
ReadError(b) ==
    IF /\ Len(b) = 7 /\ \A k \in {1, 3, 5, 7} : IsByte(b[k])
       /\ <<b[1].holds, b[3].holds, b[5].holds, b[7].holds>> = <<"S", "C", "M", "NUL">>
       /\ \A k \in {2, 4, 6} : IsText(b[k])
    THEN [tag |-> "E", severity |-> b[2].holds, code |-> b[4].holds,
          message |-> b[6].holds]
    ELSE Bad

\* A value is a length and as many bytes; -1 is NULL, and has none.
HasBytes(b, p) == b[p].holds \notin {-1, 0}

IsValue(b, p) ==
    /\ IsNum(b[p], 4)
    /\ HasBytes(b, p) =>
           p < Len(b) /\ b[p + 1].form = "bytes" /\ b[p + 1].bytes = b[p].holds

ValueAt(b, p) ==
    CASE b[p].holds = -1 -> Null
      [] b[p].holds = 0 -> [method |-> "string", size |-> 0]
      [] OTHER -> [method |-> b[p + 1].holds, size |-> b[p].holds]

ReadValues(b) ==
    LET from[p \in 1..Len(b) + 1] ==
            IF p > Len(b) THEN <<>>
            ELSE IF ~IsValue(b, p) THEN <<Bad>>
            ELSE <<ValueAt(b, p)>> \o from[p + IF HasBytes(b, p) THEN 2 ELSE 1]
    IN  from[1]

ReadRow(b) ==
    LET values == IF b = <<>> THEN <<>> ELSE ReadValues(Tail(b))
    IN  IF b # <<>> /\ IsNum(b[1], 2) /\ b[1].holds = Len(values)
        THEN [tag |-> "D", values |-> values] ELSE Bad

ReadMessage(tag, b) ==
    CASE tag = "R" /\ Len(b) = 1 /\ IsNum(b[1], 4) -> [tag |-> "R"]
      [] tag = "S" /\ Len(b) = 2 /\ IsText(b[1]) /\ IsText(b[2]) ->
             [tag |-> "S", name |-> b[1].holds, value |-> b[2].holds]
      [] tag = "Z" /\ Len(b) = 1 /\ IsByte(b[1]) -> [tag |-> "Z"]
      [] tag = "T" -> ReadFields(b)
      [] tag = "D" -> ReadRow(b)
      [] tag = "C" /\ Len(b) = 1 /\ IsText(b[1]) -> [tag |-> "C", num_rows |-> b[1].holds]
      [] tag = "E" -> ReadError(b)
      [] OTHER -> Bad

\* The cells that may end the message that begins at p, by its length.
EndsOf(stream, p) ==
    {p + k : k \in Ends(SubSeq(stream, p + 1, Len(stream)), stream[p + 1].holds) \ {0}}

IsMessage(stream, p) ==
    /\ p < Len(stream) /\ IsByte(stream[p]) /\ IsNum(stream[p + 1], 4)
    /\ EndsOf(stream, p) # {}

EndOf(stream, p) == CHOOSE k \in EndsOf(stream, p) : TRUE

\* What a client that is not waiting for an SSLResponse makes of the stream,
\* message by message; each length ends where another message begins.
Read(stream) ==
    LET from[p \in 1..Len(stream) + 1] ==
            IF p > Len(stream) THEN <<>>
            ELSE IF ~IsMessage(stream, p) THEN <<Bad>>
            ELSE <<ReadMessage(stream[p].holds, SubSeq(stream, p + 2, EndOf(stream, p)))>>
                   \o from[EndOf(stream, p) + 1]
    IN  from[1]
=============================================================================
