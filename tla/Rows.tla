-------------------------------- MODULE Rows --------------------------------
(***************************************************************************)
(* The answer to a query: the ParseHandler and ExecHandler of the          *)
(* extension (duckdb_handler) writing through pgwire's Writer and          *)
(* RowWriter.                                                              *)
(*                                                                         *)
(* The fields of the RowDescription come from one loop over the columns,   *)
(* the values of a DataRow from another, and the two meet in tables that   *)
(* are kept apart: g_typemap, and the switch over the same types.  A value *)
(* is abstracted to the write_* method that encodes it and to its size.    *)
(***************************************************************************)
EXTENDS Messages

CONSTANTS
    Types,      \* the column types of this run
    NameOf,     \* the names of columns of these types
    MaxCols,    \* bound: columns of a result
    MaxRows,    \* bound: rows of a result
    Lengths     \* sizes that the text of a value may have

\* Fault: the line for TINYINT is put back in; the switch has no case for it.
g_typemapTinyint ==
    [FLOAT |-> "Float4", DOUBLE |-> "Float8", TINYINT |-> "Char",
     SMALLINT |-> "Int2", INTEGER |-> "Int4", BIGINT |-> "Int8",
     VARCHAR |-> "Varchar", DATE |-> "Date", TIME |-> "Time",
     TIMESTAMP |-> "Timestamp"]

\* The columns that are sent, with their Oids.  TIMESTAMP is listed twice, and
\* the first entry counts.
g_typemap ==
    [FLOAT |-> "Float4", DOUBLE |-> "Float8",
     SMALLINT |-> "Int2", INTEGER |-> "Int4", BIGINT |-> "Int8",
     VARCHAR |-> "Varchar", DATE |-> "Date", TIME |-> "Time",
     TIMESTAMP |-> "Timestamp"]

\* The switch over type.id(): the method that writes a value of the type.
write_method ==
    [FLOAT |-> "float4", DOUBLE |-> "float8",
     SMALLINT |-> "int2", INTEGER |-> "int4", BIGINT |-> "int8",
     BOOLEAN |-> "bool", VARCHAR |-> "string", DATE |-> "string",
     TIME |-> "string", TIMESTAMP |-> "string", TIMESTAMP_TZ |-> "string"]

Mapped(t) == t \in DOMAIN g_typemap

Methods == {write_method[t] : t \in DOMAIN write_method}

ASSUME RowsAssumption ==
    /\ NameOf \in [Types -> Texts]
    /\ MaxCols \in Nat /\ MaxRows \in Nat
    /\ Lengths \subseteq Nat

\* What a column of a row is written as, after its length of four bytes.
Values == {Null} \cup [method : Methods, size : Lengths]

EncodeValue(v) == put_numeric(4, v.size) \o put_bytes(v.method, IF v = Null THEN 0 ELSE v.size)

DataRows == [length : Nat, cols : Int, cells : Seq(Values)]

VARIABLES
    column_types,   \* the types of the prepared statement's columns
    pc,             \* "idle", "describe", "execute", "row", "done" or "failed"
    i,              \* columns that the running loop has behind it
    fields,         \* PreparedStatement::fields
    num_rows,       \* Writer::_num_rows
    data,           \* Writer::_data, message by message
    current_col,    \* RowWriter::_current_col
    row,            \* RowWriter::_row, column by column
    fetched         \* history: the values of the described columns, row by row

rowsVars == <<column_types, pc, i, fields, num_rows, data, current_col, row, fetched>>

RowsTypeOK ==
    /\ column_types \in Seq(Types)
    /\ pc \in {"idle", "describe", "execute", "row", "done", "failed"}
    /\ i \in 0..Len(column_types)
    /\ fields \in Seq([name : Texts, oid : {g_typemap[t] : t \in DOMAIN g_typemap}])
    /\ num_rows \in 0..MaxRows
    /\ data \in Seq(DataRows)
    /\ current_col \in Nat
    /\ row \in Seq(Values)
    /\ fetched \in Seq(Seq(Values))

RowsInit ==
    /\ column_types = <<>> /\ pc = "idle" /\ i = 0 /\ fields = <<>>
    /\ num_rows = 0 /\ data = <<>> /\ fetched = <<>>
    /\ current_col = 0 /\ row = <<>>

\* The statement and its writer are destroyed, the answer is out.
ForgetRows ==
    /\ column_types' = <<>> /\ pc' = "idle" /\ i' = 0 /\ fields' = <<>>
    /\ num_rows' = 0 /\ data' = <<>> /\ fetched' = <<>>
    /\ current_col' = 0 /\ row' = <<>>

-----------------------------------------------------------------------------
\* The statement is prepared without an error.
Prepare ==
    /\ \E n \in 0..MaxCols : column_types' \in [1..n -> Types]
    /\ pc' = "describe"
    /\ UNCHANGED <<i, fields, num_rows, data, current_col, row, fetched>>

\* The type of the column that the running loop is at, and its description.
Column == column_types[i + 1]
Field(oid) == [name |-> NameOf[Column], oid |-> oid]

\* Fault: a column without an Oid is described all the same.
DescribeColumnAll ==
    /\ pc = "describe" /\ i < Len(column_types)
    /\ i' = i + 1
    /\ fields' = Append(fields, Field(IF Mapped(Column) THEN g_typemap[Column] ELSE "Unknown"))
    /\ UNCHANGED <<column_types, pc, num_rows, data, current_col, row, fetched>>

\* One round of the loop over the columns that fills stmt.fields.
DescribeColumn ==
    /\ pc = "describe" /\ i < Len(column_types)
    /\ i' = i + 1
    /\ fields' = IF Mapped(Column) THEN Append(fields, Field(g_typemap[Column])) ELSE fields
    /\ UNCHANGED <<column_types, pc, num_rows, data, current_col, row, fetched>>

\* The statement is returned to process_message, which later runs its handler
\* with a new Writer.
Described ==
    /\ pc = "describe" /\ i = Len(column_types)
    /\ pc' = "execute"
    /\ UNCHANGED <<column_types, i, fields, num_rows, data, current_col, row, fetched>>

add_row ==
    /\ pc = "execute" /\ num_rows < MaxRows
    /\ pc' = "row" /\ i' = 0
    /\ num_rows' = num_rows + 1
    /\ current_col' = 0 /\ row' = <<>>
    /\ fetched' = Append(fetched, <<>>)
    /\ UNCHANGED <<column_types, fields, data>>

\* DuckDB's value for the column that the loop is at.
Fetch(v) == fetched' = [fetched EXCEPT ![num_rows] = Append(@, v)]

\* RowWriter::write_value and the numeric writes: a column more, and its value.
write_value(v) ==
    /\ current_col' = current_col + 1
    /\ row' = Append(row, v)

\* RowWriter::write_null, for a column that is sent.
WriteNull ==
    /\ pc = "row" /\ i < Len(column_types)
    /\ i' = i + 1
    /\ Mapped(Column)
    /\ Fetch(Null) /\ write_value(Null)
    /\ UNCHANGED <<column_types, pc, fields, num_rows, data>>

\* The other write_* methods.  A type with no case in the switch writes nothing.
\* Numbers have at least one digit.
WriteValue ==
    /\ pc = "row" /\ i < Len(column_types)
    /\ i' = i + 1
    /\ Mapped(Column)
    /\ \/ /\ Column \in DOMAIN write_method
          /\ \E n \in Lengths :
                 LET v == [method |-> write_method[Column], size |-> n]
                 IN  /\ n > 0 \/ v.method = "string"
                     /\ Fetch(v) /\ write_value(v)
       \/ /\ Column \notin DOMAIN write_method
          /\ UNCHANGED <<row, current_col, fetched>>
    /\ UNCHANGED <<column_types, pc, fields, num_rows, data>>

SkipColumn ==
    /\ pc = "row" /\ i < Len(column_types)
    /\ i' = i + 1
    /\ ~Mapped(Column)
    /\ UNCHANGED <<column_types, pc, fields, num_rows, data, current_col, row, fetched>>

\* RowWriter::_row.size().
row_size(cells) == size(EncodeAll(cells, EncodeValue))

\* The row as a whole message: the length covers itself, the count of columns
\* and the row; the count is narrowed.
DataRow(cells, cols) ==
    [length |-> row_size(cells) + 6, cols |-> int16(cols), cells |-> cells]

\* Fault: the count of columns is left out of the length.
RowWriterDtorShort ==
    data' = Append(data, [DataRow(row, current_col) EXCEPT !.length = @ - 2])

\* Fault: the writer that add_row returns is a moved-to copy, and the one it was
\* moved from is destroyed as well.
RowWriterDtorTwice ==
    data' = data \o <<DataRow(<<>>, 0), DataRow(row, current_col)>>

\* RowWriter::~RowWriter puts the row into the writer.
RowWriterDtor == data' = Append(data, DataRow(row, current_col))

EndRow ==
    /\ pc = "row" /\ i = Len(column_types)
    /\ RowWriterDtor
    /\ pc' = "execute"
    /\ UNCHANGED <<column_types, i, fields, num_rows, current_col, row, fetched>>

\* A value cannot be fetched: the row is destroyed as the exception passes, and
\* so is put into the writer as it stands; the exception leaves the handler.
Throw ==
    /\ pc = "row" /\ i < Len(column_types)
    /\ RowWriterDtor
    /\ pc' = "failed"
    /\ UNCHANGED <<column_types, i, fields, num_rows, current_col, row, fetched>>

\* The handler returns; process_message sends the data and the count of rows.
Return ==
    /\ pc = "execute"
    /\ pc' = "done"
    /\ UNCHANGED <<column_types, i, fields, num_rows, data, current_col, row, fetched>>

\* encode(Buffer&, Writer const&): the rows, as RowWriter put them.
EncodeRow(r) ==
    put_byte("D") \o put_numeric(4, r.length) \o put_numeric(2, r.cols)
      \o EncodeAll(r.cells, EncodeValue)

encode_writer == EncodeAll(data, EncodeRow)

-----------------------------------------------------------------------------
(***************************************************************************)
(* Properties                                                              *)
(***************************************************************************)
\* How the values of an Oid look in text format.
method_of ==
    [Float4 |-> "float4", Float8 |-> "float8", Int2 |-> "int2", Int4 |-> "int4",
     Int8 |-> "int8", Varchar |-> "string", Date |-> "string", Time |-> "string",
     Timestamp |-> "string", Char |-> "string"]

\* Every DataRow that is sent has the columns the RowDescription announced, in
\* that order and of those types: two loops and three tables agree, on any mix
\* of supported and unsupported columns and of NULLs.
RowsMatchDescription ==
    pc = "done" =>
        \A r \in DOMAIN data :
            /\ data[r].cols = int16(Len(fields))
            /\ Len(data[r].cells) = Len(fields)
            /\ \A k \in DOMAIN fields :
                   \/ data[r].cells[k] = Null
                   \/ data[r].cells[k].method = method_of[fields[k].oid]

\* CommandComplete counts the rows that were sent: add_row counts a row when it
\* begins, its destructor sends it.
CountIsRows == pc \in {"execute", "done"} => num_rows = Len(data)
=============================================================================
