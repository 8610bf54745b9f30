------------------------------- MODULE Buffer --------------------------------
(***************************************************************************)
(* pgwire::Buffer (buffer.hpp, buffer.cpp): the bytes of a message, written *)
(* at their end by the put_* methods and read from a position on by get_*. *)
(*                                                                         *)
(* What one put_* call appends is one cell: how many bytes it takes, how   *)
(* they are to be read and what they hold.  Who reads a buffer must cut it *)
(* where the cells begin and end, and knows of a cell its bytes only; what *)
(* is cut elsewhere is Torn.                                               *)
(***************************************************************************)
EXTENDS Integers, Sequences

CONSTANTS
    Texts,          \* texts that names, values and messages may be
    TextLen,        \* their lengths
    Int16Max        \* the largest number of two bytes (scaled down for TLC)

ASSUME BufferAssumption ==
    /\ TextLen \in [Texts -> Nat]
    /\ Int16Max \in Nat

Torn == [form |-> "torn", bytes |-> 1, holds |-> 0]

\* The conversion of a size_t to int16_t, which keeps the low bits.
int16(n) == ((n + Int16Max + 1) % (2 * (Int16Max + 1))) - (Int16Max + 1)

put_numeric(width, n) == <<[form |-> "num", bytes |-> width, holds |-> n]>>

put_byte(b) == <<[form |-> "byte", bytes |-> 1, holds |-> b]>>

\* No bytes, no cell.
put_bytes(what, n) ==
    IF n = 0 THEN <<>> ELSE <<[form |-> "bytes", bytes |-> n, holds |-> what]>>

\* A text of n characters, and its NUL.
put_text(s, n) == <<[form |-> "text", bytes |-> n + 1, holds |-> s]>>

put_string(s) == put_text(s, TextLen[s])

\* Put(items[1]) \o Put(items[2]) \o ...
EncodeAll(items, Put(_)) ==
    LET upTo[k \in 0..Len(items)] ==
            IF k = 0 THEN <<>> ELSE upTo[k - 1] \o Put(items[k])
    IN  upTo[Len(items)]

\* Buffer::size, counted from the beginning of the buffer.
size(cells) ==
    LET upTo[k \in 0..Len(cells)] ==
            IF k = 0 THEN 0 ELSE upTo[k - 1] + cells[k].bytes
    IN  upTo[Len(cells)]

\* The cells that end n bytes on.
Ends(cells, n) == {k \in 0..Len(cells) : size(SubSeq(cells, 1, k)) = n}

\* The first n bytes, and those behind them.
Take(cells, n) ==
    IF Ends(cells, n) = {} THEN <<Torn>>
    ELSE SubSeq(cells, 1, CHOOSE k \in Ends(cells, n) : TRUE)

Drop(cells, n) ==
    IF Ends(cells, n) = {} THEN <<Torn>>
    ELSE SubSeq(cells, (CHOOSE k \in Ends(cells, n) : TRUE) + 1, Len(cells))

\* The cell that begins pos bytes on: what get_numeric and get_string find.
At(cells, pos) ==
    LET rest == Drop(cells, pos) IN IF rest = <<>> THEN Torn ELSE Head(rest)

IsNum(cell, width) == cell.form = "num" /\ cell.bytes = width
IsByte(cell) == cell.form = "byte"
IsText(cell) == cell.form = "text"
=============================================================================
