--------------------------- MODULE MessagesProofs ---------------------------
(***************************************************************************)
(* What is encoded is read back: theorems about the operators of Buffer,   *)
(* Messages and Rows, for buffers, messages, results and rows of any       *)
(* length.                                                                 *)
(*                                                                         *)
(* Buffers and readers are recursive functions, and what they compute is   *)
(* known by induction only.  The library's induction theorems take an      *)
(* operator for what is to be shown; here it is a set (Induction), got     *)
(* from the finite subsets of Nat being well ordered by inclusion.  By it  *)
(* a recursion has a result (Recursion, BackRecursion), and that result is *)
(* followed from part to part (JoinUnique).                                *)
(*                                                                         *)
(* The client does not know where the server put two parts together.  It   *)
(* can find out (EndsOnce): no cell is empty, so no two prefixes of a      *)
(* buffer have the same size, and who cuts at the size of the first part   *)
(* gets that part.                                                         *)
(***************************************************************************)
EXTENDS Rows, FiniteSetTheorems, SequenceTheorems, TLAPS

-----------------------------------------------------------------------------
(***************************************************************************)
(* Induction and recursion                                                 *)
(***************************************************************************)
\* A set of numbers has a least one.
LEMMA Least ==
  ASSUME NEW T \in SUBSET Nat, T # {}
  PROVE  \E x \in T : \A y \in T : x <= y
  <1> DEFINE U == {0..n : n \in T}
  <1>1. U \subseteq FiniteSubsetsOf(Nat)
    <2>1. \A n \in Nat : IsFiniteSet(0..n)
      BY FS_Interval
    <2> QED
      BY <2>1 DEF FiniteSubsetsOf
  <1>2. U # {}
    OBVIOUS
  <1>3. PICK u \in U : \A v \in U : ~(<<v, u>> \in StrictSubsetOrdering(Nat))
    <2> HIDE DEF U
    <2> QED
      BY <1>1, <1>2, FS_StrictSubsetOrderingWellFounded, WFMin
  <1>4. PICK x \in T : u = 0..x
    OBVIOUS
  <1>5. ASSUME NEW y \in T, y < x PROVE FALSE
    <2>0. x \in Nat /\ y \in Nat
      OBVIOUS
    <2>a. ~(<<0..y, 0..x>> \in StrictSubsetOrdering(Nat))
      BY <1>3, <1>4
    <2>1. ~(0..y \subseteq 0..x /\ 0..y # 0..x)
      BY <2>a, <2>0 DEF StrictSubsetOrdering
    <2>2. x \in 0..x /\ x \notin 0..y /\ 0..y \subseteq 0..x
      BY <1>5, <2>0
    <2> QED
      BY <2>1, <2>2
  <1>6. \A y \in T : ~(y < x)
    BY <1>5
  <1> QED
    BY <1>6

\* A set that has 0, and with a number the next one, has all numbers.
LEMMA Induction ==
  ASSUME NEW S, 0 \in S, \A n \in Nat : n \in S => n + 1 \in S
  PROVE  Nat \subseteq S
  <1> SUFFICES ASSUME NEW m \in Nat, m \notin S PROVE FALSE
    OBVIOUS
  <1> DEFINE T == {n \in Nat : n \notin S}
  <1>1. PICK x \in T : \A y \in T : x <= y
    <2>1. T \in SUBSET Nat /\ T # {}
      OBVIOUS
    <2> HIDE DEF T
    <2> QED
      BY <2>1, Least
  <1>2. x \in Nat /\ x # 0 /\ x - 1 \in Nat
    OBVIOUS
  <1>3. x - 1 \in S
    BY <1>1, <1>2
  <1> QED
    BY <1>2, <1>3

\* u is computed from x by the steps F.
Computes(u, x, F, n) == u[0] = x /\ \A k \in 1..n : u[k] = F[k][u[k - 1]]

\* A recursion over 1..n has a result, when its steps stay within a set.
LEMMA Recursion ==
  ASSUME NEW T, NEW x \in T, NEW n \in Nat, NEW F \in [1..n -> [T -> T]]
  PROVE  \E u \in [0..n -> T] : Computes(u, x, F, n)
  <1> USE DEF Computes
  <1> DEFINE Good(m, u) == u[0] = x /\ \A k \in 1..m : u[k] = F[k][u[k - 1]]
             S == {m \in Nat : m <= n => \E u \in [0..m -> T] : Good(m, u)}
  <1>1. 0 \in S
    <2>1. Good(0, [k \in 0..0 |-> x]) /\ [k \in 0..0 |-> x] \in [0..0 -> T]
      OBVIOUS
    <2> QED
      BY <2>1
  <1>2. ASSUME NEW m \in Nat, m \in S PROVE m + 1 \in S
    <2>1. ASSUME m + 1 <= n PROVE \E u \in [0..m + 1 -> T] : Good(m + 1, u)
      <3>1. PICK u \in [0..m -> T] : Good(m, u)
        BY <1>2, <2>1
      <3> DEFINE v == [k \in 0..m + 1 |-> IF k <= m THEN u[k] ELSE F[m + 1][u[m]]]
      <3>2. v \in [0..m + 1 -> T]
        BY <2>1
      <3>3. Good(m + 1, v)
        <4>0. v[0] = x
          BY <3>1
        <4> SUFFICES ASSUME NEW k \in 1..m + 1 PROVE v[k] = F[k][v[k - 1]]
          BY <4>0
        <4>1. CASE k <= m
          BY <3>1, <4>1
        <4>2. CASE k = m + 1
          BY <4>2
        <4> QED
          BY <4>1, <4>2
      <3> QED
        BY <3>2, <3>3
    <2> QED
      BY <2>1
  <1>3. n \in S
    <2> HIDE DEF S
    <2> QED
      BY <1>1, <1>2, Induction
  <1> QED
    BY <1>3

-----------------------------------------------------------------------------
(***************************************************************************)
(* Buffers                                                                 *)
(***************************************************************************)
Words ==
    {"R", "S", "Z", "T", "D", "C", "E", "N", "M", "NUL", "I", "Q", "X", "P", "ERROR", "22000",
     "float4", "float8", "int2", "int4", "int8", "bool", "string"}

Held == Int \cup Texts \cup Words

Cells == [form : {"num", "byte", "bytes", "text"}, bytes : Nat \ {0}, holds : Held]

Buffers == Seq(Cells)

\* A buffer is that long, counted cell by cell.
Sizes(u, c) == u[0] = 0 /\ \A k \in 1..Len(c) : u[k] = u[k - 1] + c[k].bytes

LEMMA BufferType ==
  ASSUME NEW c \in Buffers
  PROVE  /\ Len(c) \in Nat
         /\ \A k \in 1..Len(c) : c[k] \in Cells /\ c[k].bytes \in Nat /\ c[k].bytes > 0
  <1>1. Len(c) \in Nat /\ \A k \in 1..Len(c) : c[k] \in Cells
    BY DEF Buffers
  <1>2. \A x \in Cells : x.bytes \in Nat /\ x.bytes > 0
    BY DEF Cells
  <1> QED
    BY <1>1, <1>2

LEMMA OneCell == ASSUME NEW x \in Cells PROVE <<x>> \in Buffers /\ <<x>>[1] = x /\ Len(<<x>>) = 1
  BY DEF Buffers

\* Each put_* method appends cells.
LEMMA PutTypes ==
  /\ \A w \in Nat \ {0}, n \in Int : put_numeric(w, n) \in Buffers
  /\ \A b \in Words : put_byte(b) \in Buffers
  /\ \A what \in Words, n \in Nat : put_bytes(what, n) \in Buffers
  /\ \A s \in Held, n \in Nat : put_text(s, n) \in Buffers
  /\ \A s \in Texts : put_string(s) \in Buffers
  <1>1. ASSUME NEW w \in Nat \ {0}, NEW n \in Int PROVE put_numeric(w, n) \in Buffers
    BY OneCell DEF put_numeric, Cells, Held
  <1>2. ASSUME NEW b \in Words PROVE put_byte(b) \in Buffers
    BY OneCell DEF put_byte, Cells, Held
  <1>3. ASSUME NEW what \in Words, NEW n \in Nat PROVE put_bytes(what, n) \in Buffers
    <2>1. <<>> \in Buffers
      BY DEF Buffers
    <2> QED
      BY <2>1, OneCell DEF put_bytes, Cells, Held
  <1>4. ASSUME NEW s \in Held, NEW n \in Nat PROVE put_text(s, n) \in Buffers
    BY OneCell DEF put_text, Cells
  <1>5. \A s \in Texts : TextLen[s] \in Nat
    BY BufferAssumption
  <1>6. \A s \in Texts : put_string(s) \in Buffers
    BY <1>4, <1>5 DEF put_string, Held
  <1> QED
    BY <1>1, <1>2, <1>3, <1>4, <1>6

\* size is such a count, and there is one only.
LEMMA SizeIs ==
  ASSUME NEW c \in Buffers
  PROVE  \E u \in [0..Len(c) -> Nat] : Sizes(u, c) /\ size(c) = u[Len(c)]
  <1> DEFINE N == Nat
             n == Len(c)
             z == 0
             F == [k \in 1..n |-> [x \in Nat |-> x + c[k].bytes]]
             w == CHOOSE w : w = [k \in 0..n |-> IF k = 0 THEN 0 ELSE w[k - 1] + c[k].bytes]
  <1>1. PICK u \in [0..n -> Nat] : Computes(u, z, F, n)
    <2>1. F \in [1..n -> [N -> N]] /\ n \in Nat /\ z \in N
      BY BufferType
    <2>2. \E u \in [0..n -> N] : Computes(u, z, F, n)
      <3> HIDE DEF F, N, z, n
      <3> QED
        BY <2>1, Recursion
    <2> QED
      BY <2>2
  <1>2. ASSUME NEW k \in 1..n PROVE u[k] = u[k - 1] + c[k].bytes
    <2>1. k - 1 \in 0..n /\ k \in 1..n
      BY BufferType
    <2>2. u[k - 1] \in Nat
      BY <2>1
    <2>3. F[k][u[k - 1]] = u[k - 1] + c[k].bytes
      BY <2>2
    <2> HIDE DEF F
    <2> QED
      BY <1>1, <2>3 DEF Computes
  <1>3. u = [k \in 0..n |-> IF k = 0 THEN 0 ELSE u[k - 1] + c[k].bytes]
    BY <1>1, <1>2 DEF Computes
  <1>4. w = [k \in 0..n |-> IF k = 0 THEN 0 ELSE w[k - 1] + c[k].bytes]
    BY <1>3
  <1>5. size(c) = w[n]
    BY DEF size
  <1> HIDE DEF w
  <1>6. Sizes(w, c) /\ Sizes(u, c)
    BY <1>1, <1>2, <1>4, BufferType DEF Sizes, Computes
  <1>7. w \in [0..n -> Nat]
    <2> DEFINE T == {k \in Nat : k <= n => w[k] \in Nat}
    <2>a. ASSUME NEW k \in Nat, k + 1 <= n, w[k] \in Nat PROVE w[k + 1] \in Nat
      <3>1. k + 1 \in 1..n /\ k + 1 - 1 = k
        BY <2>a, BufferType
      <3>2. c[k + 1].bytes \in Nat
        BY <3>1, BufferType
      <3> QED
        BY <1>6, <2>a, <3>1, <3>2 DEF Sizes
    <2>1. 0 \in T /\ \A k \in Nat : k \in T => k + 1 \in T
      BY <1>6, <2>a, BufferType DEF Sizes
    <2>2. Nat \subseteq T
      <3> HIDE DEF T
      <3> QED
        BY <2>1, Induction
    <2>3. \A k \in 0..n : w[k] \in Nat
      BY <2>2, BufferType
    <2> QED
      BY <1>4, <2>3
  <1> QED
    BY <1>5, <1>6, <1>7

LEMMA SizeBy ==
  ASSUME NEW c \in Buffers, NEW v, Sizes(v, c)
  PROVE  size(c) = v[Len(c)]
  <1>1. PICK u \in [0..Len(c) -> Nat] : Sizes(u, c) /\ size(c) = u[Len(c)]
    BY SizeIs
  <1> DEFINE T == {k \in Nat : k <= Len(c) => v[k] = u[k]}
  <1>2. 0 \in T /\ \A k \in Nat : k \in T => k + 1 \in T
    BY <1>1, BufferType DEF Sizes
  <1>3. Nat \subseteq T
    <2> HIDE DEF T
    <2> QED
      BY <1>2, Induction
  <1> QED
    BY <1>1, <1>3, BufferType

LEMMA SizeType == ASSUME NEW c \in Buffers PROVE size(c) \in Nat
  BY SizeIs, BufferType

LEMMA SizeEmpty == <<>> \in Buffers /\ size(<<>>) = 0
  <1>1. <<>> \in Buffers
    BY DEF Buffers
  <1>2. Sizes([k \in 0..0 |-> 0], <<>>)
    BY DEF Sizes
  <1> QED
    BY <1>1, <1>2, SizeBy

LEMMA SizeOne == ASSUME NEW x \in Cells PROVE <<x>> \in Buffers /\ size(<<x>>) = x.bytes
  <1>1. <<x>> \in Buffers /\ Len(<<x>>) = 1 /\ <<x>>[1] = x
    BY DEF Buffers
  <1> DEFINE v == [k \in 0..1 |-> IF k = 0 THEN 0 ELSE x.bytes]
  <1>2. Sizes(v, <<x>>)
    BY <1>1 DEF Sizes, Cells
  <1> QED
    BY <1>1, <1>2, SizeBy

\* The size of a buffer is that of its parts.
LEMMA SizeConcat ==
  ASSUME NEW c \in Buffers, NEW d \in Buffers
  PROVE  c \o d \in Buffers /\ size(c \o d) = size(c) + size(d)
  <1>1. /\ c \o d \in Buffers /\ Len(c \o d) = Len(c) + Len(d)
        /\ \A k \in 1..Len(c) : (c \o d)[k] = c[k]
        /\ \A k \in 1..Len(d) : (c \o d)[Len(c) + k] = d[k]
    BY DEF Buffers
  <1>2. PICK u \in [0..Len(c) -> Nat] : Sizes(u, c) /\ size(c) = u[Len(c)]
    BY SizeIs
  <1>3. PICK v \in [0..Len(d) -> Nat] : Sizes(v, d) /\ size(d) = v[Len(d)]
    BY SizeIs
  <1> DEFINE w == [k \in 0..Len(c) + Len(d) |->
                       IF k <= Len(c) THEN u[k] ELSE u[Len(c)] + v[k - Len(c)]]
  <1>4. Sizes(w, c \o d)
    <2>1. w[0] = 0
      BY <1>2, BufferType DEF Sizes
    <2>2. ASSUME NEW k \in 1..Len(c) PROVE w[k] = w[k - 1] + (c \o d)[k].bytes
      BY <1>1, <1>2, <2>2, BufferType DEF Sizes
    <2>3. ASSUME NEW k \in 1..Len(d)
          PROVE  w[Len(c) + k] = w[Len(c) + k - 1] + (c \o d)[Len(c) + k].bytes
      <3>1. v[k] = v[k - 1] + d[k].bytes /\ v[0] = 0 /\ v[k - 1] \in Nat
        BY <1>3, BufferType DEF Sizes
      <3>2. w[Len(c) + k - 1] = u[Len(c)] + v[k - 1]
        <4>1. Len(c) \in Nat /\ Len(d) \in Nat /\ u[Len(c)] \in Nat
          BY <1>2, BufferType
        <4>2. CASE k = 1
          BY <3>1, <4>1, <4>2
        <4>3. CASE k > 1
          <5>1. ~(Len(c) + k - 1 <= Len(c)) /\ Len(c) + k - 1 - Len(c) = k - 1
            BY <4>1, <4>3
          <5>2. Len(c) + k - 1 \in 0..Len(c) + Len(d)
            BY <4>1
          <5> QED
            BY <5>1, <5>2
        <4> QED
          BY <4>2, <4>3
      <3>3. w[Len(c) + k] = u[Len(c)] + v[k]
        BY <3>1, <1>2, BufferType
      <3>4. (c \o d)[Len(c) + k] = d[k] /\ d[k].bytes \in Nat /\ u[Len(c)] \in Nat
        BY <1>1, <1>2, BufferType
      <3>5. v[k] \in Nat /\ v[k - 1] \in Nat
        BY <3>1, BufferType
      <3> HIDE DEF w
      <3> QED
        BY <3>1, <3>2, <3>3, <3>4, <3>5
    <2>4. ASSUME NEW k \in 1..Len(c \o d) PROVE w[k] = w[k - 1] + (c \o d)[k].bytes
      <3>1. CASE k \in 1..Len(c)
        BY <2>2, <3>1
      <3>2. CASE k - Len(c) \in 1..Len(d)
        <4>1. Len(c) + (k - Len(c)) = k
          BY BufferType
        <4> QED
          BY <2>3, <3>2, <4>1
      <3> QED
        BY <1>1, <3>1, <3>2, BufferType
    <2> QED
      BY <2>1, <2>4 DEF Sizes
  <1>5. w[Len(c) + Len(d)] = size(c) + size(d)
    BY <1>2, <1>3, BufferType DEF Sizes
  <1> HIDE DEF w
  <1> QED
    BY <1>1, <1>4, <1>5, SizeBy

\* No cell is empty.
LEMMA SizePositive == ASSUME NEW c \in Buffers, c # <<>> PROVE size(c) > 0
  <1>1. PICK d \in Seq(Cells), x \in Cells : c = Append(d, x)
    BY SequenceEmptyOrAppend DEF Buffers
  <1>2. c = d \o <<x>>
    BY <1>1, AppendIsConcat
  <1>3. d \in Buffers /\ <<x>> \in Buffers
    BY SizeOne DEF Buffers
  <1>4. size(c) = size(d) + x.bytes /\ size(d) \in Nat
    BY <1>2, <1>3, SizeConcat, SizeOne, SizeType
  <1>5. x.bytes > 0 /\ x.bytes \in Nat
    BY DEF Cells
  <1> QED
    BY <1>4, <1>5

\* Prefixes that are not as long have not as many bytes.
LEMMA EndsOnce ==
  ASSUME NEW c \in Buffers, NEW d \in Buffers
  PROVE  Ends(c \o d, size(c)) = {Len(c)}
  <1> DEFINE e == c \o d
  <1>1. e \in Buffers /\ Len(e) = Len(c) + Len(d) /\ Len(c) \in Nat /\ Len(d) \in Nat
    BY DEF Buffers
  <1>2. SubSeq(e, 1, Len(c)) = c
    <2>1. SubSeq(e, 1, Len(c)) \in Seq(Cells) /\ Len(SubSeq(e, 1, Len(c))) = Len(c)
      BY <1>1 DEF Buffers
    <2>2. \A k \in 1..Len(c) : SubSeq(e, 1, Len(c))[k] = c[k]
      BY <1>1 DEF Buffers
    <2> QED
      BY <2>1, <2>2, SeqEqual DEF Buffers
  <1> HIDE DEF e
  \* p is a shorter prefix than q.
  <1>3. ASSUME NEW k \in 0..Len(e), NEW l \in 0..Len(e), k < l
        PROVE  size(SubSeq(e, 1, k)) < size(SubSeq(e, 1, l))
    <2> DEFINE p == SubSeq(e, 1, k)
               q == SubSeq(e, 1, l)
               r == SubSeq(e, k + 1, l)
    <2>1. /\ p \in Buffers /\ q \in Buffers /\ r \in Buffers
          /\ Len(r) = l - k
      BY <1>1, <1>3 DEF Buffers
    <2>2. r # <<>>
      BY <2>1, <1>3
    <2>3. q = p \o r
      <3>1. 1 \in 1..Len(e) + 1 /\ k \in 1 - 1..Len(e) /\ l \in k..Len(e)
        BY <1>1, <1>3
      <3> QED
        BY <1>1, <3>1, ConcatAdjacentSubSeq DEF Buffers
    <2> HIDE DEF p, q, r
    <2>4. size(q) = size(p) + size(r) /\ size(r) > 0 /\ size(r) \in Nat /\ size(p) \in Nat
      BY <2>1, <2>2, <2>3, SizeConcat, SizePositive, SizeType
    <2>5. size(p) < size(q)
      BY <2>4
    <2> QED
      BY <2>5 DEF p, q
  <1>4. ASSUME NEW k \in 0..Len(e), k # Len(c) PROVE size(SubSeq(e, 1, k)) # size(c)
    <2>1. Len(c) \in 0..Len(e) /\ size(c) \in Nat
      BY <1>1, SizeType
    <2>2. SubSeq(e, 1, k) \in Buffers
      BY <1>1 DEF Buffers
    <2>3. size(SubSeq(e, 1, k)) \in Nat
      BY <2>2, SizeType
    <2>4. k < Len(c) \/ Len(c) < k
      BY <1>1, <1>4
    <2>5. \/ size(SubSeq(e, 1, k)) < size(SubSeq(e, 1, Len(c)))
          \/ size(SubSeq(e, 1, Len(c))) < size(SubSeq(e, 1, k))
      BY <1>3, <2>1, <2>4
    <2>6. size(SubSeq(e, 1, Len(c))) = size(c)
      BY <1>2
    <2>7. \A a, b \in Nat : a < b \/ b < a => a # b
      OBVIOUS
    <2> QED
      BY <2>1, <2>3, <2>5, <2>6, <2>7
  <1>5. Len(c) \in 0..Len(e)
    BY <1>1
  <1>6. Ends(e, size(c)) = {Len(c)}
    BY <1>2, <1>4, <1>5 DEF Ends
  <1> QED
    BY <1>6 DEF e

\* Who cuts where a buffer was put together gets its parts.
LEMMA Cut ==
  ASSUME NEW c \in Buffers, NEW d \in Buffers
  PROVE  /\ Take(c \o d, size(c)) = c
         /\ Drop(c \o d, size(c)) = d
         /\ d # <<>> => At(c \o d, size(c)) = d[1]
  <1>1. /\ Ends(c \o d, size(c)) = {Len(c)}
        /\ c \o d \in Buffers /\ Len(c \o d) = Len(c) + Len(d)
        /\ Len(c) \in Nat /\ Len(d) \in Nat
    BY EndsOnce DEF Buffers
  <1>2. (CHOOSE k \in {Len(c)} : TRUE) = Len(c)
    OBVIOUS
  <1>3. Take(c \o d, size(c)) = SubSeq(c \o d, 1, Len(c))
    BY <1>1, <1>2 DEF Take
  <1>4. Drop(c \o d, size(c)) = SubSeq(c \o d, Len(c) + 1, Len(c) + Len(d))
    BY <1>1, <1>2 DEF Drop
  <1>5. SubSeq(c \o d, 1, Len(c)) = c
    <2>1. /\ SubSeq(c \o d, 1, Len(c)) \in Seq(Cells)
          /\ Len(SubSeq(c \o d, 1, Len(c))) = Len(c)
          /\ \A k \in 1..Len(c) : SubSeq(c \o d, 1, Len(c))[k] = c[k]
      BY <1>1 DEF Buffers
    <2> QED
      BY <2>1, SeqEqual DEF Buffers
  <1>6. SubSeq(c \o d, Len(c) + 1, Len(c) + Len(d)) = d
    <2> DEFINE r == SubSeq(c \o d, Len(c) + 1, Len(c) + Len(d))
    <2>1. /\ r \in Seq(Cells)
          /\ Len(r) = Len(d)
          /\ \A k \in 1..Len(d) : r[k] = d[k]
      BY <1>1 DEF Buffers
    <2> QED
      BY <2>1, SeqEqual DEF Buffers
  <1>7. d # <<>> => Head(d) = d[1]
    BY DEF Buffers
  <1> QED
    BY <1>3, <1>4, <1>5, <1>6, <1>7 DEF At
-----------------------------------------------------------------------------
(***************************************************************************)
(* What is put together of parts                                           *)
(***************************************************************************)
\* u[k] is g[1] \o ... \o g[k].
Joins(u, g, n) == u[0] = <<>> /\ \A k \in 1..n : u[k] = u[k - 1] \o g[k]

\* Parts can be put together, in one way, and with one more part they are
\* what they were with that part behind it.
LEMMA JoinExists ==
  ASSUME NEW n \in Nat, NEW g \in [1..n -> Buffers]
  PROVE  \E u \in [0..n -> Buffers] : Joins(u, g, n)
  <1> DEFINE F == [k \in 1..n |-> [x \in Buffers |-> x \o g[k]]]
             z == <<>>
  <1>1. F \in [1..n -> [Buffers -> Buffers]] /\ z \in Buffers
    BY SizeEmpty, SizeConcat
  <1>2. PICK u \in [0..n -> Buffers] : Computes(u, z, F, n)
    <2> HIDE DEF F, z
    <2> QED
      BY <1>1, Recursion
  <1>3. ASSUME NEW k \in 1..n PROVE u[k] = u[k - 1] \o g[k]
    <2>1. k - 1 \in 0..n /\ u[k - 1] \in Buffers
      OBVIOUS
    <2>2. F[k][u[k - 1]] = u[k - 1] \o g[k]
      BY <2>1
    <2> HIDE DEF F
    <2> QED
      BY <1>2, <2>2 DEF Computes
  <1> QED
    BY <1>2, <1>3 DEF Joins, Computes

LEMMA JoinStep ==
  ASSUME NEW n \in Nat, NEW g, NEW u, Joins(u, g, n)
  PROVE  \A m \in 0..n - 1 : u[m + 1] = u[m] \o g[m + 1]
  <1> SUFFICES ASSUME NEW m \in 0..n - 1 PROVE u[m + 1] = u[m] \o g[m + 1]
    OBVIOUS
  <1>1. m + 1 \in 1..n /\ (m + 1) - 1 = m
    OBVIOUS
  <1>2. u[m + 1] = u[(m + 1) - 1] \o g[m + 1]
    BY <1>1 DEF Joins
  <1> QED
    BY <1>1, <1>2

LEMMA JoinUnique ==
  ASSUME NEW n \in Nat, NEW g, NEW u, NEW w, Joins(u, g, n), Joins(w, g, n)
  PROVE  w[n] = u[n]
  <1> DEFINE T == {k \in Nat : k <= n => w[k] = u[k]}
  <1>1. 0 \in T
    BY DEF Joins
  <1>2. ASSUME NEW k \in Nat, k \in T PROVE k + 1 \in T
    <2>1. ASSUME k + 1 <= n PROVE w[k + 1] = u[k + 1]
      <3>1. w[k] = u[k] /\ k \in 0..n - 1
        BY <1>2, <2>1
      <3>2. w[k + 1] = w[k] \o g[k + 1]
        BY <3>1, JoinStep
      <3>3. u[k + 1] = u[k] \o g[k + 1]
        BY <3>1, JoinStep
      <3> QED
        BY <3>1, <3>2, <3>3
    <2> QED
      BY <2>1
  <1>3. Nat \subseteq T
    <2> HIDE DEF T
    <2> QED
      BY <1>1, <1>2, Induction
  <1> QED
    BY <1>3

\* It does not matter where the parts are grouped.
LEMMA Regroup ==
  ASSUME NEW b \in Buffers, NEW c \in Buffers, NEW d \in Buffers
  PROVE  (b \o c) \o d = b \o (c \o d)
  BY ConcatAssociative DEF Buffers

\* To be cited for given parts, where there are many.
Assoc(b, c, d) == (b \o c) \o d = b \o (c \o d)

LEMMA AssocHolds ==
  ASSUME NEW b \in Buffers, NEW c \in Buffers, NEW d \in Buffers
  PROVE  Assoc(b, c, d)
  BY Regroup DEF Assoc

AssocTail(b, c, d, e) == (b \o (c \o d)) \o e = b \o (c \o (d \o e))

LEMMA AssocTailHolds ==
  ASSUME NEW b \in Buffers, NEW c \in Buffers, NEW d \in Buffers, NEW e \in Buffers
  PROVE  AssocTail(b, c, d, e)
  <1>1. c \o d \in Buffers
    BY SizeConcat
  <1>2. Assoc(b, c \o d, e)
    BY <1>1, AssocHolds
  <1>3. Assoc(c, d, e)
    BY AssocHolds
  <1> QED
    BY <1>2, <1>3, Zenon DEF Assoc, AssocTail

AssocAll(a, b, c, d, t, e) ==
    (a \o (b \o ((c \o d) \o t))) \o e = (a \o b) \o (c \o (d \o (t \o e)))

LEMMA AssocAllHolds ==
  ASSUME NEW a \in Buffers, NEW b \in Buffers, NEW c \in Buffers, NEW d \in Buffers,
         NEW t \in Buffers, NEW e \in Buffers
  PROVE  AssocAll(a, b, c, d, t, e)
  <1>1. c \o d \in Buffers /\ t \o e \in Buffers
    BY SizeConcat
  <1>2. (c \o d) \o t \in Buffers
    BY <1>1, SizeConcat
  <1>3. ((c \o d) \o t) \o e \in Buffers
    BY <1>2, SizeConcat
  <1>4. AssocTail(a, b, (c \o d) \o t, e)
    BY <1>2, AssocTailHolds
  <1>5. Assoc(a, b, ((c \o d) \o t) \o e)
    BY <1>3, AssocHolds
  <1>6. Assoc(c \o d, t, e)
    BY <1>1, AssocHolds
  <1>7. Assoc(c, d, t \o e)
    BY <1>1, AssocHolds
  <1> QED
    BY <1>4, <1>5, <1>6, <1>7, Zenon DEF Assoc, AssocTail, AssocAll

\* What comes before a part, the part, and what comes behind it.
LEMMA JoinSplits ==
  ASSUME NEW n \in Nat, NEW g \in [1..n -> Buffers], NEW u \in [0..n -> Buffers],
         Joins(u, g, n), NEW k \in 1..n
  PROVE  \E t \in Buffers : u[n] = u[k - 1] \o (g[k] \o t)
  <1> DEFINE Split(m) == \E t \in Buffers : u[m] = u[k - 1] \o (g[k] \o t)
             T == {m \in Nat : k <= m /\ m <= n => Split(m)}
  <1>0. g[k] \in Buffers /\ u[k - 1] \in Buffers
    OBVIOUS
  <1>1. 0 \in T
    OBVIOUS
  <1>2. ASSUME NEW m \in Nat, m \in T PROVE m + 1 \in T
    <2>1. ASSUME k <= m + 1, m + 1 <= n PROVE Split(m + 1)
      <3>1. u[m + 1] = u[m] \o g[m + 1]
        <4>1. m \in 0..n - 1
          BY <2>1
        <4> QED
          BY <4>1, JoinStep
      <3>2. g[m + 1] \in Buffers
        BY <2>1
      <3>3. CASE k = m + 1
        <4>1. g[k] = g[k] \o <<>> /\ <<>> \in Buffers
          BY <1>0, ConcatEmptySeq DEF Buffers
        <4>2. k - 1 = m
          BY <3>3
        <4>3. u[m + 1] = u[k - 1] \o (g[k] \o <<>>)
          BY <3>1, <3>3, <4>1, <4>2
        <4> QED
          BY <4>1, <4>3
      <3>4. CASE k <= m
        <4>0. Split(m)
          <5>1. m <= n
            BY <2>1
          <5> HIDE DEF Split
          <5> QED
            BY <1>2, <3>4, <5>1
        <4>1. PICK t \in Buffers : u[m] = u[k - 1] \o (g[k] \o t)
          BY <4>0
        <4>2. /\ (u[k - 1] \o (g[k] \o t)) \o g[m + 1] = u[k - 1] \o (g[k] \o (t \o g[m + 1]))
              /\ t \o g[m + 1] \in Buffers
          <5>1. AssocTail(u[k - 1], g[k], t, g[m + 1])
            BY <1>0, <3>2, AssocTailHolds
          <5>2. t \o g[m + 1] \in Buffers
            BY <3>2, SizeConcat
          <5> QED
            BY <5>1, <5>2 DEF AssocTail
        <4>3. u[m] \o g[m + 1] = u[k - 1] \o (g[k] \o (t \o g[m + 1]))
          BY <4>1, <4>2
        <4>4. u[m + 1] = u[k - 1] \o (g[k] \o (t \o g[m + 1]))
          BY <3>1, <4>3
        <4> QED
          BY <4>2, <4>4
      <3>5. k = m + 1 \/ k <= m
        BY <2>1
      <3> QED
        BY <3>3, <3>4, <3>5
    <2> HIDE DEF Split
    <2> QED
      BY <2>1
  <1>3. n \in T
    <2> HIDE DEF T
    <2> QED
      BY <1>1, <1>2, Induction
  <1> HIDE DEF Split
  <1>4. Split(n)
    BY <1>3
  <1> QED
    BY <1>4 DEF Split

-----------------------------------------------------------------------------
(***************************************************************************)
(* Recursion from the end of a sequence, as of a reader                    *)
(***************************************************************************)
\* f is the result of a recursion over 1..L + 1 that begins at the end.
Backwards(f, L, D, next, item, val) ==
    f = [p \in 1..L + 1 |-> IF p \in D THEN item[p] \o f[next[p]] ELSE val[p]]

\* There is such a result, when each step goes on behind itself.
LEMMA BackRecursion ==
  ASSUME NEW L \in Nat, NEW D \in SUBSET (1..L), NEW next, NEW item, NEW val,
         \A p \in D : next[p] \in p + 1..L + 1
  PROVE  \E f : Backwards(f, L, D, next, item, val)
  <1> DEFINE Step(p, f) == IF p \in D THEN item[p] \o f[next[p]] ELSE val[p]
             From(f, m) == /\ f = [p \in 1..L + 1 |-> f[p]]
                           /\ \A p \in 1..L + 1 : p > m => f[p] = Step(p, f)
             S == {n \in Nat : n <= L + 1 => \E f : From(f, L + 1 - n)}
  <1>1. 0 \in S
    <2> DEFINE z == [p \in 1..L + 1 |-> <<>>]
    <2>1. \A p \in 1..L + 1 : ~(p > L + 1)
      OBVIOUS
    <2>2. z = [p \in 1..L + 1 |-> z[p]]
      OBVIOUS
    <2>3. From(z, L + 1)
      <3> HIDE DEF z, Step
      <3> QED
        BY <2>1, <2>2
    <2>4. L + 1 - 0 = L + 1
      OBVIOUS
    <2> HIDE DEF From
    <2> QED
      BY <2>3, <2>4
  <1>2. ASSUME NEW n \in Nat, n \in S PROVE n + 1 \in S
    <2>1. ASSUME n + 1 <= L + 1 PROVE \E f : From(f, L + 1 - (n + 1))
      <3> DEFINE q == L + 1 - n
      <3>1. PICK f : From(f, q)
        BY <1>2, <2>1
      <3>2. q \in 1..L + 1 /\ L + 1 - (n + 1) = q - 1 /\ q \in Nat
        BY <2>1
      <3> HIDE DEF q
      <3> DEFINE h == [p \in 1..L + 1 |-> IF p = q THEN Step(q, f) ELSE f[p]]
      <3>3. ASSUME NEW p \in 1..L + 1, p > q - 1 PROVE h[p] = Step(p, h)
        <4>1. ASSUME p \in D PROVE h[next[p]] = f[next[p]]
          <5>1. next[p] \in 1..L + 1 /\ next[p] > q
            BY <3>2, <3>3, <4>1
          <5> QED
            BY <3>2, <5>1
        <4>2. CASE p = q
          <5>1. h[p] = Step(p, f)
            BY <4>2
          <5> QED
            BY <4>1, <5>1
        <4>3. CASE p > q
          <5>1. f[p] = Step(p, f)
            BY <3>1, <4>3
          <5>2. h[p] = f[p]
            BY <3>2, <4>3
          <5> QED
            BY <4>1, <5>1, <5>2
        <4> QED
          BY <3>2, <3>3, <4>2, <4>3
      <3>4. From(h, q - 1)
        BY <3>3
      <3> QED
        BY <3>2, <3>4
    <2> QED
      BY <2>1
  <1>3. L + 1 \in S
    <2> HIDE DEF S
    <2> QED
      BY <1>1, <1>2, Induction
  <1>4. PICK f : From(f, 0)
    <2>1. L + 1 - (L + 1) = 0
      OBVIOUS
    <2> QED
      BY <1>3, <2>1
  <1>5. \A p \in 1..L + 1 : f[p] = Step(p, f)
    <2>1. \A p \in 1..L + 1 : p > 0
      OBVIOUS
    <2> HIDE DEF Step
    <2> QED
      BY <1>4, <2>1
  <1>6. f = [p \in 1..L + 1 |-> f[p]]
    BY <1>4
  <1>7. f = [p \in 1..L + 1 |-> IF p \in D THEN item[p] \o f[next[p]] ELSE val[p]]
    BY <1>5, <1>6
  <1> QED
    BY <1>7 DEF Backwards


-----------------------------------------------------------------------------
(***************************************************************************)
(* A buffer put together of two, and what is found in it where             *)
(***************************************************************************)
LEMMA ConcatIs ==
  ASSUME NEW c \in Buffers, NEW d \in Buffers
  PROVE  /\ Len(c \o d) = Len(c) + Len(d) /\ Len(c) \in Nat /\ Len(d) \in Nat
         /\ \A k \in 1..Len(c) : (c \o d)[k] = c[k]
         /\ \A k \in 1..Len(d) : (c \o d)[Len(c) + k] = d[k]
         /\ c \o d \in Buffers
  BY DEF Buffers

\* A part is cut out of the middle, or with all that is behind it.
LEMMA Middle ==
  ASSUME NEW c \in Buffers, NEW d \in Buffers, NEW e \in Buffers
  PROVE  SubSeq(c \o (d \o e), Len(c) + 1, Len(c) + Len(d)) = d
  <1> DEFINE f == d \o e
             s == c \o f
             r == SubSeq(s, Len(c) + 1, Len(c) + Len(d))
  <1>1. /\ f \in Buffers /\ Len(f) = Len(d) + Len(e) /\ \A k \in 1..Len(d) : f[k] = d[k]
        /\ Len(c) \in Nat /\ Len(d) \in Nat /\ Len(e) \in Nat
    BY ConcatIs
  <1> HIDE DEF f
  <1>2. /\ s \in Buffers /\ Len(s) = Len(c) + Len(f)
        /\ \A k \in 1..Len(f) : s[Len(c) + k] = f[k]
    BY <1>1, ConcatIs
  <1>3. \A k \in 1..Len(d) : s[Len(c) + k] = d[k]
    BY <1>1, <1>2
  <1> HIDE DEF s
  <1>4. r \in Seq(Cells) /\ Len(r) = Len(d)
    BY <1>1, <1>2 DEF Buffers
  <1>5. \A k \in 1..Len(d) : r[k] = s[Len(c) + k]
    BY <1>1, <1>2 DEF Buffers
  <1>6. \A k \in 1..Len(d) : r[k] = d[k]
    BY <1>3, <1>5
  <1> HIDE DEF r
  <1>7. r = d
    BY <1>1, <1>4, <1>6, SeqEqual DEF Buffers
  <1> QED
    BY <1>7 DEF r, s, f

LEMMA Behind ==
  ASSUME NEW c \in Buffers, NEW d \in Buffers
  PROVE  SubSeq(c \o d, Len(c) + 1, Len(c \o d)) = d
  <1> DEFINE e == <<>>
  <1>1. e \in Buffers /\ d \o e = d /\ Len(c \o d) = Len(c) + Len(d)
    BY SizeEmpty, ConcatEmptySeq, ConcatIs DEF Buffers
  <1> HIDE DEF e
  <1>2. SubSeq(c \o (d \o e), Len(c) + 1, Len(c) + Len(d)) = d
    BY <1>1, Middle
  <1> QED
    BY <1>1, <1>2

\* To be cited for given parts, where there are many.
Lens(c, d) ==
    /\ Len(c \o d) = Len(c) + Len(d) /\ c \o d \in Buffers
    /\ Len(c) \in Nat /\ Len(d) \in Nat

AddSize(c, d) == size(c \o d) = size(c) + size(d)

Firsts(c, d) == \A k \in 1..Len(c) : (c \o d)[k] = c[k]

Lasts(c, d) == \A k \in 1..Len(d) : (c \o d)[Len(c) + k] = d[k]

EndsAre(c, d) == Ends(c \o d, size(c)) = {Len(c)}

RestIs(c, d) == SubSeq(c \o d, Len(c) + 1, Len(c \o d)) = d

LEMMA ConcatsHolds ==
  ASSUME NEW c \in Buffers, NEW d \in Buffers
  PROVE  /\ Lens(c, d) /\ AddSize(c, d) /\ Firsts(c, d) /\ Lasts(c, d)
         /\ EndsAre(c, d) /\ RestIs(c, d)
  <1>1. Lens(c, d)
    BY ConcatIs DEF Lens
  <1>2. AddSize(c, d)
    BY SizeConcat DEF AddSize
  <1>3. Firsts(c, d) /\ Lasts(c, d)
    BY ConcatIs DEF Firsts, Lasts
  <1>4. EndsAre(c, d)
    BY EndsOnce DEF EndsAre
  <1>5. RestIs(c, d)
    BY Behind DEF RestIs
  <1> QED
    BY <1>1, <1>2, <1>3, <1>4, <1>5


-----------------------------------------------------------------------------
(***************************************************************************)
(* Messages one after the other.  A client cuts them apart by their        *)
(* lengths alone, and reads what was meant.                                *)
(***************************************************************************)
\* c are the cells of message m: a tag, a length and a body of which a client
\* makes m.
Says(c, m) ==
    \E t \in Words, b \in Buffers :
        /\ c = (put_byte(t) \o put_numeric(4, size(b) + 4)) \o b
        /\ ReadMessage(t, b) = m

\* What begins at p is read as message m.
ReadsAs(s, p, m) ==
    /\ p \in 1..Len(s) /\ IsMessage(s, p)
    /\ ReadMessage(s[p].holds, SubSeq(s, p + 2, EndOf(s, p))) = m

\* And so are the cells g behind c, to their end.
ReadsBehind(c, g, e, m) ==
    LET s == c \o (g \o e)
        p == Len(c) + 1
    IN  ReadsAs(s, p, m) /\ EndOf(s, p) = Len(c) + Len(g)

\* A message is read where it begins, and the reader goes on where it ends.
LEMMA ReadsOne ==
  ASSUME NEW c \in Buffers, NEW g \in Buffers, NEW e \in Buffers, NEW m, Says(g, m)
  PROVE  ReadsBehind(c, g, e, m)
  <1> SUFFICES ASSUME NEW s, s = c \o (g \o e), NEW p, p = Len(c) + 1
               PROVE  ReadsAs(s, p, m) /\ EndOf(s, p) = Len(c) + Len(g)
    BY DEF ReadsBehind
  <1>1. PICK t \in Words, b \in Buffers :
            /\ g = (put_byte(t) \o put_numeric(4, size(b) + 4)) \o b
            /\ ReadMessage(t, b) = m
    BY DEF Says
  <1>n. size(b) \in Nat
    BY SizeType
  <1>2. PICK x \in Buffers : x = put_byte(t) /\ Len(x) = 1 /\ IsByte(x[1]) /\ x[1].holds = t
    BY PutTypes DEF put_byte, IsByte
  <1>3. PICK y \in Buffers : /\ y = put_numeric(4, size(b) + 4) /\ Len(y) = 1
                             /\ IsNum(y[1], 4) /\ y[1].holds = size(b) + 4 /\ size(y) = 4
    <2> DEFINE x2 == [form |-> "num", bytes |-> 4, holds |-> size(b) + 4]
    <2>1. x2 \in Cells
      BY <1>n DEF Cells, Held
    <2>2. <<x2>> \in Buffers /\ size(<<x2>>) = x2.bytes
      BY <2>1, SizeOne
    <2>3. /\ <<x2>> = put_numeric(4, size(b) + 4) /\ Len(<<x2>>) = 1 /\ <<x2>>[1] = x2
      BY DEF put_numeric
    <2>4. IsNum(x2, 4) /\ x2.holds = size(b) + 4 /\ x2.bytes = 4
      BY DEF IsNum
    <2> HIDE DEF x2
    <2> QED
      BY <2>2, <2>3, <2>4
  <1>l. Len(b) \in Nat /\ Len(c) \in Nat /\ Len(e) \in Nat
    BY DEF Buffers
  <1>a. PICK be \in Buffers : be = b \o e /\ Len(be) = Len(b) + Len(e)
    <2>1. Lens(b, e)
      BY ConcatsHolds
    <2> QED
      BY <2>1 DEF Lens
  <1>b. PICK xy \in Buffers : xy = x \o y /\ Len(xy) = 2
    <2>1. Lens(x, y)
      BY ConcatsHolds
    <2> QED
      <3>1. Len(x \o y) = 1 + 1 /\ x \o y \in Buffers
        BY <1>2, <1>3, <2>1 DEF Lens
      <3>2. Len(x \o y) = 2
        BY <3>1
      <3> QED
        BY <3>1, <3>2
  <1>c. PICK cx \in Buffers : cx = c \o x /\ Len(cx) = Len(c) + 1 /\ cx[p] = x[1]
    <2>1. Lens(c, x) /\ Lasts(c, x)
      BY ConcatsHolds
    <2>2. 1 \in 1..Len(x)
      BY <1>2
    <2>3. (c \o x)[Len(c) + 1] = x[1]
      BY <2>1, <2>2 DEF Lasts
    <2>4. Len(c \o x) = Len(c) + 1 /\ c \o x \in Buffers
      BY <1>2, <2>1 DEF Lens
    <2> QED
      BY <2>3, <2>4
  <1>d. PICK cxy \in Buffers : cxy = cx \o y /\ Len(cxy) = Len(c) + 2
    <2>1. Lens(cx, y)
      BY ConcatsHolds
    <2>2. Len(cx \o y) = Len(c) + 1 + 1 /\ cx \o y \in Buffers
      BY <1>3, <1>c, <2>1 DEF Lens
    <2>3. Len(c) + 1 + 1 = Len(c) + 2
      BY <1>l
    <2>4. Len(cx \o y) = Len(c) + 2
      BY <2>2, <2>3
    <2> QED
      BY <2>2, <2>4
  <1>e. PICK ybe \in Buffers : ybe = y \o be /\ Len(ybe) = 1 + Len(be) /\ ybe[1] = y[1]
    <2>1. Lens(y, be) /\ Firsts(y, be)
      BY ConcatsHolds
    <2>2. 1 \in 1..Len(y)
      BY <1>3
    <2>3. (y \o be)[1] = y[1]
      BY <2>1, <2>2 DEF Firsts
    <2>4. Len(y \o be) = 1 + Len(be) /\ y \o be \in Buffers
      BY <1>3, <2>1 DEF Lens
    <2> QED
      BY <2>3, <2>4
  <1>f. PICK yb \in Buffers : /\ yb = y \o b /\ Len(yb) = 1 + Len(b)
                              /\ size(yb) = size(b) + 4 /\ ybe = yb \o e
    <2>1. Lens(y, b) /\ AddSize(y, b)
      BY ConcatsHolds
    <2>2. Assoc(y, b, e)
      BY AssocHolds
    <2>a. size(y \o b) = 4 + size(b)
      BY <1>3, <2>1 DEF AddSize
    <2>b. y \o b \in Buffers /\ Len(y \o b) = 1 + Len(b)
      BY <1>3, <2>1 DEF Lens
    <2>c. size(y \o b) = size(b) + 4
      BY <1>n, <2>a
    <2>3. y \o b \in Buffers /\ size(y \o b) = size(b) + 4 /\ Len(y \o b) = 1 + Len(b)
      BY <2>b, <2>c
    <2>4. ybe = (y \o b) \o e
      BY <1>a, <1>e, <2>2 DEF Assoc
    <2> QED
      BY <2>3, <2>4
  <1>6. Len(g) = 2 + Len(b) /\ g = xy \o b
    <2>1. g = xy \o b
      BY <1>1, <1>2, <1>3, <1>b
    <2>2. Lens(xy, b)
      BY ConcatsHolds
    <2> QED
      BY <1>b, <2>1, <2>2 DEF Lens
  <1>7. g \o e = x \o ybe
    <2>1. Assoc(xy, b, e) /\ Assoc(x, y, be)
      BY AssocHolds
    <2>2. g \o e = xy \o be
      BY <1>6, <1>a, <2>1 DEF Assoc
    <2>3. xy \o be = x \o ybe
      BY <1>b, <1>e, <2>1 DEF Assoc
    <2> QED
      BY <2>2, <2>3
  <1>9. s = cx \o ybe /\ s = cxy \o be
    <2>1. Assoc(c, x, ybe) /\ Assoc(cx, y, be)
      BY AssocHolds
    <2>2. s = cx \o ybe
      BY <1>7, <1>c, <2>1 DEF Assoc
    <2>3. cx \o ybe = cxy \o be
      BY <1>d, <1>e, <2>1 DEF Assoc
    <2> QED
      BY <2>2, <2>3
  <1>10. /\ s \in Buffers /\ Len(s) = Len(c) + 2 + Len(b) + Len(e)
         /\ s[p] = x[1] /\ s[p + 1] = y[1]
    <2>0. Lens(cx, ybe) /\ Firsts(cx, ybe) /\ Lasts(cx, ybe)
      BY ConcatsHolds
    <2>1. /\ cx \o ybe \in Buffers /\ Len(cx \o ybe) = Len(cx) + Len(ybe)
          /\ \A k \in 1..Len(cx) : (cx \o ybe)[k] = cx[k]
          /\ \A k \in 1..Len(ybe) : (cx \o ybe)[Len(cx) + k] = ybe[k]
      BY <2>0 DEF Lens, Firsts, Lasts
    <2>2. p \in 1..Len(cx) /\ 1 \in 1..Len(ybe) /\ Len(cx) + 1 = p + 1
      BY <1>l, <1>a, <1>c, <1>e
    <2>3. s[p] = x[1] /\ s[p + 1] = y[1]
      BY <1>9, <1>c, <1>e, <2>1, <2>2
    <2>4. Len(s) = Len(c) + 2 + Len(b) + Len(e)
      BY <1>9, <1>l, <1>a, <1>c, <1>e, <2>1
    <2> QED
      BY <1>9, <2>1, <2>3, <2>4
  <1>11. EndsOf(s, p) = {p + (1 + Len(b))}
    <2>1. SubSeq(s, p + 1, Len(s)) = ybe
      <3>0. RestIs(cx, ybe)
        BY ConcatsHolds
      <3>1. SubSeq(cx \o ybe, Len(cx) + 1, Len(cx \o ybe)) = ybe
        BY <3>0 DEF RestIs
      <3>2. Len(cx) + 1 = p + 1
        BY <1>l, <1>c
      <3> QED
        BY <1>9, <3>1, <3>2
    <2>0. EndsAre(yb, e)
      BY ConcatsHolds
    <2>2. Ends(yb \o e, size(yb)) = {Len(yb)}
      BY <2>0 DEF EndsAre
    <2>3. Ends(SubSeq(s, p + 1, Len(s)), s[p + 1].holds) = {1 + Len(b)}
      BY <1>3, <1>10, <1>f, <2>1, <2>2
    <2>4. {1 + Len(b)} \ {0} = {1 + Len(b)}
      BY <1>l
    <2> QED
      BY <2>3, <2>4 DEF EndsOf
  <1>12. EndOf(s, p) = p + (1 + Len(b))
    BY <1>11 DEF EndOf
  <1>13. SubSeq(s, p + 2, p + (1 + Len(b))) = b
    <2>1. SubSeq(cxy \o (b \o e), Len(cxy) + 1, Len(cxy) + Len(b)) = b
      BY Middle
    <2>2. Len(cxy) + 1 = p + 2 /\ Len(cxy) + Len(b) = p + (1 + Len(b))
      BY <1>l, <1>d
    <2> QED
      BY <1>9, <1>a, <2>1, <2>2
  <1>14. p < Len(s) /\ p \in 1..Len(s)
    BY <1>l, <1>10
  <1>15. IsMessage(s, p)
    BY <1>2, <1>3, <1>10, <1>11, <1>14 DEF IsMessage
  <1>16. EndOf(s, p) = Len(c) + Len(g)
    BY <1>l, <1>6, <1>12
  <1> QED
    BY <1>1, <1>2, <1>10, <1>12, <1>13, <1>14, <1>15, <1>16 DEF ReadsAs

\* c is g[1] \o ... \o g[n].
Encoded(c, g, n) == \E u \in [0..n -> Buffers] : Joins(u, g, n) /\ c = u[n]

\* s is read as the messages ms, one after the other.
SaysAll(s, ms) ==
    \E g \in [1..Len(ms) -> Buffers] :
        /\ Encoded(s, g, Len(ms))
        /\ \A k \in 1..Len(ms) : Says(g[k], ms[k])

\* What Read makes of the stream from p on.
Makes(s, p, f) ==
    IF IsMessage(s, p)
    THEN <<ReadMessage(s[p].holds, SubSeq(s, p + 2, EndOf(s, p)))>> \o f[EndOf(s, p) + 1]
    ELSE <<Bad>>

\* A message ends behind its beginning and within the stream.
LEMMA EndOfType ==
  ASSUME NEW s \in Buffers, NEW p \in 1..Len(s), IsMessage(s, p)
  PROVE  EndOf(s, p) + 1 \in p + 1..Len(s) + 1
  <1> DEFINE rest == SubSeq(s, p + 1, Len(s))
  <1>1. Len(s) \in Nat /\ p \in Nat /\ p <= Len(s)
    BY DEF Buffers
  <1>2. Len(rest) = Len(s) - p
    BY <1>1 DEF Buffers
  <1>3. EndsOf(s, p) = {p + k : k \in Ends(rest, s[p + 1].holds) \ {0}}
    BY DEF EndsOf
  <1> HIDE DEF rest
  <1>4. EndOf(s, p) \in EndsOf(s, p)
    BY DEF IsMessage, EndOf
  <1>5. PICK k \in Ends(rest, s[p + 1].holds) \ {0} : EndOf(s, p) = p + k
    BY <1>3, <1>4
  <1>6. k \in 0..Len(s) - p /\ k # 0
    BY <1>2, <1>5 DEF Ends
  <1> QED
    BY <1>1, <1>5, <1>6

\* Read is such a reading, from the end of the stream to its beginning.
LEMMA ReadIs ==
  ASSUME NEW s \in Buffers
  PROVE  \E f : /\ Read(s) = f[1] /\ f[Len(s) + 1] = <<>>
                /\ \A p \in 1..Len(s) : f[p] = Makes(s, p, f)
  <1> DEFINE L == Len(s)
             D == {p \in 1..L : IsMessage(s, p)}
             next == [p \in D |-> EndOf(s, p) + 1]
             item == [p \in D |-> <<ReadMessage(s[p].holds, SubSeq(s, p + 2, EndOf(s, p)))>>]
             val == [p \in 1..L + 1 |-> IF p > L THEN <<>> ELSE <<Bad>>]
             Eq(f) == f = [p \in 1..L + 1 |->
                            IF p > L THEN <<>>
                            ELSE IF ~IsMessage(s, p) THEN <<Bad>>
                            ELSE <<ReadMessage(s[p].holds, SubSeq(s, p + 2, EndOf(s, p)))>>
                                   \o f[EndOf(s, p) + 1]]
             w == CHOOSE f : Eq(f)
  <1>1. L \in Nat
    BY DEF Buffers
  <1>2. Read(s) = w[1]
    BY DEF Read
  <1>3. \A p \in D : next[p] \in p + 1..L + 1
    BY EndOfType
  <1>4. PICK f : Backwards(f, L, D, next, item, val)
    <2>1. D \in SUBSET (1..L)
      OBVIOUS
    <2> HIDE DEF item, val, next, L, D, Eq, w
    <2> QED
      BY <1>1, <1>3, <2>1, BackRecursion
  <1>5. Eq(f)
    <2> DEFINE G(p) == IF p > L THEN <<>>
                       ELSE IF ~IsMessage(s, p) THEN <<Bad>>
                       ELSE <<ReadMessage(s[p].holds, SubSeq(s, p + 2, EndOf(s, p)))>>
                              \o f[EndOf(s, p) + 1]
    <2>1. ASSUME NEW p \in 1..L + 1
          PROVE  (IF p \in D THEN item[p] \o f[next[p]] ELSE val[p]) = G(p)
      <3>1. CASE p \in D
        BY <1>1, <3>1
      <3>2. CASE p \notin D
        <4>1. p > L \/ ~IsMessage(s, p)
          BY <1>1, <3>2
        <4>2. val[p] = G(p)
          BY <4>1
        <4> QED
          BY <3>2, <4>2
      <3> QED
        BY <3>1, <3>2
    <2> HIDE DEF G, D, item, next, val
    <2>2. f = [p \in 1..L + 1 |-> G(p)]
      BY <1>4, <2>1 DEF Backwards
    <2> QED
      BY <2>2 DEF G
  <1>6. Eq(w)
    <2> HIDE DEF Eq
    <2> QED
      BY <1>5
  <1>7. w[L + 1] = <<>>
    <2>1. L + 1 \in 1..L + 1 /\ L + 1 > L
      BY <1>1
    <2> HIDE DEF w
    <2> QED
      BY <1>6, <2>1
  <1>8. ASSUME NEW p \in 1..L PROVE w[p] = Makes(s, p, w)
    <2>1. p \in 1..L + 1 /\ ~(p > L)
      BY <1>1
    <2> HIDE DEF w
    <2>2. w[p] = IF ~IsMessage(s, p) THEN <<Bad>>
                 ELSE <<ReadMessage(s[p].holds, SubSeq(s, p + 2, EndOf(s, p)))>>
                        \o w[EndOf(s, p) + 1]
      BY <1>6, <2>1
    <2> QED
      BY <2>2 DEF Makes
  <1> QED
    BY <1>2, <1>7, <1>8

Joined(M, a, b) ==
    /\ a \o b \in Seq(M) /\ Len(a \o b) = Len(a) + Len(b)
    /\ \A j \in 1..Len(a) : (a \o b)[j] = a[j]
    /\ \A j \in 1..Len(b) : (a \o b)[Len(a) + j] = b[j]

LEMMA ConcatAny ==
  ASSUME NEW M, NEW a \in Seq(M), NEW b \in Seq(M)
  PROVE  Joined(M, a, b)
  BY DEF Joined

\* The first of a part of a sequence, and the rest of the part.
LEMMA SequenceParts ==
  ASSUME NEW M, NEW ms \in Seq(M), NEW k \in 1..Len(ms)
  PROVE  <<ms[k]>> \o SubSeq(ms, k + 1, Len(ms)) = SubSeq(ms, k, Len(ms))
  <1> DEFINE n == Len(ms)
             a == <<ms[k]>>
             b == SubSeq(ms, k + 1, n)
             c == SubSeq(ms, k, n)
  <1>1. n \in Nat /\ k \in Nat /\ ms[k] \in M
    OBVIOUS
  <1>2. /\ a \in Seq(M) /\ Len(a) = 1 /\ a[1] = ms[k]
        /\ b \in Seq(M) /\ Len(b) = n - k /\ \A j \in 1..n - k : b[j] = ms[k + j]
        /\ c \in Seq(M) /\ Len(c) = n - k + 1 /\ \A j \in 1..n - k + 1 : c[j] = ms[k + j - 1]
    OBVIOUS
  <1> HIDE DEF a, b, c
  <1>3. /\ a \o b \in Seq(M) /\ Len(a \o b) = n - k + 1
        /\ (a \o b)[1] = ms[k] /\ \A j \in 1..n - k : (a \o b)[1 + j] = b[j]
    <2>1. /\ a \o b \in Seq(M) /\ Len(a \o b) = Len(a) + Len(b)
          /\ \A j \in 1..Len(a) : (a \o b)[j] = a[j]
          /\ \A j \in 1..Len(b) : (a \o b)[Len(a) + j] = b[j]
      <3>1. Joined(M, a, b)
        BY <1>2, ConcatAny
      <3> QED
        BY <3>1 DEF Joined
    <2>2. 1 + (n - k) = n - k + 1 /\ 1 \in 1..1
      BY <1>1
    <2> HIDE DEF n
    <2> QED
      BY <1>2, <2>1, <2>2
  <1>4. ASSUME NEW j \in 1..n - k + 1 PROVE (a \o b)[j] = c[j]
    <2>1. CASE j = 1
      BY <1>1, <1>2, <1>3, <2>1
    <2>2. CASE j > 1
      <3>1. j - 1 \in 1..n - k /\ 1 + (j - 1) = j /\ k + (j - 1) = k + j - 1
        BY <1>1, <2>2
      <3>2. (a \o b)[1 + (j - 1)] = ms[k + (j - 1)]
        BY <1>2, <1>3, <3>1
      <3> QED
        BY <1>2, <3>1, <3>2
    <2>3. j = 1 \/ j > 1
      BY <1>1
    <2> QED
      BY <2>1, <2>2, <2>3
  <1>5. a \o b = c
    BY <1>1, <1>2, <1>3, <1>4, SeqEqual
  <1> QED
    BY <1>5 DEF a, b, c

\* A client that knows the lengths only reads from the stream the messages that
\* were put into it by encode, encode_writer and encode_bytes, each one and no
\* more, however many and however long they are.
THEOREM ReadAll ==
  ASSUME NEW s \in Buffers, NEW M, NEW ms \in Seq(M), SaysAll(s, ms)
  PROVE  Read(s) = ms
  <1> DEFINE n == Len(ms)
  <1>0. n \in Nat
    OBVIOUS
  <1>1. PICK g \in [1..n -> Buffers], u \in [0..n -> Buffers] :
            Joins(u, g, n) /\ s = u[n] /\ \A k \in 1..n : Says(g[k], ms[k])
    BY DEF SaysAll, Encoded
  <1>2. PICK f : /\ Read(s) = f[1] /\ f[Len(s) + 1] = <<>>
                 /\ \A p \in 1..Len(s) : f[p] = Makes(s, p, f)
    BY ReadIs
  <1> DEFINE Good(k) == f[Len(u[k]) + 1] = SubSeq(ms, k + 1, n)
             S == {j \in Nat : j <= n => Good(n - j)}
  <1>3. 0 \in S
    <2>1. SubSeq(ms, n + 1, n) = <<>>
      BY <1>0
    <2>2. n - 0 = n
      BY <1>0
    <2> HIDE DEF n
    <2> QED
      BY <1>1, <1>2, <2>1, <2>2
  <1>4. ASSUME NEW k \in 1..n, Good(k) PROVE Good(k - 1)
    <2>1. k - 1 \in 0..n - 1 /\ (k - 1) + 1 = k /\ k - 1 \in 0..n
      BY <1>0
    <2>2. PICK t \in Buffers : u[n] = u[k - 1] \o (g[k] \o t)
      <3> HIDE DEF n
      <3> QED
        BY <1>0, <1>1, JoinSplits
    <2>3. u[k] = u[k - 1] \o g[k]
      <3> HIDE DEF n
      <3>1. u[(k - 1) + 1] = u[k - 1] \o g[(k - 1) + 1]
        BY <1>0, <1>1, <2>1, JoinStep
      <3> QED
        BY <2>1, <3>1
    <2>4. u[k - 1] \in Buffers /\ g[k] \in Buffers /\ Says(g[k], ms[k])
      BY <1>1, <2>1
    <2>5. Len(u[k]) = Len(u[k - 1]) + Len(g[k])
      <3>1. Lens(u[k - 1], g[k])
        BY <2>4, ConcatsHolds
      <3> QED
        BY <2>3, <3>1 DEF Lens
    <2> DEFINE p == Len(u[k - 1]) + 1
    <2>6. ReadsAs(s, p, ms[k]) /\ EndOf(s, p) = Len(u[k - 1]) + Len(g[k])
      <3> HIDE DEF n, Good, S
      <3>1. s = u[k - 1] \o (g[k] \o t)
        BY <1>1, <2>2
      <3>2. ReadsBehind(u[k - 1], g[k], t, ms[k])
        BY <2>4, ReadsOne
      <3> QED
        BY <3>1, <3>2 DEF ReadsBehind
    <2>7. f[p] = <<ms[k]>> \o SubSeq(ms, k + 1, n)
      <3>1. f[p] = Makes(s, p, f)
        BY <1>2, <2>6 DEF ReadsAs
      <3>2. f[EndOf(s, p) + 1] = SubSeq(ms, k + 1, n)
        BY <1>4, <2>5, <2>6
      <3> HIDE DEF p
      <3> QED
        BY <2>6, <3>1, <3>2 DEF Makes, ReadsAs
    <2>8. <<ms[k]>> \o SubSeq(ms, k + 1, n) = SubSeq(ms, k, n)
      BY <1>0, SequenceParts
    <2> QED
      BY <2>1, <2>7, <2>8
  <1>5. ASSUME NEW j \in Nat, j \in S PROVE j + 1 \in S
    <2>1. ASSUME j + 1 <= n PROVE Good(n - (j + 1))
      <3>1. n - j \in 1..n /\ (n - j) - 1 = n - (j + 1)
        BY <1>0, <2>1
      <3>2. Good(n - j)
        BY <1>0, <1>5, <2>1
      <3> HIDE DEF Good, n
      <3>3. Good((n - j) - 1)
        BY <1>4, <3>1, <3>2
      <3> QED
        BY <3>1, <3>3
    <2> QED
      BY <2>1
  <1>6. n \in S
    <2> HIDE DEF S
    <2> QED
      BY <1>0, <1>3, <1>5, Induction
  <1>7. Good(0)
    <2>1. n - n = 0
      BY <1>0
    <2> HIDE DEF Good
    <2> QED
      BY <1>0, <1>6, <2>1
  <1>8. Len(u[0]) = 0
    BY <1>0, <1>1 DEF Joins
  <1>9. SubSeq(ms, 1, n) = ms
    OBVIOUS
  <1> QED
    BY <1>2, <1>7, <1>8, <1>9

\* Nothing says nothing, a message says itself, and what is said one after the
\* other is said together.
LEMMA SaysNone == SaysAll(<<>>, <<>>)
  <1> DEFINE g == [k \in 1..0 |-> <<>>]
  <1>1. g \in [1..0 -> Buffers]
    OBVIOUS
  <1> HIDE DEF g
  <1>2. PICK u \in [0..0 -> Buffers] : Joins(u, g, 0)
    BY <1>1, JoinExists
  <1>3. u[0] = <<>>
    BY <1>2 DEF Joins
  <1>4. Len(<<>>) = 0 /\ \A k \in 1..0 : Says(g[k], <<>>[k])
    OBVIOUS
  <1> QED
    BY <1>1, <1>2, <1>3, <1>4 DEF SaysAll, Encoded

LEMMA SaysOne ==
  ASSUME NEW c \in Buffers, NEW m, Says(c, m)
  PROVE  SaysAll(c, <<m>>)
  <1> DEFINE g == [k \in 1..1 |-> c]
  <1>1. g \in [1..1 -> Buffers] /\ g[1] = c
    OBVIOUS
  <1> HIDE DEF g
  <1>2. PICK u \in [0..1 -> Buffers] : Joins(u, g, 1)
    BY <1>1, JoinExists
  <1>3. u[0] = <<>> /\ u[1] = u[0] \o g[1]
    BY <1>2 DEF Joins
  <1>4. u[1] = c
    BY <1>1, <1>3 DEF Buffers
  <1>5. Len(<<m>>) = 1 /\ \A k \in 1..1 : Says(g[k], <<m>>[k])
    BY <1>1
  <1> HIDE DEF Says
  <1> QED
    BY <1>1, <1>2, <1>4, <1>5 DEF SaysAll, Encoded

LEMMA SaysConcat ==
  ASSUME NEW s, NEW t, NEW M, NEW a \in Seq(M), NEW b \in Seq(M),
         SaysAll(s, a), SaysAll(t, b)
  PROVE  SaysAll(s \o t, a \o b)
  <1> DEFINE n == Len(a)
             m == Len(b)
  <1>0. n \in Nat /\ m \in Nat
    OBVIOUS
  <1>1. PICK g \in [1..n -> Buffers], u \in [0..n -> Buffers] :
            Joins(u, g, n) /\ s = u[n] /\ \A k \in 1..n : Says(g[k], a[k])
    BY DEF SaysAll, Encoded
  <1>2. PICK h \in [1..m -> Buffers], v \in [0..m -> Buffers] :
            Joins(v, h, m) /\ t = v[m] /\ \A k \in 1..m : Says(h[k], b[k])
    BY DEF SaysAll, Encoded
  <1>3. /\ Len(a \o b) = n + m
        /\ \A k \in 1..n : (a \o b)[k] = a[k]
        /\ \A k \in 1..m : (a \o b)[n + k] = b[k]
    <2>1. Joined(M, a, b)
      BY ConcatAny
    <2> QED
      BY <2>1 DEF Joined
  <1> HIDE DEF n, m
  <1> DEFINE f == [k \in 1..n + m |-> IF k <= n THEN g[k] ELSE h[k - n]]
             w == [k \in 0..n + m |-> IF k <= n THEN u[k] ELSE u[n] \o v[k - n]]
  <1>4. \A k \in 1..n + m : k > n => k - n \in 1..m
    BY <1>0
  <1>5. f \in [1..n + m -> Buffers]
    <2>1. ASSUME NEW k \in 1..n + m PROVE (IF k <= n THEN g[k] ELSE h[k - n]) \in Buffers
      BY <1>0, <1>4
    <2> QED
      BY <2>1
  <1>6. w \in [0..n + m -> Buffers]
    <2>1. ASSUME NEW k \in 0..n + m
          PROVE  (IF k <= n THEN u[k] ELSE u[n] \o v[k - n]) \in Buffers
      <3>1. CASE k <= n
        BY <1>0, <3>1
      <3>2. CASE ~(k <= n)
        <4>1. u[n] \in Buffers /\ v[k - n] \in Buffers
          BY <1>0, <3>2
        <4>2. Lens(u[n], v[k - n])
          BY <4>1, ConcatsHolds
        <4> QED
          BY <3>2, <4>2 DEF Lens
      <3> QED
        BY <3>1, <3>2
    <2> QED
      BY <2>1
  <1>7. Joins(w, f, n + m)
    <2>1. w[0] = <<>>
      BY <1>0, <1>1 DEF Joins
    <2>2. ASSUME NEW k \in 1..n + m PROVE w[k] = w[k - 1] \o f[k]
      <3>0. k - 1 \in 0..n + m /\ k \in 0..n + m
        BY <1>0
      <3>1. CASE k <= n
        <4>1. k \in 1..n /\ k - 1 <= n
          BY <1>0, <3>1
        <4>2. u[k] = u[k - 1] \o g[k]
          BY <1>1, <4>1 DEF Joins
        <4> QED
          BY <3>0, <3>1, <4>1, <4>2
      <3>2. CASE k > n
        <4>1. k - n \in 1..m /\ (k - n) - 1 = k - 1 - n
          BY <1>0, <3>2
        <4>2. v[k - n] = v[k - 1 - n] \o h[k - n]
          BY <1>2, <4>1 DEF Joins
        <4>3. w[k] = u[n] \o v[k - n] /\ f[k] = h[k - n]
          BY <1>0, <3>0, <3>2
        <4>4. w[k - 1] = u[n] \o v[k - 1 - n]
          <5>1. CASE k - 1 > n
            BY <1>0, <3>0, <5>1
          <5>2. CASE k - 1 = n
            <6>1. v[k - 1 - n] = <<>> /\ u[n] \in Buffers
              BY <1>0, <1>2, <5>2 DEF Joins
            <6>2. u[n] \o <<>> = u[n]
              BY <6>1 DEF Buffers
            <6> QED
              BY <3>0, <5>2, <6>1, <6>2
          <5> QED
            BY <1>0, <3>2, <5>1, <5>2
        <4>5. Assoc(u[n], v[k - 1 - n], h[k - n])
          <5>1. u[n] \in Buffers /\ v[k - 1 - n] \in Buffers /\ h[k - n] \in Buffers
            BY <1>0, <3>2, <4>1
          <5> QED
            BY <5>1, AssocHolds
        <4> HIDE DEF w, f
        <4> QED
          BY <4>2, <4>3, <4>4, <4>5 DEF Assoc
      <3>3. k <= n \/ k > n
        BY <1>0
      <3> QED
        BY <3>1, <3>2, <3>3
    <2> HIDE DEF w, f
    <2> QED
      BY <2>1, <2>2 DEF Joins
  <1>8. s \o t = w[n + m]
    <2>1. CASE m = 0
      <3>1. t = <<>> /\ s \in Buffers /\ n + m = n
        BY <1>0, <1>1, <1>2, <2>1 DEF Joins
      <3>2. s \o t = s
        BY <3>1 DEF Buffers
      <3>3. w[n] = u[n]
        BY <1>0
      <3> HIDE DEF w
      <3> QED
        BY <1>1, <3>1, <3>2, <3>3
    <2>2. CASE m > 0
      <3>1. PICK j \in 0..n + m : j = n + m /\ ~(j <= n) /\ j - n = m
        BY <1>0, <2>2
      <3>2. w[j] = u[n] \o v[j - n]
        BY <3>1
      <3> HIDE DEF w
      <3> QED
        BY <1>1, <1>2, <3>1, <3>2
    <2>3. m = 0 \/ m > 0
      BY <1>0
    <2> HIDE DEF w
    <2> QED
      BY <2>1, <2>2, <2>3
  <1>9. ASSUME NEW k \in 1..n + m PROVE Says(f[k], (a \o b)[k])
    <2>1. CASE k <= n
      <3>1. k \in 1..n /\ f[k] = g[k]
        BY <1>0, <2>1
      <3> HIDE DEF f
      <3> QED
        BY <1>1, <1>3, <3>1
    <2>2. CASE k > n
      <3>1. k - n \in 1..m /\ f[k] = h[k - n] /\ n + (k - n) = k
        BY <1>0, <2>2
      <3> HIDE DEF f
      <3>2. (a \o b)[n + (k - n)] = b[k - n]
        BY <1>3, <3>1
      <3>3. Says(h[k - n], b[k - n])
        BY <1>2, <3>1
      <3> QED
        BY <3>1, <3>2, <3>3
    <2>3. k <= n \/ k > n
      BY <1>0
    <2> QED
      BY <2>1, <2>2, <2>3
  <1> HIDE DEF f, w
  <1>10. Encoded(s \o t, f, n + m)
    BY <1>6, <1>7, <1>8 DEF Encoded
  <1>11. \E c : c = a \o b /\ Len(c) = n + m /\ \A k \in 1..n + m : Says(f[k], c[k])
    BY <1>3, <1>9
  <1>12. ASSUME NEW c, Len(c) = n + m, \A k \in 1..n + m : Says(f[k], c[k])
         PROVE  SaysAll(s \o t, c)
    BY <1>5, <1>10, <1>12 DEF SaysAll
  <1> QED
    BY <1>11, <1>12

-----------------------------------------------------------------------------
\* Messages of which each is read as it was meant.
LEMMA SaysEach ==
  ASSUME NEW M, NEW ms \in Seq(M),
         \A k \in 1..Len(ms) : encode(ms[k]) \in Buffers /\ Says(encode(ms[k]), ms[k])
  PROVE  SaysAll(EncodeAll(ms, encode), ms)
  <1> DEFINE n == Len(ms)
             g == [k \in 1..n |-> encode(ms[k])]
             w == CHOOSE w : w = [k \in 0..n |-> IF k = 0 THEN <<>>
                                                  ELSE w[k - 1] \o encode(ms[k])]
  <1>0. n \in Nat
    OBVIOUS
  <1>1. g \in [1..n -> Buffers] /\ \A k \in 1..n : Says(g[k], ms[k])
    OBVIOUS
  <1>2. PICK u \in [0..n -> Buffers] : Joins(u, g, n)
    <2> HIDE DEF n, g
    <2> QED
      BY <1>0, <1>1, JoinExists
  <1>3. u = [k \in 0..n |-> IF k = 0 THEN <<>> ELSE u[k - 1] \o encode(ms[k])]
    BY <1>2 DEF Joins
  <1>4. w = [k \in 0..n |-> IF k = 0 THEN <<>> ELSE w[k - 1] \o encode(ms[k])]
    BY <1>3
  <1>5. EncodeAll(ms, encode) = w[n]
    BY DEF EncodeAll
  <1> HIDE DEF w
  <1>6. Joins(w, g, n)
    BY <1>0, <1>4 DEF Joins
  <1>7. w[n] = u[n]
    <2> HIDE DEF n, g
    <2> QED
      BY <1>0, <1>2, <1>6, JoinUnique
  <1>8. Encoded(w[n], g, n)
    <2> HIDE DEF n, g
    <2> QED
      BY <1>2, <1>7 DEF Encoded
  <1> HIDE DEF g
  <1> QED
    BY <1>1, <1>5, <1>8 DEF SaysAll

\* A body of which a client makes the message.
LEMMA SaysBody ==
  ASSUME NEW m, m.tag \in Words, Body(m) \in Buffers, ReadMessage(m.tag, Body(m)) = m
  PROVE  Says(encode(m), m) /\ encode(m) \in Buffers
  <1> DEFINE b == Body(m)
             x == put_byte(m.tag)
             y == put_numeric(4, size(b) + 4)
  <1>1. x \in Buffers /\ y \in Buffers
    BY SizeType, PutTypes
  <1>2. encode(m) = (x \o y) \o b
    BY DEF encode
  <1>3. Says(encode(m), m)
    BY <1>2 DEF Says
  <1> HIDE DEF b, x, y
  <1>4. x \o y \in Buffers
    BY <1>1, SizeConcat
  <1>5. (x \o y) \o b \in Buffers
    BY <1>4, SizeConcat DEF b
  <1> QED
    BY <1>2, <1>3, <1>5


-----------------------------------------------------------------------------
(***************************************************************************)
(* Each message on its own                                                 *)
(* The lengths and terminators of its encode method are those that the     *)
(* client's reader goes by.                                                *)
(***************************************************************************)
Status == [tag : {"S"}, name : Texts, value : Texts]
Failures == [tag : {"E"}, severity : {"ERROR"}, code : {"22000"}, message : Texts]
Completions == [tag : {"C"}, num_rows : Nat]

LEMMA SaysAuthentication ==
  Says(encode([tag |-> "R"]), [tag |-> "R"]) /\ encode([tag |-> "R"]) \in Buffers
  <1> DEFINE m == [tag |-> "R"]
  <1>1. Body(m) = put_numeric(4, 0)
    BY DEF Body
  <1>2. Body(m) \in Buffers
    BY <1>1, PutTypes
  <1>3. ReadMessage("R", Body(m)) = m
    BY <1>1 DEF ReadMessage, put_numeric, IsNum
  <1>4. m.tag = "R" /\ m.tag \in Words
    BY DEF Words
  <1> HIDE DEF m
  <1> QED
    BY <1>2, <1>3, <1>4, SaysBody DEF m

LEMMA SaysReady ==
  Says(encode([tag |-> "Z"]), [tag |-> "Z"]) /\ encode([tag |-> "Z"]) \in Buffers
  <1> DEFINE m == [tag |-> "Z"]
  <1>1. Body(m) = put_byte("I")
    BY DEF Body
  <1>2. Body(m) \in Buffers
    BY <1>1, PutTypes DEF Words
  <1>3. ReadMessage("Z", Body(m)) = m
    BY <1>1 DEF ReadMessage, put_byte, IsByte
  <1>4. m.tag = "Z" /\ m.tag \in Words
    BY DEF Words
  <1> HIDE DEF m
  <1> QED
    BY <1>2, <1>3, <1>4, SaysBody DEF m

LEMMA SaysStatus ==
  ASSUME NEW m \in Status
  PROVE  Says(encode(m), m) /\ encode(m) \in Buffers
  <1>0. /\ m.tag = "S" /\ m.tag \in Words /\ m.name \in Texts /\ m.value \in Texts
        /\ m = [tag |-> "S", name |-> m.name, value |-> m.value]
    BY DEF Status, Words
  <1>1. Body(m) = put_string(m.name) \o put_string(m.value)
    BY <1>0 DEF Body
  <1>2. Body(m) \in Buffers
    BY <1>0, <1>1, PutTypes, SizeConcat
  <1>3. ReadMessage("S", Body(m)) = [tag |-> "S", name |-> m.name, value |-> m.value]
    BY <1>1 DEF ReadMessage, put_string, put_text, IsText
  <1> QED
    BY <1>0, <1>2, <1>3, SaysBody

\* A count has finitely many digits.
LEMMA DigitsType == ASSUME NEW n \in Nat PROVE digits(n) \in Nat
  <1> DEFINE powers == {d \in 1..n : 10^d <= n}
  <1>1. IsFiniteSet(1..n)
    BY FS_Interval
  <1>2. powers \subseteq 1..n
    OBVIOUS
  <1>3. IsFiniteSet(powers)
    <2> HIDE DEF powers
    <2> QED
      BY <1>1, <1>2, FS_Subset
  <1>4. Cardinality(powers) \in Nat
    <2> HIDE DEF powers
    <2> QED
      BY <1>3, FS_CardinalityType
  <1>5. digits(n) = 1 + Cardinality(powers)
    BY DEF digits
  <1> HIDE DEF powers
  <1> QED
    BY <1>4, <1>5

LEMMA SaysCompletion ==
  ASSUME NEW m \in Completions
  PROVE  Says(encode(m), m) /\ encode(m) \in Buffers
  <1>0. /\ m.tag = "C" /\ m.tag \in Words /\ m.num_rows \in Nat
        /\ m = [tag |-> "C", num_rows |-> m.num_rows]
    BY DEF Completions, Words
  <1>1. Body(m) = put_text(m.num_rows, 7 + digits(m.num_rows))
    BY <1>0 DEF Body, CommandComplete
  <1>2. Body(m) \in Buffers
    <2>1. 7 + digits(m.num_rows) \in Nat /\ m.num_rows \in Held
      BY <1>0, DigitsType DEF Held
    <2> QED
      BY <1>1, <2>1, PutTypes
  <1>3. ReadMessage("C", Body(m)) = [tag |-> "C", num_rows |-> m.num_rows]
    BY <1>1 DEF ReadMessage, put_text, IsText
  <1> QED
    BY <1>0, <1>2, <1>3, SaysBody

\* The cells of c, and x.
Extended(c, x) ==
    /\ c \o <<x>> \in Buffers /\ Len(c \o <<x>>) = Len(c) + 1
    /\ (c \o <<x>>)[Len(c) + 1] = x
    /\ \A k \in 1..Len(c) : (c \o <<x>>)[k] = c[k]

LEMMA OneMore == ASSUME NEW c \in Buffers, NEW x \in Cells PROVE Extended(c, x)
  BY DEF Buffers, Extended

\* z has the n cells of g.
AreCells(z, g, n) == z \in Buffers /\ Len(z) = n /\ \A k \in 1..n : z[k] = g[k]

LEMMA NextCell ==
  ASSUME NEW n \in Nat, NEW g, NEW z, AreCells(z, g, n), g[n + 1] \in Cells
  PROVE  AreCells(z \o <<g[n + 1]>>, g, n + 1)
  <1>1. Extended(z, g[n + 1])
    BY OneMore DEF AreCells
  <1>2. PICK y : y = z \o <<g[n + 1]>>
    OBVIOUS
  <1>3. /\ y \in Buffers /\ Len(y) = n + 1 /\ y[n + 1] = g[n + 1]
        /\ \A k \in 1..n : y[k] = z[k]
    BY <1>1, <1>2 DEF AreCells, Extended
  <1>4. ASSUME NEW k \in 1..n + 1 PROVE y[k] = g[k]
    <2>1. k \in 1..n \/ k = n + 1
      OBVIOUS
    <2> QED
      BY <1>3, <2>1 DEF AreCells
  <1> QED
    BY <1>2, <1>3, <1>4 DEF AreCells

LEMMA Seven ==
  ASSUME NEW g \in [1..7 -> Cells], NEW z,
         z = <<g[1]>> \o <<g[2]>> \o <<g[3]>> \o <<g[4]>> \o <<g[5]>> \o <<g[6]>> \o <<g[7]>>
  PROVE  AreCells(z, g, 7)
  <1>0. /\ 0 + 1 = 1 /\ 1 + 1 = 2 /\ 2 + 1 = 3 /\ 3 + 1 = 4 /\ 4 + 1 = 5 /\ 5 + 1 = 6 /\ 6 + 1 = 7
        /\ \A k \in 1..7 : g[k] \in Cells
    OBVIOUS
  <1>1. PICK z1 : z1 = <<g[1]>> /\ AreCells(z1, g, 1)
    <2>1. <<g[1]>> \in Buffers /\ <<g[1]>>[1] = g[1] /\ Len(<<g[1]>>) = 1
      BY <1>0, OneCell
    <2>2. \A k \in 1..1 : k = 1
      OBVIOUS
    <2> QED
      BY <2>1, <2>2 DEF AreCells
  <1>2. PICK z2 : z2 = z1 \o <<g[2]>> /\ AreCells(z2, g, 2)
    <2>1. g[1 + 1] \in Cells /\ 1 \in Nat /\ 1 + 1 = 2
      BY <1>0
    <2>2. AreCells(z1 \o <<g[1 + 1]>>, g, 1 + 1)
      BY <1>1, <2>1, NextCell
    <2> QED
      BY <2>1, <2>2
  <1>3. PICK z3 : z3 = z2 \o <<g[3]>> /\ AreCells(z3, g, 3)
    <2>1. g[2 + 1] \in Cells /\ 2 \in Nat /\ 2 + 1 = 3
      BY <1>0
    <2>2. AreCells(z2 \o <<g[2 + 1]>>, g, 2 + 1)
      BY <1>2, <2>1, NextCell
    <2> QED
      BY <2>1, <2>2
  <1>4. PICK z4 : z4 = z3 \o <<g[4]>> /\ AreCells(z4, g, 4)
    <2>1. g[3 + 1] \in Cells /\ 3 \in Nat /\ 3 + 1 = 4
      BY <1>0
    <2>2. AreCells(z3 \o <<g[3 + 1]>>, g, 3 + 1)
      BY <1>3, <2>1, NextCell
    <2> QED
      BY <2>1, <2>2
  <1>5. PICK z5 : z5 = z4 \o <<g[5]>> /\ AreCells(z5, g, 5)
    <2>1. g[4 + 1] \in Cells /\ 4 \in Nat /\ 4 + 1 = 5
      BY <1>0
    <2>2. AreCells(z4 \o <<g[4 + 1]>>, g, 4 + 1)
      BY <1>4, <2>1, NextCell
    <2> QED
      BY <2>1, <2>2
  <1>6. PICK z6 : z6 = z5 \o <<g[6]>> /\ AreCells(z6, g, 6)
    <2>1. g[5 + 1] \in Cells /\ 5 \in Nat /\ 5 + 1 = 6
      BY <1>0
    <2>2. AreCells(z5 \o <<g[5 + 1]>>, g, 5 + 1)
      BY <1>5, <2>1, NextCell
    <2> QED
      BY <2>1, <2>2
  <1>7. PICK z7 : z7 = z6 \o <<g[7]>> /\ AreCells(z7, g, 7)
    <2>1. g[6 + 1] \in Cells /\ 6 \in Nat /\ 6 + 1 = 7
      BY <1>0
    <2>2. AreCells(z6 \o <<g[6 + 1]>>, g, 6 + 1)
      BY <1>6, <2>1, NextCell
    <2> QED
      BY <2>1, <2>2
  <1>8. z = z7
    BY <1>1, <1>2, <1>3, <1>4, <1>5, <1>6, <1>7, Zenon
  <1> QED
    BY <1>7, <1>8

Sevenfold(z, b1, b2, b3, b4, b5, b6, b7) ==
    /\ z \in Buffers /\ Len(z) = 7
    /\ z[1] = b1 /\ z[2] = b2 /\ z[3] = b3 /\ z[4] = b4 /\ z[5] = b5 /\ z[6] = b6 /\ z[7] = b7

LEMMA SevenCells ==
  ASSUME NEW b1 \in Cells, NEW b2 \in Cells, NEW b3 \in Cells, NEW b4 \in Cells,
         NEW b5 \in Cells, NEW b6 \in Cells, NEW b7 \in Cells
  PROVE  Sevenfold(<<b1>> \o <<b2>> \o <<b3>> \o <<b4>> \o <<b5>> \o <<b6>> \o <<b7>>,
                   b1, b2, b3, b4, b5, b6, b7)
  <1>1. PICK g \in [1..7 -> Cells] :
            /\ g[1] = b1 /\ g[2] = b2 /\ g[3] = b3 /\ g[4] = b4 /\ g[5] = b5 /\ g[6] = b6
            /\ g[7] = b7
    <2>1. <<b1, b2, b3, b4, b5, b6, b7>> \in Seq(Cells) /\ Len(<<b1, b2, b3, b4, b5, b6, b7>>) = 7
      OBVIOUS
    <2>2. <<b1, b2, b3, b4, b5, b6, b7>> \in [1..7 -> Cells]
      BY <2>1
    <2> WITNESS <<b1, b2, b3, b4, b5, b6, b7>> \in [1..7 -> Cells]
    <2> QED
      OBVIOUS
  <1>2. PICK z : z = <<b1>> \o <<b2>> \o <<b3>> \o <<b4>> \o <<b5>> \o <<b6>> \o <<b7>>
    OBVIOUS
  <1>3. z = <<g[1]>> \o <<g[2]>> \o <<g[3]>> \o <<g[4]>> \o <<g[5]>> \o <<g[6]>> \o <<g[7]>>
    BY <1>1, <1>2, Zenon
  <1>4. AreCells(z, g, 7)
    BY <1>3, Seven
  <1>5. Sevenfold(z, b1, b2, b3, b4, b5, b6, b7)
    BY <1>1, <1>4 DEF AreCells, Sevenfold
  <1> QED
    BY <1>2, <1>5, Zenon

Cell(form, bytes, holds) == [form |-> form, bytes |-> bytes, holds |-> holds]

\* The seven cells of an ErrorResponse.
LEMMA SaysFailure ==
  ASSUME NEW m \in Failures
  PROVE  Says(encode(m), m) /\ encode(m) \in Buffers
  <1>0. /\ m.tag = "E" /\ m.tag \in Words /\ m.severity = "ERROR" /\ m.code = "22000"
        /\ m.message \in Texts
        /\ m = [tag |-> "E", severity |-> m.severity, code |-> m.code, message |-> m.message]
    BY DEF Failures, Words
  <1> DEFINE b1 == Cell("byte", 1, "S")
             b2 == Cell("text", 6, m.severity)
             b3 == Cell("byte", 1, "C")
             b4 == Cell("text", 6, m.code)
             b5 == Cell("byte", 1, "M")
             b6 == Cell("text", TextLen[m.message] + 1, m.message)
             b7 == Cell("byte", 1, "NUL")
  <1>1. /\ b1 \in Cells /\ b2 \in Cells /\ b3 \in Cells /\ b4 \in Cells /\ b5 \in Cells
        /\ b6 \in Cells /\ b7 \in Cells
    <2>1. TextLen[m.message] \in Nat
      BY <1>0, BufferAssumption
    <2> QED
      BY <1>0, <2>1 DEF Cell, Cells, Held, Words
  <1>3. PICK z : z = Body(m)
    OBVIOUS
  <1>2. z = <<b1>> \o <<b2>> \o <<b3>> \o <<b4>> \o <<b5>> \o <<b6>> \o <<b7>>
    <2>1. 5 + 1 = 6
      OBVIOUS
    <2> QED
      BY <1>0, <1>3, <2>1, Zenon
         DEF Body, ErrorResponse, put_byte, put_code, put_string, put_text, Cell
  <1> HIDE DEF b1, b2, b3, b4, b5, b6, b7
  <1>4. /\ z \in Buffers /\ Len(z) = 7
        /\ z[1] = b1 /\ z[2] = b2 /\ z[3] = b3 /\ z[4] = b4 /\ z[5] = b5 /\ z[6] = b6
        /\ z[7] = b7
    <2>1. Sevenfold(z, b1, b2, b3, b4, b5, b6, b7)
      BY <1>1, <1>2, SevenCells
    <2> QED
      BY <2>1 DEF Sevenfold
  <1>5. /\ IsByte(z[1]) /\ IsByte(z[3]) /\ IsByte(z[5]) /\ IsByte(z[7])
        /\ IsText(z[2]) /\ IsText(z[4]) /\ IsText(z[6])
        /\ z[1].holds = "S" /\ z[3].holds = "C" /\ z[5].holds = "M" /\ z[7].holds = "NUL"
        /\ z[2].holds = m.severity /\ z[4].holds = m.code /\ z[6].holds = m.message
    BY <1>4 DEF b1, b2, b3, b4, b5, b6, b7, Cell, IsByte, IsText
  <1>6. /\ \A k \in {1, 3, 5, 7} : IsByte(z[k])
        /\ \A k \in {2, 4, 6} : IsText(z[k])
    BY <1>5
  <1>7. <<z[1].holds, z[3].holds, z[5].holds, z[7].holds>> = <<"S", "C", "M", "NUL">>
    BY <1>5
  <1>8. ReadError(z) = [tag |-> "E", severity |-> m.severity, code |-> m.code,
                        message |-> m.message]
    BY <1>4, <1>5, <1>6, <1>7 DEF ReadError
  <1>9. ReadMessage("E", z) = ReadError(z)
    BY DEF ReadMessage
  <1> QED
    BY <1>0, <1>3, <1>4, <1>8, <1>9, SaysBody

-----------------------------------------------------------------------------
FieldTypes == [name : Texts, oid : {g_typemap[t] : t \in DOMAIN g_typemap}]

\* Different types of g_typemap have different numbers in enum class Oid.
LEMMA OidUnique ==
  ASSUME NEW o \in {g_typemap[t] : t \in DOMAIN g_typemap}
  PROVE  /\ o \in DOMAIN Oid /\ Oid[o] \in Int /\ get_oid_size[o] \in Int
         /\ (CHOOSE x \in DOMAIN Oid : Oid[x] = Oid[o]) = o
  <1>1. o \in {"Float4", "Float8", "Int2", "Int4", "Int8", "Varchar", "Date", "Time", "Timestamp"}
    BY DEF g_typemap
  <1>2. DOMAIN Oid = {"Float4", "Float8", "Int2", "Int4", "Int8", "Varchar", "Date", "Time",
                      "Timestamp", "Char"}
    BY DEF Oid
  <1>3. Oid[o] \in Int /\ get_oid_size[o] \in Int
    BY <1>1 DEF Oid, get_oid_size
  <1>4. \A x \in DOMAIN Oid : Oid[x] = Oid[o] => x = o
    BY <1>1, <1>2 DEF Oid
  <1> QED
    BY <1>1, <1>2, <1>3, <1>4

\* What RowDescription says of a field.
FieldIs(c, f) ==
    /\ c \in Buffers /\ Len(c) = 7
    /\ IsText(c[1]) /\ c[1].holds = f.name
    /\ IsNum(c[2], 4) /\ IsNum(c[3], 2)
    /\ IsNum(c[4], 4) /\ c[4].holds = Oid[f.oid]
    /\ IsNum(c[5], 2) /\ IsNum(c[6], 4) /\ IsNum(c[7], 2)

LEMMA FieldCells == ASSUME NEW f \in FieldTypes PROVE FieldIs(EncodeField(f), f)
  <1> DEFINE b1 == Cell("text", TextLen[f.name] + 1, f.name)
             b2 == Cell("num", 4, 0)
             b3 == Cell("num", 2, 0)
             b4 == Cell("num", 4, Oid[f.oid])
             b5 == Cell("num", 2, get_oid_size[f.oid])
             b6 == Cell("num", 4, -1)
             b7 == Cell("num", 2, 0)
  <1>0. f.name \in Texts /\ f.oid \in {g_typemap[t] : t \in DOMAIN g_typemap}
    BY DEF FieldTypes
  <1>1. /\ b1 \in Cells /\ b2 \in Cells /\ b3 \in Cells /\ b4 \in Cells /\ b5 \in Cells
        /\ b6 \in Cells /\ b7 \in Cells
    <2>1. TextLen[f.name] \in Nat
      BY <1>0, BufferAssumption
    <2>2. Oid[f.oid] \in Int /\ get_oid_size[f.oid] \in Int
      BY <1>0, OidUnique
    <2> QED
      BY <1>0, <2>1, <2>2 DEF Cell, Cells, Held
  <1>2. PICK z : z = EncodeField(f)
    OBVIOUS
  <1>3. z = <<b1>> \o <<b2>> \o <<b3>> \o <<b4>> \o <<b5>> \o <<b6>> \o <<b7>>
    BY <1>2, Zenon DEF EncodeField, put_numeric, put_string, put_text, Cell
  <1> HIDE DEF b1, b2, b3, b4, b5, b6, b7
  <1>4. Sevenfold(z, b1, b2, b3, b4, b5, b6, b7)
    BY <1>1, <1>3, SevenCells
  <1>5. FieldIs(z, f)
    BY <1>4 DEF Sevenfold, FieldIs, b1, b2, b3, b4, b5, b6, b7, Cell, IsText, IsNum
  <1> QED
    BY <1>2, <1>5

\* Parts of seven cells each.
LEMMA SevenEach ==
  ASSUME NEW n \in Nat, NEW g \in [1..n -> Buffers], NEW c, Encoded(c, g, n),
         \A k \in 1..n : Len(g[k]) = 7
  PROVE  /\ c \in Buffers /\ Len(c) = 7 * n
         /\ \A k \in 1..n, j \in 1..7 : c[7 * k - 7 + j] = g[k][j]
  <1>1. PICK u \in [0..n -> Buffers] : Joins(u, g, n) /\ c = u[n]
    BY DEF Encoded
  <1> DEFINE S == {k \in Nat : k <= n => Len(u[k]) = 7 * k}
  <1>2. 0 \in S
    BY <1>1 DEF Joins
  <1>3. ASSUME NEW k \in Nat, k \in S PROVE k + 1 \in S
    <2>1. ASSUME k + 1 <= n PROVE Len(u[k + 1]) = 7 * (k + 1)
      <3>1. k \in 0..n - 1 /\ k + 1 \in 1..n /\ k \in 0..n /\ Len(u[k]) = 7 * k
        BY <1>3, <2>1
      <3>2. u[k + 1] = u[k] \o g[k + 1]
        BY <1>1, <3>1, JoinStep
      <3>3. Lens(u[k], g[k + 1])
        BY <3>1, ConcatsHolds
      <3>4. Len(u[k] \o g[k + 1]) = 7 * k + 7
        BY <3>1, <3>3 DEF Lens
      <3> QED
        BY <3>2, <3>4
    <2> QED
      BY <2>1
  <1>4. Nat \subseteq S
    <2> HIDE DEF S
    <2> QED
      BY <1>2, <1>3, Induction
  <1>5. \A k \in 0..n : Len(u[k]) = 7 * k
    BY <1>4
  <1>6. ASSUME NEW k \in 1..n, NEW j \in 1..7 PROVE c[7 * k - 7 + j] = g[k][j]
    <2>1. PICK t \in Buffers : u[n] = u[k - 1] \o (g[k] \o t)
      BY <1>1, JoinSplits
    <2>2. u[k - 1] \in Buffers /\ g[k] \in Buffers /\ Len(g[k]) = 7 /\ Len(u[k - 1]) = 7 * k - 7
      <3>1. k - 1 \in 0..n /\ 7 * (k - 1) = 7 * k - 7
        OBVIOUS
      <3> QED
        BY <1>5, <3>1
    <2>3. Firsts(g[k], t) /\ Lens(g[k], t)
      BY <2>2, ConcatsHolds
    <2>4. PICK r \in Buffers : r = g[k] \o t /\ r[j] = g[k][j] /\ j \in 1..Len(r)
      <3>1. (g[k] \o t)[j] = g[k][j]
        BY <2>2, <2>3 DEF Firsts
      <3>2. g[k] \o t \in Buffers /\ j \in 1..Len(g[k] \o t)
        BY <2>2, <2>3 DEF Lens
      <3> QED
        BY <3>1, <3>2
    <2>5. Lasts(u[k - 1], r)
      BY <2>2, ConcatsHolds
    <2>6. (u[k - 1] \o r)[Len(u[k - 1]) + j] = r[j]
      BY <2>4, <2>5 DEF Lasts
    <2> QED
      BY <1>1, <2>1, <2>2, <2>4, <2>6
  <1> QED
    BY <1>1, <1>5, <1>6

LEMMA FieldsEncoded ==
  ASSUME NEW fs \in Seq(FieldTypes)
  PROVE  \E g \in [1..Len(fs) -> Buffers] :
             /\ Encoded(EncodeAll(fs, EncodeField), g, Len(fs))
             /\ \A k \in 1..Len(fs) : FieldIs(g[k], fs[k])
  <1> DEFINE n == Len(fs)
             g == [k \in 1..n |-> EncodeField(fs[k])]
             w == CHOOSE w : w = [k \in 0..n |-> IF k = 0 THEN <<>>
                                                  ELSE w[k - 1] \o EncodeField(fs[k])]
  <1>0. n \in Nat /\ \A k \in 1..n : FieldIs(EncodeField(fs[k]), fs[k])
    BY FieldCells
  <1>1. g \in [1..n -> Buffers] /\ \A k \in 1..n : FieldIs(g[k], fs[k])
    BY <1>0 DEF FieldIs
  <1>2. PICK u \in [0..n -> Buffers] : Joins(u, g, n)
    <2> HIDE DEF n, g
    <2> QED
      BY <1>0, <1>1, JoinExists
  <1>3. u = [k \in 0..n |-> IF k = 0 THEN <<>> ELSE u[k - 1] \o EncodeField(fs[k])]
    BY <1>2 DEF Joins
  <1>4. w = [k \in 0..n |-> IF k = 0 THEN <<>> ELSE w[k - 1] \o EncodeField(fs[k])]
    BY <1>3
  <1>5. EncodeAll(fs, EncodeField) = w[n]
    BY DEF EncodeAll
  <1> HIDE DEF w
  <1>6. Joins(w, g, n)
    BY <1>0, <1>4 DEF Joins
  <1>7. w[n] = u[n]
    <2> HIDE DEF n, g
    <2> QED
      BY <1>0, <1>2, <1>6, JoinUnique
  <1>8. Encoded(w[n], g, n)
    <2> HIDE DEF n, g
    <2> QED
      BY <1>2, <1>7 DEF Encoded
  <1> HIDE DEF g
  <1> QED
    BY <1>1, <1>5, <1>8

\* A count of two bytes is what it was.
LEMMA NarrowKeeps == ASSUME NEW n \in Nat, n <= Int16Max PROVE int16(n) = n
  <1> DEFINE w == 2 * (Int16Max + 1)
             x == n + Int16Max + 1
  <1>1. Int16Max \in Nat
    BY BufferAssumption
  <1>2. x \in Nat /\ w \in Nat /\ w > 0 /\ x < w /\ x - (Int16Max + 1) = n
    BY <1>1
  <1>3. ASSUME NEW a \in Nat, NEW b \in Nat, a < b PROVE a % b = a
    BY <1>3
  <1>4. x % w = x
    <2> HIDE DEF x, w
    <2> QED
      BY <1>2, <1>3
  <1> QED
    BY <1>2, <1>4 DEF int16

\* A RowDescription is read as it was meant, if its columns can be counted.
LEMMA SaysDescription ==
  ASSUME NEW fs \in Seq(FieldTypes), Len(fs) <= Int16Max
  PROVE  LET m == [tag |-> "T", fields |-> fs] IN Says(encode(m), m) /\ encode(m) \in Buffers
  <1> DEFINE m == [tag |-> "T", fields |-> fs]
             n == Len(fs)
             x == put_numeric(2, n)
  <1>0. n \in Nat
    OBVIOUS
  <1>1. PICK c : c = EncodeAll(fs, EncodeField)
    OBVIOUS
  <1>2. PICK g \in [1..n -> Buffers] : Encoded(c, g, n) /\ \A k \in 1..n : FieldIs(g[k], fs[k])
    BY <1>1, FieldsEncoded
  <1>3. /\ c \in Buffers /\ Len(c) = 7 * n
        /\ \A k \in 1..n, j \in 1..7 : c[7 * k - 7 + j] = g[k][j]
    <2> HIDE DEF n
    <2>1. \A k \in 1..n : Len(g[k]) = 7
      BY <1>2 DEF FieldIs
    <2> QED
      BY <1>0, <1>2, <2>1, SevenEach
  <1>4. PICK b : b = x \o c
    OBVIOUS
  <1>5. Body(m) = b
    <2>1. int16(n) = n
      BY NarrowKeeps
    <2>2. m.tag = "T" /\ m.fields = fs
      OBVIOUS
    <2> HIDE DEF m
    <2> QED
      BY <1>1, <1>4, <2>1, <2>2 DEF Body, RowDescription
  <1>6. x \in Buffers /\ Len(x) = 1 /\ IsNum(x[1], 2) /\ x[1].holds = n
    <2>1. x \in Buffers
      BY PutTypes
    <2> QED
      BY <2>1 DEF put_numeric, IsNum
  <1> HIDE DEF n, x
  <1>7. /\ b \in Buffers /\ Len(b) = 1 + 7 * n /\ b[1] = x[1]
        /\ \A k \in 1..n, j \in 1..7 : b[1 + (7 * k - 7 + j)] = g[k][j]
    <2>1. Lens(x, c) /\ Firsts(x, c) /\ Lasts(x, c)
      BY <1>3, <1>6, ConcatsHolds
    <2>2. b \in Buffers /\ Len(b) = 1 + 7 * n
      BY <1>3, <1>4, <1>6, <2>1 DEF Lens
    <2>3. b[1] = x[1]
      <3>1. 1 \in 1..Len(x)
        BY <1>6
      <3> QED
        BY <1>4, <2>1, <3>1 DEF Firsts
    <2>4. ASSUME NEW k \in 1..n, NEW j \in 1..7 PROVE b[1 + (7 * k - 7 + j)] = g[k][j]
      <3>1. 7 * k - 7 + j \in 1..Len(c)
        BY <1>0, <1>3
      <3>2. (x \o c)[Len(x) + (7 * k - 7 + j)] = c[7 * k - 7 + j]
        BY <2>1, <3>1 DEF Lasts
      <3> QED
        BY <1>3, <1>4, <1>6, <3>2
    <2> QED
      BY <2>2, <2>3, <2>4
  <1>8. ASSUME NEW k \in 1..n
        PROVE  /\ IsField(b, 7 * k - 5)
               /\ b[7 * k - 5].holds = fs[k].name
               /\ b[7 * k - 2].holds = Oid[fs[k].oid]
    <2>1. /\ 1 + (7 * k - 7 + 1) = 7 * k - 5 /\ 1 + (7 * k - 7 + 4) = 7 * k - 2
          /\ \A j \in 1..6 : 1 + (7 * k - 7 + (j + 1)) = 7 * k - 5 + j /\ j + 1 \in 1..7
      BY <1>0
    <2>2. /\ b[7 * k - 5] = g[k][1] /\ b[7 * k - 2] = g[k][4]
          /\ \A j \in 1..6 : b[7 * k - 5 + j] = g[k][j + 1]
      <3>1. ASSUME NEW j \in 1..7 PROVE b[1 + (7 * k - 7 + j)] = g[k][j]
        BY <1>7
      <3>2. b[1 + (7 * k - 7 + 1)] = g[k][1] /\ b[1 + (7 * k - 7 + 4)] = g[k][4]
        BY <3>1
      <3>3. ASSUME NEW j \in 1..6 PROVE b[7 * k - 5 + j] = g[k][j + 1]
        <4>1. j + 1 \in 1..7 /\ 1 + (7 * k - 7 + (j + 1)) = 7 * k - 5 + j
          BY <2>1
        <4>2. b[1 + (7 * k - 7 + (j + 1))] = g[k][j + 1]
          BY <3>1, <4>1
        <4> QED
          BY <4>1, <4>2, Zenon
      <3>4. b[7 * k - 5] = g[k][1] /\ b[7 * k - 2] = g[k][4]
        BY <2>1, <3>2
      <3> QED
        BY <3>3, <3>4
    <2>3. FieldIs(g[k], fs[k])
      BY <1>2
    <2>4. IsText(b[7 * k - 5])
      BY <2>2, <2>3 DEF FieldIs
    <2>5. ASSUME NEW j \in 1..6
          PROVE  IsNum(b[7 * k - 5 + j], IF j \in {1, 3, 5} THEN 4 ELSE 2)
      <3>1. b[7 * k - 5 + j] = g[k][j + 1]
        BY <2>2
      <3>2. IsNum(g[k][j + 1], IF j \in {1, 3, 5} THEN 4 ELSE 2)
        BY <2>3 DEF FieldIs
      <3> QED
        BY <3>1, <3>2
    <2> QED
      BY <2>2, <2>3, <2>4, <2>5 DEF IsField, FieldIs
  <1>9. ReadFields(b) = m
    <2>1. b # <<>> /\ IsNum(b[1], 2) /\ b[1].holds = n
      <3>1. Len(b) # 0
        BY <1>0, <1>7
      <3> QED
        BY <1>6, <1>7, <3>1
    <2>2. \A k \in 1..n : fs[k] \in FieldTypes
      BY DEF n
    <2>3. ASSUME NEW k \in 1..n
          PROVE  [name |-> b[7 * k - 5].holds,
                  oid |-> CHOOSE o \in DOMAIN Oid : Oid[o] = b[7 * k - 2].holds] = fs[k]
      <3>1. fs[k].oid \in {g_typemap[t] : t \in DOMAIN g_typemap}
        BY <2>2 DEF FieldTypes
      <3>2. (CHOOSE o \in DOMAIN Oid : Oid[o] = b[7 * k - 2].holds) = fs[k].oid
        BY <1>8, <3>1, OidUnique
      <3>3. fs[k] = [name |-> fs[k].name, oid |-> fs[k].oid]
        BY <2>2 DEF FieldTypes
      <3> QED
        BY <1>8, <3>2, <3>3
    <2>4. [k \in 1..n |-> [name |-> b[7 * k - 5].holds,
                           oid |-> CHOOSE o \in DOMAIN Oid : Oid[o] = b[7 * k - 2].holds]] = fs
      <3>1. fs = [k \in 1..n |-> fs[k]]
        BY DEF n
      <3> HIDE DEF n, x
      <3> QED
        BY <2>3, <3>1
    <2>5. \A k \in 1..b[1].holds : IsField(b, 7 * k - 5)
      BY <1>8, <2>1
    <2> HIDE DEF m
    <2>6. ReadFields(b) = [tag |-> "T", fields |->
            [k \in 1..b[1].holds |-> [name |-> b[7 * k - 5].holds,
                           oid |-> CHOOSE o \in DOMAIN Oid : Oid[o] = b[7 * k - 2].holds]]]
      BY <1>7, <2>1, <2>5 DEF ReadFields
    <2> QED
      BY <2>1, <2>4, <2>6 DEF m
  <1>10. m.tag = "T" /\ m.tag \in Words
    BY DEF Words
  <1>11. ReadMessage("T", b) = ReadFields(b)
    BY DEF ReadMessage
  <1>12. Says(encode(m), m) /\ encode(m) \in Buffers
    <2> HIDE DEF m
    <2> QED
      BY <1>5, <1>7, <1>9, <1>10, <1>11, SaysBody
  <1> QED
    BY <1>12

-----------------------------------------------------------------------------
(***************************************************************************)
(* The values of a row                                                     *)
(***************************************************************************)
\* Numbers have a digit at least; only a text may be empty.
Proper(v) == v \in Values /\ (v = Null \/ v.size > 0 \/ v.method = "string")

\* What a row says of a value.
ValueIs(c, v) ==
    /\ c \in Buffers /\ IsNum(c[1], 4) /\ c[1].holds = v.size
    /\ \/ v.size \in {-1, 0} /\ Len(c) = 1
       \/ /\ v.size \notin {-1, 0} /\ Len(c) = 2
          /\ c[2].form = "bytes" /\ c[2].bytes = v.size /\ c[2].holds = v.method

LEMMA ValueTypes ==
  ASSUME NEW v \in Values, v # Null
  PROVE  /\ v.size \in Nat /\ v.method \in Words
         /\ v = [method |-> v.method, size |-> v.size]
  <1>1. v.method \in Methods /\ v.size \in Lengths /\ v = [method |-> v.method, size |-> v.size]
    BY DEF Values
  <1>2. \A t \in DOMAIN write_method : write_method[t] \in Words
    BY DEF write_method, Words
  <1>3. v.method \in Words
    BY <1>1, <1>2 DEF Methods
  <1> QED
    BY <1>1, <1>3, RowsAssumption

LEMMA ValueCells == ASSUME NEW v \in Values PROVE ValueIs(EncodeValue(v), v)
  <1>1. CASE v = Null
    <2>1. v.size = -1
      BY <1>1 DEF Null
    <2>2. EncodeValue(v) = put_numeric(4, -1) \o <<>>
      BY <1>1, <2>1 DEF EncodeValue, put_bytes
    <2>3. put_numeric(4, -1) \in Buffers
      BY PutTypes
    <2>4. EncodeValue(v) = put_numeric(4, -1)
      BY <2>2, <2>3 DEF Buffers
    <2> QED
      BY <2>1, <2>3, <2>4 DEF ValueIs, put_numeric, IsNum
  <1>2. CASE v # Null /\ v.size = 0
    <2>1. EncodeValue(v) = put_numeric(4, 0) \o <<>>
      BY <1>2 DEF EncodeValue, put_bytes
    <2>2. put_numeric(4, 0) \in Buffers
      BY PutTypes
    <2>3. EncodeValue(v) = put_numeric(4, 0)
      BY <2>1, <2>2 DEF Buffers
    <2> QED
      BY <1>2, <2>2, <2>3 DEF ValueIs, put_numeric, IsNum
  <1>3. CASE v # Null /\ v.size # 0
    <2>1. v.size \in Nat /\ v.method \in Words
      BY <1>3, ValueTypes
    <2> DEFINE b1 == Cell("num", 4, v.size)
               b2 == Cell("bytes", v.size, v.method)
    <2>2. EncodeValue(v) = <<b1>> \o <<b2>>
      BY <1>3 DEF EncodeValue, put_bytes, put_numeric, Cell
    <2>3. b1 \in Cells /\ b2 \in Cells
      BY <1>3, <2>1 DEF Cell, Cells, Held
    <2> HIDE DEF b1, b2
    <2>4. <<b1>> \in Buffers /\ <<b1>>[1] = b1 /\ Len(<<b1>>) = 1
      BY <2>3, OneCell
    <2>5. Extended(<<b1>>, b2)
      BY <2>3, <2>4, OneMore
    <2>6. PICK c \in Buffers : c = EncodeValue(v) /\ Len(c) = 2 /\ c[1] = b1 /\ c[2] = b2
      <3>1. /\ <<b1>> \o <<b2>> \in Buffers /\ Len(<<b1>> \o <<b2>>) = 1 + 1
            /\ (<<b1>> \o <<b2>>)[1 + 1] = b2
            /\ \A k \in 1..1 : (<<b1>> \o <<b2>>)[k] = <<b1>>[k]
        BY <2>4, <2>5 DEF Extended
      <3>2. 1 \in 1..1 /\ 1 + 1 = 2
        OBVIOUS
      <3> QED
        BY <2>2, <2>4, <3>1, <3>2
    <2>7. /\ b1.form = "num" /\ b1.bytes = 4 /\ b1.holds = v.size
          /\ b2.form = "bytes" /\ b2.bytes = v.size /\ b2.holds = v.method
      BY DEF b1, b2, Cell
    <2>8. v.size \notin {-1, 0}
      BY <1>3, <2>1
    <2>9. ValueIs(c, v)
      BY <2>6, <2>7, <2>8 DEF ValueIs, IsNum
    <2> QED
      BY <2>6, <2>9
  <1> QED
    BY <1>1, <1>2, <1>3

LEMMA ValuesEncoded ==
  ASSUME NEW vs \in Seq(Values)
  PROVE  \E g \in [1..Len(vs) -> Buffers] :
             /\ Encoded(EncodeAll(vs, EncodeValue), g, Len(vs))
             /\ \A k \in 1..Len(vs) : ValueIs(g[k], vs[k])
  <1> DEFINE n == Len(vs)
             g == [k \in 1..n |-> EncodeValue(vs[k])]
             w == CHOOSE w : w = [k \in 0..n |-> IF k = 0 THEN <<>>
                                                  ELSE w[k - 1] \o EncodeValue(vs[k])]
  <1>0. n \in Nat /\ \A k \in 1..n : ValueIs(EncodeValue(vs[k]), vs[k])
    BY ValueCells
  <1>1. g \in [1..n -> Buffers] /\ \A k \in 1..n : ValueIs(g[k], vs[k])
    BY <1>0 DEF ValueIs
  <1>2. PICK u \in [0..n -> Buffers] : Joins(u, g, n)
    <2> HIDE DEF n, g
    <2> QED
      BY <1>0, <1>1, JoinExists
  <1>3. u = [k \in 0..n |-> IF k = 0 THEN <<>> ELSE u[k - 1] \o EncodeValue(vs[k])]
    BY <1>2 DEF Joins
  <1>4. w = [k \in 0..n |-> IF k = 0 THEN <<>> ELSE w[k - 1] \o EncodeValue(vs[k])]
    BY <1>3
  <1>5. EncodeAll(vs, EncodeValue) = w[n]
    BY DEF EncodeAll
  <1> HIDE DEF w
  <1>6. Joins(w, g, n)
    BY <1>0, <1>4 DEF Joins
  <1>7. w[n] = u[n]
    <2> HIDE DEF n, g
    <2> QED
      BY <1>0, <1>2, <1>6, JoinUnique
  <1>8. Encoded(w[n], g, n)
    <2> HIDE DEF n, g
    <2> QED
      BY <1>2, <1>7 DEF Encoded
  <1> HIDE DEF g
  <1> QED
    BY <1>1, <1>5, <1>8

\* The cells g behind c are a value, and no more.
ValueBehind(c, g, e, v) ==
    LET s == c \o (g \o e)
        p == Len(c) + 1
    IN  /\ p \in 1..Len(s) /\ IsValue(s, p) /\ ValueAt(s, p) = v
        /\ (p + IF HasBytes(s, p) THEN 2 ELSE 1) = Len(c) + Len(g) + 1

\* A value is read where it begins: NULL and an empty text have one cell, the
\* others two.
LEMMA ValueOne ==
  ASSUME NEW c \in Buffers, NEW g \in Buffers, NEW e \in Buffers,
         NEW v, Proper(v), ValueIs(g, v)
  PROVE  ValueBehind(c, g, e, v)
  <1> SUFFICES ASSUME NEW s, s = c \o (g \o e), NEW p, p = Len(c) + 1
               PROVE  /\ p \in 1..Len(s) /\ IsValue(s, p) /\ ValueAt(s, p) = v
                      /\ (p + IF HasBytes(s, p) THEN 2 ELSE 1) = Len(c) + Len(g) + 1
    BY DEF ValueBehind
  <1>a. Len(g) \in {1, 2}
    BY DEF ValueIs
  <1>n. \A x \in {1, 2} : x \in Nat /\ x >= 1
    OBVIOUS
  <1>b. Len(g) \in Nat /\ Len(g) >= 1
    BY <1>a, <1>n, Zenon
  <1>0. Len(g) \in Nat /\ Len(c) \in Nat /\ Len(e) \in Nat
    BY <1>b DEF Buffers
  <1>1. PICK r \in Buffers : r = g \o e /\ Len(r) = Len(g) + Len(e) /\ \A k \in 1..Len(g) : r[k] = g[k]
    <2>1. Lens(g, e) /\ Firsts(g, e)
      BY ConcatsHolds
    <2> QED
      BY <2>1 DEF Lens, Firsts
  <1>2. Lens(c, r) /\ Lasts(c, r)
    BY ConcatsHolds
  <1>3. Len(s) = Len(c) + Len(g) + Len(e)
    <2>1. Len(s) = Len(c) + Len(r)
      BY <1>1, <1>2 DEF Lens
    <2> QED
      BY <1>0, <1>1, <2>1
  <1>4. ASSUME NEW k \in 1..Len(g) PROVE s[Len(c) + k] = g[k]
    <2>1. k \in 1..Len(r)
      BY <1>0, <1>1
    <2>2. (c \o r)[Len(c) + k] = r[k]
      BY <1>2, <2>1 DEF Lasts
    <2> QED
      BY <1>1, <2>2
  <1>5. s[p] = g[1] /\ p \in 1..Len(s) /\ IsNum(s[p], 4) /\ s[p].holds = v.size
    <2>1. 1 \in 1..Len(g)
      BY <1>b
    <2>2. s[Len(c) + 1] = g[1]
      BY <1>4, <2>1
    <2> QED
      BY <1>0, <1>3, <2>2 DEF ValueIs
  <1>6. CASE v.size \in {-1, 0}
    <2>1. ~HasBytes(s, p) /\ Len(g) = 1
      BY <1>5, <1>6 DEF HasBytes, ValueIs
    <2>2. ValueAt(s, p) = v
      <3>1. CASE v = Null
        BY <1>5, <3>1 DEF ValueAt, Null
      <3>2. CASE v # Null
        <4>1. v.size = 0 /\ v.method = "string" /\ v = [method |-> v.method, size |-> v.size]
          BY <1>6, <3>2, ValueTypes DEF Proper
        <4> QED
          BY <1>5, <4>1 DEF ValueAt
      <3> QED
        BY <3>1, <3>2
    <2>3. p + 1 = Len(c) + Len(g) + 1
      BY <1>0, <2>1
    <2> QED
      BY <1>5, <2>1, <2>2, <2>3 DEF IsValue
  <1>7. CASE v.size \notin {-1, 0}
    <2>1. Len(g) = 2 /\ g[2].form = "bytes" /\ g[2].bytes = v.size /\ g[2].holds = v.method
      BY <1>7 DEF ValueIs
    <2>2. s[p + 1] = g[2] /\ p < Len(s)
      <3>0. 2 \in 1..Len(g) /\ Len(c) + 2 = p + 1
        BY <1>0, <2>1
      <3>1. s[Len(c) + 2] = g[2] /\ Len(c) + 2 = p + 1
        BY <1>4, <3>0
      <3> QED
        BY <1>0, <1>3, <2>1, <3>1
    <2>3. v # Null
      BY <1>7 DEF Null
    <2>4. v = [method |-> v.method, size |-> v.size]
      BY <2>3, ValueTypes DEF Proper
    <2>5. HasBytes(s, p) /\ IsValue(s, p)
      BY <1>5, <1>7, <2>1, <2>2 DEF HasBytes, IsValue
    <2>6. ValueAt(s, p) = v
      <3>1. s[p].holds # -1 /\ s[p].holds # 0 /\ s[p + 1].holds = v.method
        BY <1>5, <1>7, <2>1, <2>2
      <3>2. ValueAt(s, p) = [method |-> s[p + 1].holds, size |-> s[p].holds]
        BY <3>1 DEF ValueAt
      <3> QED
        BY <1>5, <2>4, <3>1, <3>2
    <2>7. p + 2 = Len(c) + Len(g) + 1
      BY <1>0, <2>1
    <2> QED
      BY <1>5, <2>5, <2>6, <2>7
  <1> QED
    BY <1>6, <1>7

\* What ReadValues makes of the cells from p on.
ValuesFrom(b, p, f) ==
    IF IsValue(b, p)
    THEN <<ValueAt(b, p)>> \o f[p + IF HasBytes(b, p) THEN 2 ELSE 1]
    ELSE <<Bad>>

LEMMA ReadValuesIs ==
  ASSUME NEW b \in Buffers
  PROVE  \E f : /\ ReadValues(b) = f[1] /\ f[Len(b) + 1] = <<>>
                /\ \A p \in 1..Len(b) : f[p] = ValuesFrom(b, p, f)
  <1> DEFINE L == Len(b)
             D == {p \in 1..L : IsValue(b, p)}
             next == [p \in D |-> p + IF HasBytes(b, p) THEN 2 ELSE 1]
             item == [p \in D |-> <<ValueAt(b, p)>>]
             val == [p \in 1..L + 1 |-> IF p > L THEN <<>> ELSE <<Bad>>]
             Eq(f) == f = [p \in 1..L + 1 |->
                            IF p > L THEN <<>>
                            ELSE IF ~IsValue(b, p) THEN <<Bad>>
                            ELSE <<ValueAt(b, p)>> \o f[p + IF HasBytes(b, p) THEN 2 ELSE 1]]
             w == CHOOSE f : Eq(f)
  <1>1. L \in Nat
    BY DEF Buffers
  <1>2. ReadValues(b) = w[1]
    BY DEF ReadValues
  <1>3. \A p \in D : next[p] \in p + 1..L + 1
    BY <1>1 DEF IsValue
  <1>4. PICK f : Backwards(f, L, D, next, item, val)
    <2>1. D \in SUBSET (1..L)
      OBVIOUS
    <2> HIDE DEF item, val, next, L, D, Eq, w
    <2> QED
      BY <1>1, <1>3, <2>1, BackRecursion
  <1>5. Eq(f)
    <2> DEFINE G(p) == IF p > L THEN <<>>
                       ELSE IF ~IsValue(b, p) THEN <<Bad>>
                       ELSE <<ValueAt(b, p)>> \o f[p + IF HasBytes(b, p) THEN 2 ELSE 1]
    <2>1. ASSUME NEW p \in 1..L + 1
          PROVE  (IF p \in D THEN item[p] \o f[next[p]] ELSE val[p]) = G(p)
      <3>1. CASE p \in D
        BY <1>1, <3>1
      <3>2. CASE p \notin D
        <4>1. p > L \/ ~IsValue(b, p)
          BY <1>1, <3>2
        <4>2. val[p] = G(p)
          BY <4>1
        <4> QED
          BY <3>2, <4>2
      <3> QED
        BY <3>1, <3>2
    <2> HIDE DEF G, D, item, next, val
    <2>2. f = [p \in 1..L + 1 |-> G(p)]
      BY <1>4, <2>1 DEF Backwards
    <2> QED
      BY <2>2 DEF G
  <1>6. Eq(w)
    <2> HIDE DEF Eq
    <2> QED
      BY <1>5
  <1>7. w[L + 1] = <<>>
    <2>1. L + 1 \in 1..L + 1 /\ L + 1 > L
      BY <1>1
    <2> HIDE DEF w
    <2> QED
      BY <1>6, <2>1
  <1>8. ASSUME NEW p \in 1..L PROVE w[p] = ValuesFrom(b, p, w)
    <2>1. p \in 1..L + 1 /\ ~(p > L)
      BY <1>1
    <2> HIDE DEF w
    <2>2. w[p] = IF ~IsValue(b, p) THEN <<Bad>>
                 ELSE <<ValueAt(b, p)>> \o w[p + IF HasBytes(b, p) THEN 2 ELSE 1]
      BY <1>6, <2>1
    <2> QED
      BY <2>2 DEF ValuesFrom
  <1> QED
    BY <1>2, <1>7, <1>8

\* The values of a row are read as they were written, each by its own length.
LEMMA ReadValuesAll ==
  ASSUME NEW b \in Buffers, NEW vs \in Seq(Values), NEW g \in [1..Len(vs) -> Buffers],
         Encoded(b, g, Len(vs)),
         \A k \in 1..Len(vs) : Proper(vs[k]) /\ ValueIs(g[k], vs[k])
  PROVE  ReadValues(b) = vs
  <1> DEFINE n == Len(vs)
  <1>0. n \in Nat
    OBVIOUS
  <1>1. PICK u \in [0..n -> Buffers] : Joins(u, g, n) /\ b = u[n]
    BY DEF Encoded
  <1>2. PICK f : /\ ReadValues(b) = f[1] /\ f[Len(b) + 1] = <<>>
                 /\ \A p \in 1..Len(b) : f[p] = ValuesFrom(b, p, f)
    BY ReadValuesIs
  <1> DEFINE Good(k) == f[Len(u[k]) + 1] = SubSeq(vs, k + 1, n)
             S == {j \in Nat : j <= n => Good(n - j)}
  <1>3. 0 \in S
    <2>1. SubSeq(vs, n + 1, n) = <<>>
      BY <1>0
    <2>2. n - 0 = n
      BY <1>0
    <2> HIDE DEF n
    <2> QED
      BY <1>1, <1>2, <2>1, <2>2
  <1>4. ASSUME NEW k \in 1..n, Good(k) PROVE Good(k - 1)
    <2>1. k - 1 \in 0..n - 1 /\ (k - 1) + 1 = k /\ k - 1 \in 0..n
      BY <1>0
    <2>2. PICK t \in Buffers : u[n] = u[k - 1] \o (g[k] \o t)
      <3> HIDE DEF n
      <3> QED
        BY <1>0, <1>1, JoinSplits
    <2>3. u[k] = u[k - 1] \o g[k]
      <3> HIDE DEF n
      <3>1. u[(k - 1) + 1] = u[k - 1] \o g[(k - 1) + 1]
        BY <1>0, <1>1, <2>1, JoinStep
      <3> QED
        BY <2>1, <3>1
    <2>4. u[k - 1] \in Buffers /\ g[k] \in Buffers
      BY <1>1, <2>1
    <2>5. Len(u[k]) = Len(u[k - 1]) + Len(g[k])
      <3>1. Lens(u[k - 1], g[k])
        BY <2>4, ConcatsHolds
      <3> QED
        BY <2>3, <3>1 DEF Lens
    <2> DEFINE p == Len(u[k - 1]) + 1
    <2>6. /\ p \in 1..Len(b) /\ IsValue(b, p) /\ ValueAt(b, p) = vs[k]
          /\ (p + IF HasBytes(b, p) THEN 2 ELSE 1) = Len(u[k - 1]) + Len(g[k]) + 1
      <3> HIDE DEF n, Good, S
      <3>1. b = u[k - 1] \o (g[k] \o t)
        BY <1>1, <2>2
      <3>2. ValueBehind(u[k - 1], g[k], t, vs[k])
        <4>1. Proper(vs[k]) /\ ValueIs(g[k], vs[k])
          BY DEF n
        <4> QED
          BY <2>4, <4>1, ValueOne
      <3> QED
        BY <3>1, <3>2 DEF ValueBehind
    <2>7. f[p] = <<vs[k]>> \o SubSeq(vs, k + 1, n)
      <3>1. f[p] = ValuesFrom(b, p, f)
        BY <1>2, <2>6
      <3>2. f[p + IF HasBytes(b, p) THEN 2 ELSE 1] = SubSeq(vs, k + 1, n)
        <4> HIDE DEF p
        <4> QED
          BY <1>4, <2>5, <2>6
      <3> HIDE DEF p
      <3> QED
        BY <2>6, <3>1, <3>2 DEF ValuesFrom
    <2>8. <<vs[k]>> \o SubSeq(vs, k + 1, n) = SubSeq(vs, k, n)
      BY <1>0, SequenceParts
    <2> QED
      BY <2>1, <2>7, <2>8
  <1>5. ASSUME NEW j \in Nat, j \in S PROVE j + 1 \in S
    <2>1. ASSUME j + 1 <= n PROVE Good(n - (j + 1))
      <3>1. n - j \in 1..n /\ (n - j) - 1 = n - (j + 1)
        BY <1>0, <2>1
      <3>2. Good(n - j)
        BY <1>0, <1>5, <2>1
      <3> HIDE DEF Good, n
      <3>3. Good((n - j) - 1)
        BY <1>4, <3>1, <3>2
      <3> QED
        BY <3>1, <3>3
    <2> QED
      BY <2>1
  <1>6. n \in S
    <2> HIDE DEF S
    <2> QED
      BY <1>0, <1>3, <1>5, Induction
  <1>7. Good(0)
    <2>1. n - n = 0
      BY <1>0
    <2> HIDE DEF Good
    <2> QED
      BY <1>0, <1>6, <2>1
  <1>8. Len(u[0]) = 0
    BY <1>0, <1>1 DEF Joins
  <1>9. SubSeq(vs, 1, n) = vs
    OBVIOUS
  <1> QED
    BY <1>2, <1>7, <1>8, <1>9

ProperRows == Seq({v \in Values : Proper(v)})

\* The message that a client should read of such a row.
OneRow(cells) == [tag |-> "D", values |-> cells]

\* A DataRow is read as the values that were fetched for it: its length, which
\* RowWriter fixes in its destructor, is that of all it is made of.
LEMMA SaysRow ==
  ASSUME NEW cells \in ProperRows, Len(cells) <= Int16Max
  PROVE  /\ Says(EncodeRow(DataRow(cells, Len(cells))), OneRow(cells))
         /\ EncodeRow(DataRow(cells, Len(cells))) \in Buffers
  <1> DEFINE n == Len(cells)
             r == DataRow(cells, n)
             x == put_byte("D")
             l == put_numeric(4, r.length)
             y == put_numeric(2, n)
  <1>0. n \in Nat /\ cells \in Seq(Values) /\ \A k \in 1..n : Proper(cells[k])
    BY DEF ProperRows
  <1>1. PICK c : c = EncodeAll(cells, EncodeValue)
    OBVIOUS
  <1>2. PICK g \in [1..n -> Buffers] :
            Encoded(c, g, n) /\ \A k \in 1..n : ValueIs(g[k], cells[k])
    BY <1>0, <1>1, ValuesEncoded
  <1>3. c \in Buffers
    BY <1>0, <1>2 DEF Encoded
  <1>4. ReadValues(c) = cells
    BY <1>0, <1>2, <1>3, ReadValuesAll
  <1>5. r.length = size(c) + 6 /\ r.cols = n /\ r.cells = cells
    <2>1. int16(n) = n
      BY <1>0, NarrowKeeps
    <2> QED
      BY <1>1, <2>1 DEF DataRow, row_size
  <1>6. /\ y \in Buffers /\ Len(y) = 1 /\ y[1] = [form |-> "num", bytes |-> 2, holds |-> n]
        /\ size(y) = 2
    <2> DEFINE z == [form |-> "num", bytes |-> 2, holds |-> n]
    <2>1. z \in Cells
      BY <1>0 DEF Cells, Held
    <2>2. <<z>> \in Buffers /\ size(<<z>>) = z.bytes /\ z.bytes = 2
      BY <2>1, SizeOne
    <2>3. y = <<z>> /\ Len(<<z>>) = 1 /\ <<z>>[1] = z
      BY DEF put_numeric
    <2> HIDE DEF z, y
    <2>4. y \in Buffers /\ Len(y) = 1 /\ y[1] = z /\ size(y) = 2
      BY <2>2, <2>3
    <2> QED
      BY <2>4 DEF z
  <1>7. size(c) \in Nat
    BY <1>3, SizeType
  <1>8. x \in Buffers /\ l \in Buffers
    BY <1>5, <1>7, PutTypes DEF Words
  <1>9. EncodeRow(r) = ((x \o l) \o y) \o c
    BY <1>1, <1>5 DEF EncodeRow
  <1>10. PICK b \in Buffers : b = y \o c /\ size(b) = 2 + size(c) /\ Len(b) = 1 + Len(c)
                              /\ b[1] = y[1] /\ Tail(b) = c
    <2>1. Lens(y, c) /\ Firsts(y, c) /\ RestIs(y, c) /\ AddSize(y, c)
      BY <1>3, <1>6, ConcatsHolds
    <2> HIDE DEF y
    <2>2. y \o c \in Buffers /\ Len(y \o c) = 1 + Len(c)
      BY <1>6, <2>1 DEF Lens
    <2>3. (y \o c)[1] = y[1]
      <3>1. 1 \in 1..Len(y)
        BY <1>6
      <3> QED
        BY <2>1, <3>1 DEF Firsts
    <2>4. size(y \o c) = 2 + size(c)
      BY <1>6, <2>1 DEF AddSize
    <2>5. Tail(y \o c) = c
      <3>1. SubSeq(y \o c, 1 + 1, Len(y \o c)) = c
        BY <1>6, <2>1 DEF RestIs
      <3>2. PICK d \in Buffers : d = y \o c
        BY <2>2
      <3>3. Len(d) # 0
        BY <1>3, <2>2, <3>2 DEF Buffers
      <3>4. Tail(d) = SubSeq(d, 2, Len(d))
        BY <3>3 DEF Buffers
      <3> QED
        BY <3>1, <3>2, <3>4
    <2> QED
      BY <2>2, <2>3, <2>4, <2>5
  <1> HIDE DEF x, y, n
  <1>11. l = put_numeric(4, size(b) + 4)
    <2>1. r.length = size(b) + 4
      BY <1>5, <1>7, <1>10
    <2> HIDE DEF r
    <2> QED
      BY <2>1
  <1> HIDE DEF l, r
  <1>12. EncodeRow(r) = (x \o l) \o b
    <2>1. x \o l \in Buffers
      BY <1>8, SizeConcat
    <2>2. Assoc(x \o l, y, c)
      BY <1>3, <1>6, <2>1, AssocHolds
    <2> QED
      BY <1>9, <1>10, <2>2 DEF Assoc
  <1>13. ReadRow(b) = OneRow(cells)
    <2>1. b # <<>> /\ IsNum(b[1], 2) /\ b[1].holds = Len(cells)
      <3>1. Len(b) # 0
        BY <1>3, <1>10 DEF Buffers
      <3> QED
        BY <1>6, <1>10, <3>1 DEF IsNum, n
    <2> QED
      BY <1>4, <1>10, <2>1 DEF ReadRow, OneRow
  <1>14. ReadMessage("D", b) = ReadRow(b)
    BY DEF ReadMessage
  <1>15. Says(EncodeRow(r), OneRow(cells))
    <2>1. "D" \in Words
      BY DEF Words
    <2>2. EncodeRow(r) = (put_byte("D") \o put_numeric(4, size(b) + 4)) \o b
      BY <1>11, <1>12 DEF x
    <2> HIDE DEF r
    <2> QED
      BY <1>13, <1>14, <2>1, <2>2 DEF Says
  <1>16. EncodeRow(r) \in Buffers
    <2>1. x \o l \in Buffers
      BY <1>8, SizeConcat
    <2>2. (x \o l) \o b \in Buffers
      BY <2>1, SizeConcat
    <2> QED
      BY <1>12, <2>2
  <1> QED
    BY <1>15, <1>16 DEF r, n

\* The rows that Writer has are read as the rows that were fetched.
LEMMA SaysRows ==
  ASSUME NEW rs, NEW cs \in Seq(ProperRows), Len(rs) = Len(cs),
         \A k \in 1..Len(cs) : rs[k] = DataRow(cs[k], Len(cs[k])) /\ Len(cs[k]) <= Int16Max
  PROVE  SaysAll(EncodeAll(rs, EncodeRow), [k \in 1..Len(cs) |-> OneRow(cs[k])])
  <1> DEFINE n == Len(cs)
             ms == [k \in 1..n |-> OneRow(cs[k])]
             g == [k \in 1..n |-> EncodeRow(rs[k])]
             w == CHOOSE w : w = [k \in 0..n |-> IF k = 0 THEN <<>>
                                                  ELSE w[k - 1] \o EncodeRow(rs[k])]
  <1>0. n \in Nat
    OBVIOUS
  <1>a. \A k \in 1..n : Says(EncodeRow(rs[k]), OneRow(cs[k])) /\ EncodeRow(rs[k]) \in Buffers
    <2> SUFFICES ASSUME NEW k \in 1..n
                 PROVE  Says(EncodeRow(rs[k]), OneRow(cs[k])) /\ EncodeRow(rs[k]) \in Buffers
      OBVIOUS
    <2>1. cs[k] \in ProperRows /\ Len(cs[k]) <= Int16Max /\ rs[k] = DataRow(cs[k], Len(cs[k]))
      OBVIOUS
    <2> QED
      BY <2>1, SaysRow
  <1>1. g \in [1..n -> Buffers] /\ \A k \in 1..n : Says(g[k], ms[k])
    BY <1>a
  <1>2. PICK u \in [0..n -> Buffers] : Joins(u, g, n)
    <2> HIDE DEF n, g
    <2> QED
      BY <1>0, <1>1, JoinExists
  <1>3. u = [k \in 0..n |-> IF k = 0 THEN <<>> ELSE u[k - 1] \o EncodeRow(rs[k])]
    BY <1>2 DEF Joins
  <1>4. w = [k \in 0..n |-> IF k = 0 THEN <<>> ELSE w[k - 1] \o EncodeRow(rs[k])]
    BY <1>3
  <1>5. EncodeAll(rs, EncodeRow) = w[n]
    <2>1. Len(rs) = n
      OBVIOUS
    <2> HIDE DEF n
    <2> QED
      BY <2>1 DEF EncodeAll
  <1> HIDE DEF w
  <1>6. Joins(w, g, n)
    <2>1. ASSUME NEW k \in 1..n PROVE w[k] = w[k - 1] \o g[k]
      <3>1. k \in 0..n /\ k # 0 /\ g[k] = EncodeRow(rs[k])
        BY <1>0
      <3> HIDE DEF n, g
      <3> QED
        BY <1>4, <3>1
    <2>2. w[0] = <<>>
      <3>1. 0 \in 0..n
        BY <1>0
      <3> HIDE DEF n
      <3> QED
        BY <1>4, <3>1
    <2> HIDE DEF n, g
    <2> QED
      BY <2>1, <2>2 DEF Joins
  <1>7. w[n] = u[n]
    <2> HIDE DEF n, g
    <2> QED
      BY <1>0, <1>2, <1>6, JoinUnique
  <1>8. Encoded(w[n], g, n)
    <2> HIDE DEF n, g
    <2> QED
      BY <1>2, <1>7 DEF Encoded
  <1>9. Len(ms) = n
    BY <1>0
  <1>10. SaysAll(w[n], ms)
    <2> HIDE DEF g, ms, n
    <2> QED
      BY <1>1, <1>8, <1>9 DEF SaysAll
  <1> QED
    BY <1>5, <1>10
=============================================================================
