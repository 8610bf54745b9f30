--------------------------- MODULE ExchangeProofs ---------------------------
(***************************************************************************)
(* Theorems about one connection at the level of its bytes: for any        *)
(* parameters, texts and lengths of a request, any column types, any       *)
(* number of columns and rows, and any number of requests.                 *)
(*                                                                         *)
(* ConnectionInv is the inductive invariant, in four parts.                *)
(* RequestInv says how far the request is decoded: where pos and start     *)
(* stand among the texts of the packet, and what the parameters before     *)
(* them have put into the message.                                         *)
(* ExchangeInv is about the rows.  Fields and values are collected by two  *)
(* loops, and only the columns with an Oid get a place in either.  It      *)
(* names the column g[k] behind the k-th field: g grows, and leaves out no *)
(* column with an Oid.  When the second loop has i columns behind it, the  *)
(* values it has written are those of the k with g[k] <= i, so that the    *)
(* next one it writes stands where the field of its own column does.       *)
(* FetchInv relates the writer's rows to the values that DuckDB gave.      *)
(* AnswerInv says that the bytes written are messages, and which: it needs *)
(* the first to know what is answered, the second for the count of columns *)
(* and the third for the rows.                                             *)
(***************************************************************************)
EXTENDS Exchange, MessagesProofs

-----------------------------------------------------------------------------
(***************************************************************************)
(* The request: what the client put into it, and where it lies             *)
(***************************************************************************)
Param == [name : Names, value : ParamTexts]

ParamCells(params) == [k \in 1..Len(params) |-> put_param(params[k])]

\* u[n] is what the first n parameters of a start-up packet are put as.
ParamsPut(u, params) ==
    /\ u \in [0..Len(params) -> Buffers]
    /\ Joins(u, ParamCells(params), Len(params))
    /\ put_params(params) = u[Len(params)]

LEMMA TextTypes ==
  /\ \A p \in Param : p.name \in Texts /\ p.value \in Texts /\ p.name # NoText /\ p.name # NoKey
  /\ Queries \subseteq Texts /\ NoText \in Texts /\ NoKey \notin Texts
  BY RequestsAssumption DEF Param, NoKey, NoText

LEMMA ParamsType ==
  ASSUME NEW params \in Params
  PROVE  /\ params \in Seq(Param) /\ DOMAIN params = 1..Len(params) /\ Len(params) \in Nat
         /\ \A k \in 1..Len(params) : params[k] \in Param
  <1>0. PICK n \in 0..MaxParams : params \in [1..n -> [name : Names, value : ParamTexts]]
    BY Zenon DEF Params
  <1>a. MaxParams \in Nat
    BY RequestsAssumption
  <1>1. n \in Nat /\ params \in [1..n -> Param]
    BY <1>0, <1>a DEF Param
  <1>2. params \in Seq(Param)
    BY <1>1
  <1>3. Len(params) = n /\ DOMAIN params = 1..n
    BY <1>1, <1>2
  <1> QED
    BY <1>1, <1>2, <1>3

LEMMA ParamCell ==
  ASSUME NEW p \in Param
  PROVE  /\ put_string(p.name) \in Buffers /\ put_string(p.value) \in Buffers
         /\ put_param(p) = put_string(p.name) \o put_string(p.value)
         /\ put_param(p) \in Buffers
  BY TextTypes, PutTypes, SizeConcat DEF put_param

LEMMA ParamsEncoded ==
  ASSUME NEW params \in Params
  PROVE  \E u : ParamsPut(u, params)
  <1> DEFINE n == Len(params)
             g == ParamCells(params)
             w == CHOOSE w : w = [k \in 0..n |-> IF k = 0 THEN <<>>
                                                  ELSE w[k - 1] \o put_param(params[k])]
  <1>1. n \in Nat /\ g \in [1..n -> Buffers]
    BY ParamsType, ParamCell DEF ParamCells
  <1>2. PICK u \in [0..n -> Buffers] : Joins(u, g, n)
    <2> HIDE DEF n, g
    <2> QED
      BY <1>1, JoinExists
  <1>3. u = [k \in 0..n |-> IF k = 0 THEN <<>> ELSE u[k - 1] \o put_param(params[k])]
    BY <1>2 DEF Joins, ParamCells
  <1>4. w = [k \in 0..n |-> IF k = 0 THEN <<>> ELSE w[k - 1] \o put_param(params[k])]
    BY <1>3
  <1>5. put_params(params) = w[n]
    BY DEF put_params, EncodeAll
  <1> HIDE DEF w
  <1>6. Joins(w, g, n)
    BY <1>1, <1>4 DEF Joins, ParamCells
  <1>7. w[n] = u[n]
    <2> HIDE DEF n, g
    <2> QED
      BY <1>1, <1>2, <1>6, JoinUnique
  <1> QED
    BY <1>2, <1>5, <1>7 DEF ParamsPut

-----------------------------------------------------------------------------
Version == put_version(3, 0)

LEMMA VersionIs == Version \in Buffers /\ size(Version) = 4
  <1>1. put_numeric(2, 3) \in Buffers /\ put_numeric(2, 0) \in Buffers
    BY PutTypes
  <1>2. size(put_numeric(2, 3)) = 2 /\ size(put_numeric(2, 0)) = 2
    BY SizeOne DEF put_numeric, Cells, Held
  <1> QED
    BY <1>1, <1>2, SizeConcat DEF Version, put_version

LEMMA StringIs ==
  ASSUME NEW s \in Texts
  PROVE  /\ put_string(s) \in Buffers /\ size(put_string(s)) = TextLen[s] + 1
         /\ TextLen[s] \in Nat
         /\ \A d \in Buffers : put_string(s) \o d # <<>>
                               /\ (put_string(s) \o d)[1] = put_string(s)[1]
         /\ put_string(s) # <<>>
         /\ put_string(s)[1].bytes = TextLen[s] + 1 /\ put_string(s)[1].holds = s
  <1> DEFINE x == [form |-> "text", bytes |-> TextLen[s] + 1, holds |-> s]
  <1>1. x \in Cells /\ put_string(s) = <<x>> /\ TextLen[s] \in Nat
    BY BufferAssumption DEF Cells, Held, put_string, put_text
  <1>2. x.bytes = TextLen[s] + 1 /\ x.holds = s
    OBVIOUS
  <1> HIDE DEF x
  <1>3. size(<<x>>) = TextLen[s] + 1 /\ <<x>> \in Buffers
    BY <1>1, <1>2, SizeOne
  <1>4. \A d \in Buffers : <<x>> \o d # <<>> /\ (<<x>> \o d)[1] = x
    BY <1>1, <1>3 DEF Buffers
  <1> QED
    BY <1>1, <1>2, <1>3, <1>4

\* The text s is found that many bytes behind the version.
TextAt(b, at, s) ==
    /\ 4 + at < size(b)
    /\ At(b, 4 + at).holds = s /\ At(b, 4 + at).bytes = TextLen[s] + 1

\* A text is found where it was put.
LEMMA ReadText ==
  ASSUME NEW c \in Buffers, NEW d \in Buffers, NEW s \in Texts
  PROVE  TextAt((Version \o c) \o (put_string(s) \o d), size(c), s)
  <1> DEFINE v == Version \o c
             e == put_string(s) \o d
  <1>1. v \in Buffers /\ e \in Buffers /\ size(v) = 4 + size(c) /\ size(v) \in Nat
    BY VersionIs, StringIs, SizeConcat, SizeType
  <1>2. e # <<>> /\ e[1] = put_string(s)[1]
    BY StringIs
  <1> HIDE DEF v, e
  <1>3. At(v \o e, size(v)) = e[1]
    BY <1>1, <1>2, Cut
  <1>4. size(v \o e) = size(v) + size(e) /\ size(e) > 0 /\ size(e) \in Nat
    BY <1>1, <1>2, SizeConcat, SizePositive, SizeType
  <1>5. size(v) < size(v \o e)
    BY <1>1, <1>4
  <1>6. At(v \o e, 4 + size(c)) = put_string(s)[1] /\ 4 + size(c) < size(v \o e)
    BY <1>1, <1>2, <1>3, <1>5
  <1> QED
    BY <1>6, StringIs DEF TextAt, v, e

\* Where the texts of a start-up packet are.
TextsLie(b, u, params) ==
    /\ size(u[0]) = 0
    /\ \A n \in 0..Len(params) : size(u[n]) \in Nat
    /\ \A n \in 1..Len(params) :
           LET name == params[n].name
               value == params[n].value
           IN  /\ TextAt(b, size(u[n - 1]), name)
               /\ TextAt(b, size(u[n - 1]) + (TextLen[name] + 1), value)
               /\ size(u[n]) = (size(u[n - 1]) + (TextLen[name] + 1)) + (TextLen[value] + 1)
    /\ TextAt(b, size(u[Len(params)]), NoText)
    /\ size(b) = 4 + size(u[Len(params)]) + (TextLen[NoText] + 1)

\* The texts of a start-up packet lie one behind the other: n parameters, then
\* a name, then its value, and behind all of them the empty name.
LEMMA StartupTexts ==
  ASSUME NEW r, r.kind = "Startup", r.params \in Params, NEW u, ParamsPut(u, r.params)
  PROVE  PacketBody(r) \in Buffers /\ TextsLie(PacketBody(r), u, r.params)
  <1> DEFINE params == r.params
             N == Len(params)
             b == PacketBody(r)
             g == ParamCells(params)
             e == put_string(NoText)
  <1>1. /\ N \in Nat /\ g \in [1..N -> Buffers] /\ u \in [0..N -> Buffers]
        /\ \A n \in 1..N : g[n] = put_param(params[n]) /\ params[n] \in Param
        /\ Joins(u, g, N)
    BY ParamsType, ParamCell DEF ParamCells, ParamsPut
  <1>2. b = (Version \o u[N]) \o e
    <2>1. b = (Version \o put_params(params)) \o e
      BY DEF PacketBody, Version
    <2>2. put_params(params) = u[N]
      BY DEF ParamsPut
    <2> QED
      BY <2>1, <2>2
  <1>3. e \in Buffers /\ size(e) = TextLen[NoText] + 1 /\ TextLen[NoText] \in Nat
    BY StringIs, TextTypes
  <1>4. \A n \in 0..N : u[n] \in Buffers /\ size(u[n]) \in Nat
    BY <1>1, SizeType
  <1>a. N \in 0..N
    BY <1>1
  <1>5. size(u[0]) = 0
    BY <1>1, SizeEmpty DEF Joins
  <1>6. b \in Buffers /\ size(b) = 4 + size(u[N]) + (TextLen[NoText] + 1)
    <2> DEFINE c == u[N]
    <2>1. c \in Buffers /\ size(c) \in Nat
      BY <1>4, <1>a
    <2> HIDE DEF c, e
    <2>2. Version \o c \in Buffers /\ size(Version \o c) = 4 + size(c)
      BY <2>1, VersionIs, SizeConcat
    <2>3. (Version \o c) \o e \in Buffers /\ size((Version \o c) \o e) = 4 + size(c) + size(e)
      BY <1>3, <2>2, SizeConcat
    <2> QED
      BY <1>2, <1>3, <2>3 DEF c
  <1>7. TextAt(b, size(u[N]), NoText)
    <2> DEFINE c == u[N]
    <2>1. c \in Buffers
      BY <1>4, <1>a
    <2>2. <<>> \in Buffers /\ e \o <<>> = e
      BY <1>3, SizeEmpty, ConcatEmptySeq DEF Buffers
    <2>3. NoText \in Texts
      BY TextTypes
    <2> HIDE DEF c
    <2>4. TextAt((Version \o c) \o (put_string(NoText) \o <<>>), size(c), NoText)
      BY <2>1, <2>2, <2>3, ReadText
    <2> QED
      BY <1>2, <2>2, <2>4 DEF c
  <1>8. ASSUME NEW n \in 1..N
        PROVE  LET name == params[n].name
                   value == params[n].value
               IN  /\ TextAt(b, size(u[n - 1]), name)
                   /\ TextAt(b, size(u[n - 1]) + (TextLen[name] + 1), value)
                   /\ size(u[n]) = (size(u[n - 1]) + (TextLen[name] + 1)) + (TextLen[value] + 1)
    <2> DEFINE c == u[n - 1]
               name == put_string(params[n].name)
               value == put_string(params[n].value)
    <2>1. PICK t \in Buffers : u[N] = c \o (g[n] \o t)
      <3> HIDE DEF g, N
      <3> QED
        BY <1>1, JoinSplits
    <2>2. /\ g[n] = name \o value /\ name \in Buffers /\ value \in Buffers /\ c \in Buffers
          /\ params[n].name \in Texts /\ params[n].value \in Texts
      <3>1. n - 1 \in 0..N
        BY <1>1
      <3> QED
        BY <1>1, <1>4, <3>1, ParamCell, TextTypes
    <2>3. u[n] = c \o (name \o value)
      <3>1. u[n] = c \o g[n]
        BY <1>1 DEF Joins
      <3> QED
        BY <2>2, <3>1
    <2>4. /\ size(name) = TextLen[params[n].name] + 1 /\ size(value) = TextLen[params[n].value] + 1
          /\ size(name) \in Nat /\ size(value) \in Nat /\ size(c) \in Nat
      BY <2>2, StringIs, SizeType
    <2>a. name \o value \in Buffers /\ c \o name \in Buffers
      BY <2>2, SizeConcat
    <2>5. size(u[n]) = (size(c) + size(name)) + size(value)
      <3> HIDE DEF c, name, value
      <3>1. size(c \o (name \o value)) = size(c) + size(name \o value)
        BY <2>2, <2>a, SizeConcat
      <3>2. size(name \o value) = size(name) + size(value)
        BY <2>2, SizeConcat
      <3> QED
        BY <2>3, <2>4, <3>1, <3>2
    \* Behind the name.
    <2> DEFINE d == value \o (t \o e)
    <2>6. d \in Buffers /\ t \o e \in Buffers
      BY <1>3, <2>1, <2>2, SizeConcat
    <2>7. b = (Version \o c) \o (name \o d)
      <3> HIDE DEF c, name, value, e, d
      <3>1. u[N] = c \o ((name \o value) \o t)
        BY <2>1, <2>2
      <3>2. AssocAll(Version, c, name, value, t, e)
        BY <1>3, <2>1, <2>2, VersionIs, AssocAllHolds
      <3> QED
        BY <1>2, <3>1, <3>2, Zenon DEF AssocAll, d
    <2>8. TextAt(b, size(c), params[n].name)
      <3> HIDE DEF c, d, b
      <3> QED
        BY <2>2, <2>6, <2>7, ReadText
    <2>9. b = (Version \o (c \o name)) \o (value \o (t \o e))
      <3> HIDE DEF c, name, d, b
      <3> DEFINE vc == Version \o c
      <3>0. vc \in Buffers
        BY <2>2, VersionIs, SizeConcat
      <3> HIDE DEF vc
      <3>1. vc \o (name \o d) = (vc \o name) \o d
        BY <2>2, <2>6, <3>0, Regroup
      <3>2. (Version \o c) \o name = Version \o (c \o name)
        BY <2>2, VersionIs, Regroup
      <3> QED
        BY <2>7, <3>1, <3>2 DEF d, vc
    <2>10. size(c \o name) = size(c) + (TextLen[params[n].name] + 1)
      <3> HIDE DEF c, name
      <3> QED
        BY <2>2, <2>4, SizeConcat
    <2>11. TextAt(b, size(c \o name), params[n].value)
      <3> HIDE DEF c, name, b, e
      <3> QED
        BY <2>a, <2>2, <2>6, <2>9, ReadText
    <2> QED
      BY <2>4, <2>5, <2>8, <2>10, <2>11
  <1> QED
    BY <1>4, <1>5, <1>6, <1>7, <1>8 DEF TextsLie

-----------------------------------------------------------------------------
LEMMA Kinds ==
  /\ \A r \in Untagged : r.kind \in {"SSLRequest", "Startup"}
                         /\ (r.kind = "Startup" => r.params \in Params)
                         /\ (r.kind = "SSLRequest" => r = [kind |-> "SSLRequest"])
  /\ \A r \in Tagged : r.kind \in {"Query", "Other", "Terminate"}
                       /\ (r.kind = "Query" => r.text \in Queries /\ r = [kind |-> "Query", text |-> r.text])
                       /\ (r.kind = "Other" => r.text \in {"none"} \cup Queries)
                       /\ (r.kind = "Terminate" => r = [kind |-> "Terminate"])
  BY DEF Untagged, Tagged

LEMMA KindsApart == \A r \in Untagged : r \notin Tagged
  <1>1. \A r \in Untagged : r.kind \in {"SSLRequest", "Startup"}
    BY Kinds
  <1>2. \A r \in Tagged : r.kind \in {"Query", "Other", "Terminate"}
    BY Kinds
  <1> QED
    BY <1>1, <1>2

LEMMA VersionType ==
  ASSUME NEW m \in Int, NEW n \in Int
  PROVE  /\ put_version(m, n) \in Buffers /\ size(put_version(m, n)) = 4
         /\ At(put_version(m, n), 0).holds = m /\ At(put_version(m, n), 2).holds = n
  <1> DEFINE c == put_numeric(2, m)
             d == put_numeric(2, n)
             e == <<>>
  <1>1. /\ c \in Buffers /\ size(c) = 2 /\ c # <<>> /\ c[1].holds = m
        /\ d \in Buffers /\ size(d) = 2 /\ d # <<>> /\ d[1].holds = n
    BY SizeOne DEF put_numeric, Cells, Held
  <1>2. /\ e \in Buffers /\ size(e) = 0 /\ e \o (c \o d) = c \o d
        /\ c \o d # <<>> /\ (c \o d)[1] = c[1] /\ c \o d \in Buffers
    BY <1>1, SizeEmpty DEF Buffers
  <1> HIDE DEF c, d, e
  <1>3. size(c \o d) = 4
    BY <1>1, SizeConcat
  <1>4. At(c \o d, 2) = d[1]
    BY <1>1, Cut
  <1>5. At(c \o d, 0) = c[1]
    <2> DEFINE f == c \o d
    <2>1. f \in Buffers /\ f # <<>> /\ e \o f = f
      BY <1>2
    <2> HIDE DEF f
    <2>2. At(e \o f, size(e)) = f[1]
      BY <1>2, <2>1, Cut
    <2> QED
      BY <1>2, <2>1, <2>2 DEF f
  <1> QED
    BY <1>1, <1>2, <1>3, <1>4, <1>5 DEF put_version, c, d

LEMMA BodyType == ASSUME NEW r \in Untagged \cup Tagged PROVE PacketBody(r) \in Buffers
  <1>1. CASE r.kind = "SSLRequest"
    <2>1. put_version(1234, 5679) \in Buffers
      BY VersionType
    <2> QED
      BY <1>1, <2>1 DEF PacketBody
  <1>2. CASE r.kind = "Startup"
    <2>1. r.params \in Params
      BY <1>2, Kinds
    <2>2. PICK u : ParamsPut(u, r.params)
      BY <2>1, ParamsEncoded
    <2> QED
      BY <1>2, <2>1, <2>2, StartupTexts
  <1>3. CASE r.kind = "Query"
    <2>1. r.text \in Texts
      BY <1>3, Kinds, TextTypes
    <2>2. put_string(r.text) \in Buffers
      BY <2>1, PutTypes
    <2> QED
      BY <1>3, <2>2 DEF PacketBody
  <1>4. CASE r.kind = "Terminate"
    BY <1>4, SizeEmpty DEF PacketBody
  <1>5. CASE r.kind = "Other"
    <2>1. r.text = "none" \/ r.text \in Texts
      BY <1>5, Kinds, TextTypes
    <2>2. r.text \in Texts => put_string(r.text) \in Buffers
      BY PutTypes
    <2>3. PacketBody(r) = IF r.text = "none" THEN <<>> ELSE put_string(r.text)
      BY <1>5 DEF PacketBody
    <2> QED
      BY <2>1, <2>2, <2>3, SizeEmpty
  <1> QED
    BY <1>1, <1>2, <1>3, <1>4, <1>5, Kinds

\* What ReadHeader finds, with and without a tag.
LEMMA UntaggedPacket ==
  ASSUME NEW r \in Untagged
  PROVE  /\ Packet(r) \in Buffers /\ size(Packet(r)) >= 4
         /\ Drop(Packet(r), 4) = PacketBody(r)
         /\ At(Take(Packet(r), 4), 0).holds = size(PacketBody(r)) + 4
  <1> DEFINE b == PacketBody(r)
             c == put_numeric(4, size(b) + 4)
             e == <<>>
  <1>1. b \in Buffers /\ size(b) \in Nat
    BY BodyType, SizeType
  <1>2. c \in Buffers /\ size(c) = 4 /\ c # <<>> /\ c[1].holds = size(b) + 4
    BY <1>1, SizeOne DEF put_numeric, Cells, Held
  <1>3. Packet(r) = c \o b
    <2>1. Packet(r) = (e \o c) \o b
      BY DEF Packet
    <2>2. e \o c = c
      BY <1>2 DEF Buffers
    <2> QED
      BY <2>1, <2>2
  <1>e. e \in Buffers /\ size(e) = 0 /\ e \o c = c
    BY <1>2, SizeEmpty DEF Buffers
  <1> HIDE DEF b, c, e
  <1>4. Take(c \o b, 4) = c /\ Drop(c \o b, 4) = b
    BY <1>1, <1>2, Cut
  <1>5. At(e \o c, size(e)) = c[1]
    BY <1>2, <1>e, Cut
  <1>6. At(c, 0).holds = size(b) + 4
    BY <1>2, <1>5, <1>e
  <1>7. c \o b \in Buffers /\ size(c \o b) >= 4
    BY <1>1, <1>2, SizeConcat
  <1> QED
    BY <1>3, <1>4, <1>6, <1>7 DEF b

LEMMA TaggedPacket ==
  ASSUME NEW r \in Tagged
  PROVE  /\ Packet(r) \in Buffers /\ size(Packet(r)) >= 5
         /\ Drop(Packet(r), 5) = PacketBody(r)
         /\ At(Take(Packet(r), 5), 0).holds = PacketTag(r)
         /\ At(Take(Packet(r), 5), 1).holds = size(PacketBody(r)) + 4
  <1> DEFINE b == PacketBody(r)
             c == put_byte(PacketTag(r))
             d == put_numeric(4, size(b) + 4)
             e == <<>>
  <1>1. b \in Buffers /\ size(b) \in Nat
    BY BodyType, SizeType
  <1>2. PacketTag(r) \in Words
    BY DEF PacketTag, Words
  <1>3. c \in Buffers /\ size(c) = 1 /\ c # <<>> /\ c[1].holds = PacketTag(r)
    BY <1>2, SizeOne DEF put_byte, Cells, Held
  <1>4. d \in Buffers /\ size(d) = 4 /\ d # <<>> /\ d[1].holds = size(b) + 4
    BY <1>1, SizeOne DEF put_numeric, Cells, Held
  <1>5. Packet(r) = (c \o d) \o b
    BY KindsApart DEF Packet
  <1>e. /\ e \in Buffers /\ size(e) = 0 /\ e \o (c \o d) = c \o d
        /\ c \o d \in Buffers /\ c \o d # <<>> /\ (c \o d)[1] = c[1]
    BY <1>3, <1>4, SizeEmpty DEF Buffers
  <1> HIDE DEF b, c, d, e
  <1>6. size(c \o d) = 5
    BY <1>3, <1>4, SizeConcat
  <1>7. Take((c \o d) \o b, 5) = c \o d /\ Drop((c \o d) \o b, 5) = b
    <2> DEFINE f == c \o d
    <2>1. f \in Buffers /\ size(f) = 5
      BY <1>6, <1>e
    <2> HIDE DEF f
    <2>2. Take(f \o b, 5) = f /\ Drop(f \o b, 5) = b
      BY <1>1, <2>1, Cut
    <2> QED
      BY <2>2 DEF f
  <1>8. At(c \o d, 1).holds = size(b) + 4
    BY <1>3, <1>4, Cut
  <1>9. At(c \o d, 0).holds = PacketTag(r)
    <2> DEFINE f == c \o d
    <2>1. f \in Buffers /\ f # <<>> /\ e \o f = f
      BY <1>e
    <2> HIDE DEF f
    <2>2. At(e \o f, size(e)) = f[1]
      BY <1>e, <2>1, Cut
    <2> QED
      BY <1>3, <1>e, <2>1, <2>2 DEF f
  <1>10. (c \o d) \o b \in Buffers /\ size((c \o d) \o b) >= 5
    BY <1>1, <1>6, <1>e, SizeConcat
  <1> QED
    BY <1>5, <1>7, <1>8, <1>9, <1>10 DEF b

-----------------------------------------------------------------------------
\* The k-th of the first n parameters is the last of that name.
IsLast(k, params, n, name) ==
    params[k].name = name /\ \A l \in k + 1..n : params[l].name # name

\* v is the value given last for a name among the first n parameters.
Latest(v, params, n, name) ==
    \/ v = NoText /\ \A k \in 1..n : params[k].name # name
    \/ \E k \in 1..n : IsLast(k, params, n, name) /\ params[k].value = v

LEMMA LatestIsGiven ==
  ASSUME NEW params \in Params, NEW v, NEW name, Latest(v, params, Len(params), name)
  PROVE  Given(params, name) = v
  <1> DEFINE N == Len(params)
             given == {k \in DOMAIN params : params[k].name = name}
  <1>1. N \in Nat /\ DOMAIN params = 1..N
    BY ParamsType
  <1>2. CASE v = NoText /\ \A k \in 1..N : params[k].name # name
    <2>1. given = {}
      BY <1>1, <1>2
    <2> QED
      BY <1>2, <2>1 DEF Given
  <1>3. ASSUME NEW k \in 1..N, IsLast(k, params, N, name), params[k].value = v
        PROVE  Given(params, name) = v
    <2> USE DEF IsLast
    <2>1. k \in given /\ \A l \in given : l <= k
      <3>1. k \in given
        BY <1>1, <1>3
      <3>2. ASSUME NEW l \in given, ~(l <= k) PROVE FALSE
        <4>1. l \in k + 1..N /\ params[l].name = name
          BY <1>1, <3>2
        <4> QED
          BY <1>3, <4>1
      <3> QED
        BY <3>1, <3>2
    <2> DEFINE m == CHOOSE m \in given : \A l \in given : l <= m
    <2>2. m \in given /\ \A l \in given : l <= m
      BY <2>1
    <2>3. given \subseteq Nat
      BY <1>1
    <2>4. m = k
      <3> HIDE DEF m, given
      <3> QED
        BY <2>1, <2>2, <2>3
    <2>5. given # {}
      BY <2>1
    <2> QED
      BY <1>3, <2>4, <2>5 DEF Given
  <1> QED
    BY <1>2, <1>3 DEF Latest

LEMMA LatestNone == ASSUME NEW params, NEW name PROVE Latest(NoText, params, 0, name)
  BY DEF Latest

\* One parameter more.
LEMMA LatestNext ==
  ASSUME NEW params, NEW n \in Nat, NEW v, NEW name, Latest(v, params, n, name)
  PROVE  Latest(IF params[n + 1].name = name THEN params[n + 1].value ELSE v,
                params, n + 1, name)
  <1>1. CASE params[n + 1].name = name
    <2>1. n + 1 \in 1..n + 1 /\ \A l \in n + 1 + 1..n + 1 : params[l].name # name
      OBVIOUS
    <2> QED
      BY <1>1, <2>1 DEF Latest, IsLast
  <1>2. CASE params[n + 1].name # name
    <2> SUFFICES Latest(v, params, n + 1, name)
      BY <1>2
    <2>1. \A l \in 1..n + 1 : l \in 1..n \/ l = n + 1
      OBVIOUS
    <2>2. CASE v = NoText /\ \A k \in 1..n : params[k].name # name
      BY <1>2, <2>1, <2>2 DEF Latest
    <2>3. ASSUME NEW k \in 1..n, IsLast(k, params, n, name), params[k].value = v
          PROVE  Latest(v, params, n + 1, name)
      <3>1. \A l \in k + 1..n + 1 : l \in k + 1..n \/ l = n + 1
        OBVIOUS
      <3>2. k \in 1..n + 1
        OBVIOUS
      <3>3. IsLast(k, params, n + 1, name)
        BY <1>2, <2>3, <3>1 DEF IsLast
      <3> QED
        BY <2>3, <3>2, <3>3 DEF Latest
    <2> QED
      BY <2>2, <2>3 DEF Latest
  <1> QED
    BY <1>1, <1>2

-----------------------------------------------------------------------------
(***************************************************************************)
(* How far a request is decoded: step by step, what is left on the wire,   *)
(* what was read, and what the message holds so far.                       *)
(***************************************************************************)
Fresh ==
    /\ tag = "none" /\ length = 0 /\ body = <<>> /\ pos = 0 /\ start = 0 /\ key = NoKey
    /\ message = Invalid

TagOf(r) == IF r \in Untagged THEN "none" ELSE PacketTag(r)

\* The message holds what the first n parameters say.
Holds(m, params, n) ==
    /\ m = [kind |-> "Startup", user |-> m.user, database |-> m.database, options |-> m.options]
    /\ Latest(m.user, params, n, "user")
    /\ Latest(m.database, params, n, "database")
    /\ Latest(m.options, params, n, "options")

\* n parameters are taken; if they are not all, or not only they, a text more.
Taken(u, params, n) ==
    /\ Holds(message, params, n)
    /\ \/ key = NoKey /\ start = size(u[n])
       \/ /\ n < Len(params) /\ key = params[n + 1].name
          /\ start = size(u[n]) + (TextLen[params[n + 1].name] + 1)
       \/ /\ n = Len(params) /\ key = NoText
          /\ start = size(u[n]) + (TextLen[NoText] + 1)

AtHeader(r) ==
    /\ step = "header" /\ wire = Packet(r) /\ Fresh
    /\ understood = <<>> /\ (startup_done <=> r \in Tagged)

AtBody(r) ==
    /\ step = "body" /\ wire = PacketBody(r)
    /\ tag = TagOf(r) /\ length = size(PacketBody(r))
    /\ body = <<>> /\ pos = 0 /\ start = 0 /\ key = NoKey
    /\ understood = <<>> /\ (startup_done <=> r \in Tagged)

AtDecode(r) ==
    /\ step = "decode" /\ wire = <<>>
    /\ tag = TagOf(r) /\ length = size(PacketBody(r)) /\ body = PacketBody(r)
    /\ pos = 0 /\ start = 0 /\ key = NoKey
    /\ understood = <<>> /\ (startup_done <=> r \in Tagged)

AtTexts(r) ==
    /\ step = "texts" /\ wire = <<>>
    /\ tag = "none" /\ length = size(PacketBody(r)) /\ body = PacketBody(r)
    /\ r.kind = "Startup" /\ pos = 4
    /\ \E u : /\ ParamsPut(u, r.params)
              /\ \E n \in 0..Len(r.params) : Taken(u, r.params, n)
    /\ understood = <<>> /\ startup_done = FALSE

AtMessage(r) ==
    /\ step = "message" /\ wire = <<>>
    /\ tag = TagOf(r) /\ length = size(PacketBody(r)) /\ body = PacketBody(r)
    /\ pos \in Nat /\ start \in Nat /\ pos + start <= size(PacketBody(r))
    /\ key \in Texts \cup {NoKey}
    /\ message = Meant(r) /\ understood = <<message>>

Phase(r) == AtHeader(r) \/ AtBody(r) \/ AtDecode(r) \/ AtTexts(r) \/ AtMessage(r)

Resting == step = "header" /\ wire = <<>> /\ Fresh

\* Between two requests the session is at rest; while it has the turn it is in
\* one of the phases of the request that was asked.
RequestInv ==
    /\ startup_done \in BOOLEAN
    /\ turn \in {"client", "server", "database", "over"}
    /\ \/ asked = <<>> /\ understood = <<>> /\ turn = "client" /\ Resting
       \/ \E r \in Untagged \cup Tagged :
              /\ asked = <<r>>
              /\ turn # "server" => Resting /\ understood = <<Meant(r)>>
              /\ turn = "server" => Phase(r)

-----------------------------------------------------------------------------
LEMMA AskKeepsRequest ==
  ASSUME RequestInv, NEW r \in Untagged \cup Tagged, Ask(r)
  PROVE  RequestInv'
  <1>1. turn = "client" /\ Send(r) /\ turn' = "server"
    BY DEF Ask
  <1>2. Resting /\ startup_done \in BOOLEAN
    BY <1>1 DEF RequestInv
  <1>3. wire' = Packet(r)
    <2>1. Packet(r) \in Buffers
      BY UntaggedPacket, TaggedPacket
    <2>2. wire' = <<>> \o Packet(r)
      BY <1>1, <1>2 DEF Send, Resting
    <2> QED
      BY <2>1, <2>2 DEF Buffers
  <1>4. (startup_done <=> r \in Tagged)
    BY <1>1, <1>2, KindsApart DEF Send
  <1>5. AtHeader(r)'
    BY <1>1, <1>2, <1>3, <1>4 DEF Send, Resting, Fresh, AtHeader, readVars
  <1>6. asked' = <<r>> /\ startup_done' = startup_done
    BY <1>1 DEF Send
  <1> QED
    BY <1>1, <1>2, <1>5, <1>6 DEF RequestInv, Phase

LEMMA BodySizeIs == ASSUME NEW n \in Nat PROVE BodySize(n + 4) = n
  BY DEF BodySize

LEMMA ReadHeaderKeeps ==
  ASSUME NEW r \in Untagged \cup Tagged, Phase(r), startup_done \in BOOLEAN, ReadHeader
  PROVE  AtBody(r)'
  <1>1. AtHeader(r)
    BY DEF ReadHeader, Phase, AtHeader, AtBody, AtDecode, AtTexts, AtMessage
  <1> DEFINE n == size(PacketBody(r))
  <1>2. n \in Nat /\ BodySize(n + 4) = n
    BY BodyType, SizeType, BodySizeIs
  <1>3. CASE startup_done
    <2>0. r \in Tagged /\ r \notin Untagged
      BY <1>1, <1>3, KindsApart DEF AtHeader
    <2>1. HeaderSize = 5 /\ HeaderSize - 4 = 1
      BY <1>3 DEF HeaderSize
    <2>2. tag' = PacketTag(r) /\ length' = BodySize(n + 4) /\ wire' = PacketBody(r)
      BY <1>1, <1>3, <2>0, <2>1, TaggedPacket DEF AtHeader, ReadHeader
    <2> QED
      BY <1>1, <1>2, <2>0, <2>2 DEF ReadHeader, AtHeader, AtBody, TagOf, Fresh
  <1>4. CASE ~startup_done
    <2>0. r \in Untagged
      BY <1>1, <1>4 DEF AtHeader
    <2>1. HeaderSize = 4 /\ HeaderSize - 4 = 0
      BY <1>4 DEF HeaderSize
    <2>2. tag' = "none" /\ length' = BodySize(n + 4) /\ wire' = PacketBody(r)
      BY <1>1, <1>4, <2>0, <2>1, UntaggedPacket DEF AtHeader, ReadHeader
    <2> QED
      BY <1>1, <1>2, <2>0, <2>2 DEF ReadHeader, AtHeader, AtBody, TagOf, Fresh
  <1> QED
    BY <1>3, <1>4

\* All that is left on the wire is the body.
LEMMA CutAll ==
  ASSUME NEW b \in Buffers
  PROVE  Take(b, size(b)) = b /\ Drop(b, size(b)) = <<>>
  <1> DEFINE e == <<>>
  <1>1. b \o e = b /\ e \in Buffers
    BY SizeEmpty, ConcatEmptySeq DEF Buffers
  <1> HIDE DEF e
  <1>2. Take(b \o e, size(b)) = b /\ Drop(b \o e, size(b)) = e
    BY <1>1, Cut
  <1> QED
    BY <1>1, <1>2 DEF e

LEMMA ReadBodyKeeps ==
  ASSUME NEW r \in Untagged \cup Tagged, Phase(r), ReadBody
  PROVE  AtDecode(r)'
  <1>1. AtBody(r)
    BY DEF ReadBody, Phase, AtHeader, AtBody, AtDecode, AtTexts, AtMessage
  <1>2. body' = PacketBody(r) /\ wire' = <<>>
    BY <1>1, BodyType, CutAll DEF ReadBody, AtBody
  <1> QED
    BY <1>1, <1>2 DEF ReadBody, AtBody, AtDecode

LEMMA DecodedIs ==
  ASSUME NEW m, Decoded(m), understood = <<>>
  PROVE  step' = "message" /\ message' = m /\ understood' = <<m>>
  BY DEF Decoded

LEMMA AtZero == ASSUME NEW b \in Buffers, b # <<>> PROVE At(b, 0) = b[1]
  <1> DEFINE e == <<>>
  <1>1. e \o b = b /\ e \in Buffers /\ size(e) = 0
    BY SizeEmpty DEF Buffers
  <1> HIDE DEF e
  <1>2. At(e \o b, size(e)) = b[1]
    BY <1>1, Cut
  <1> QED
    BY <1>1, <1>2

LEMMA First ==
  ASSUME NEW x \in Buffers, NEW y \in Buffers, x # <<>>
  PROVE  x \o y # <<>> /\ (x \o y)[1] = x[1]
  <1>1. Len(x) \in Nat /\ Len(y) \in Nat /\ Len(x) > 0
    BY EmptySeq DEF Buffers
  <1>2. Len(x \o y) = Len(x) + Len(y) /\ (x \o y)[1] = x[1]
    BY <1>1 DEF Buffers
  <1> QED
    BY <1>1, <1>2

LEMMA StartupVersion ==
  ASSUME NEW r \in Untagged, r.kind = "Startup"
  PROVE  At(PacketBody(r), 0).holds = 3
  <1> DEFINE c == put_params(r.params) \o put_string(NoText)
             d == put_numeric(2, 0)
             x == put_numeric(2, 3)
  <1>1. r.params \in Params
    BY Kinds
  <1>2. PICK u : ParamsPut(u, r.params)
    BY <1>1, ParamsEncoded
  <1>3. put_params(r.params) \in Buffers /\ put_string(NoText) \in Buffers
    <2>1. Len(r.params) \in 0..Len(r.params)
      BY <1>1, ParamsType
    <2>2. put_params(r.params) \in Buffers
      BY <1>2, <2>1 DEF ParamsPut
    <2> QED
      BY <2>2, StringIs, TextTypes
  <1>4. c \in Buffers /\ d \in Buffers /\ x \in Buffers /\ Len(x) = 1 /\ x[1].holds = 3
    BY <1>3, PutTypes, SizeConcat DEF put_numeric
  <1>5. PacketBody(r) = (Version \o put_params(r.params)) \o put_string(NoText)
    BY DEF PacketBody, Version
  <1>6. PacketBody(r) = Version \o c
    BY <1>3, <1>5, VersionIs, Regroup
  <1>7. Version = x \o d
    BY DEF Version, put_version
  <1> HIDE DEF c, d, x
  <1>8. PacketBody(r) = x \o (d \o c) /\ d \o c \in Buffers
    BY <1>4, <1>6, <1>7, Regroup, SizeConcat
  <1> DEFINE y == d \o c
  <1>9. y \in Buffers
    BY <1>8
  <1> HIDE DEF y
  <1>10. x \o y # <<>> /\ (x \o y)[1] = x[1] /\ x \o y \in Buffers
    <2>1. x # <<>>
      BY <1>4
    <2> QED
      BY <1>4, <1>9, <2>1, First, SizeConcat
  <1>11. At(x \o y, 0) = x[1]
    BY <1>10, AtZero
  <1> QED
    BY <1>4, <1>8, <1>11 DEF y

LEMMA MeantIs ==
  /\ \A r : r.kind = "Startup" =>
         Meant(r) = [kind |-> "Startup", user |-> Given(r.params, "user"),
                     database |-> Given(r.params, "database"),
                     options |-> Given(r.params, "options")]
  /\ \A r : r.kind = "Other" => Meant(r) = [kind |-> "Other"]
  /\ \A r : r.kind \notin {"Startup", "Other"} => Meant(r) = r
  BY DEF Meant

LEMMA DecodeVersionKeeps ==
  ASSUME NEW r \in Untagged \cup Tagged, Phase(r), startup_done \in BOOLEAN, DecodeVersion
  PROVE  AtTexts(r)' \/ AtMessage(r)'
  <1>1. AtDecode(r) /\ ~startup_done
    BY DEF DecodeVersion, Phase, AtHeader, AtBody, AtDecode, AtTexts, AtMessage
  <1>2. r \in Untagged
    BY <1>1 DEF AtDecode
  <1>3. pos = 0 /\ pos' = 4 /\ body = PacketBody(r) /\ At(body, pos + 2) = At(PacketBody(r), 2)
    BY <1>1 DEF DecodeVersion, AtDecode
  <1> DEFINE ssl == At(body, pos).holds = 1234 /\ At(body, pos + 2).holds = 5679
  <1>4. /\ ssl => Decoded([kind |-> "SSLRequest"])
        /\ ~ssl => step' = "texts" /\ message' = NewStartup /\ UNCHANGED understood
    BY DEF DecodeVersion
  <1>5. UNCHANGED <<wire, asked, startup_done, tag, length, body, start, key>>
    BY DEF DecodeVersion
  <1>6. /\ wire = <<>> /\ tag = "none" /\ length = size(PacketBody(r))
        /\ start = 0 /\ key = NoKey /\ understood = <<>>
    BY <1>1, <1>2 DEF AtDecode, TagOf
  <1>7. CASE r.kind = "SSLRequest"
    <2>1. PacketBody(r) = put_version(1234, 5679)
      BY <1>7 DEF PacketBody
    <2>2. ssl /\ size(PacketBody(r)) = 4
      BY <1>3, <2>1, VersionType
    <2>3. r = [kind |-> "SSLRequest"] /\ Meant(r) = r
      BY <1>2, <1>7, Kinds, MeantIs
    <2>4. step' = "message" /\ message' = Meant(r) /\ understood' = <<message'>>
      BY <1>4, <1>6, <2>2, <2>3, DecodedIs
    <2> HIDE DEF ssl
    <2>5. AtMessage(r)'
      BY <1>2, <1>3, <1>5, <1>6, <2>2, <2>4 DEF AtMessage, TagOf
    <2> QED
      BY <2>5
  <1>8. CASE r.kind = "Startup"
    <2>1. ~ssl
      <3>1. At(PacketBody(r), 0).holds = 3
        BY <1>2, <1>8, StartupVersion
      <3> QED
        BY <1>3, <3>1
    <2>2. r.params \in Params
      BY <1>2, <1>8, Kinds
    <2>3. PICK u : ParamsPut(u, r.params)
      BY <2>2, ParamsEncoded
    <2>4. size(u[0]) = 0
      BY <1>8, <2>2, <2>3, StartupTexts DEF TextsLie
    <2>5. message' = NewStartup /\ step' = "texts" /\ understood' = <<>>
      BY <1>4, <1>6, <2>1
    <2>6. Holds(NewStartup, r.params, 0)
      BY LatestNone DEF Holds, NewStartup
    <2>7. 0 \in 0..Len(r.params)
      BY <2>2, ParamsType
    <2>8. Taken(u, r.params, 0)'
      BY <1>5, <1>6, <2>4, <2>5, <2>6 DEF Taken
    <2> HIDE DEF ssl
    <2>9. \E n \in 0..Len(r.params) : Taken(u, r.params, n)'
      BY <2>7, <2>8
    <2>10. AtTexts(r)'
      BY <1>1, <1>3, <1>5, <1>6, <1>8, <2>3, <2>5, <2>9 DEF AtTexts
    <2> QED
      BY <2>10
  <1> QED
    BY <1>2, <1>7, <1>8, Kinds

-----------------------------------------------------------------------------
LEMMA HoldsNext ==
  ASSUME NEW params, NEW n \in Nat, NEW m, Holds(m, params, n), NEW name, NEW value,
         name = params[n + 1].name, value = params[n + 1].value
  PROVE  Holds(IF name \in {"user", "database", "options"} THEN [m EXCEPT ![name] = value]
               ELSE m, params, n + 1)
  <1> DEFINE w == IF name \in {"user", "database", "options"} THEN [m EXCEPT ![name] = value]
                  ELSE m
             a == m.user
             b == m.database
             c == m.options
  <1>1. m = [kind |-> "Startup", user |-> a, database |-> b, options |-> c]
    BY DEF Holds
  <1> HIDE DEF a, b, c
  <1>a. /\ [m EXCEPT !["user"] = value]
               = [kind |-> "Startup", user |-> value, database |-> b, options |-> c]
        /\ [m EXCEPT !["database"] = value]
               = [kind |-> "Startup", user |-> a, database |-> value, options |-> c]
        /\ [m EXCEPT !["options"] = value]
               = [kind |-> "Startup", user |-> a, database |-> b, options |-> value]
    <2>1. \A f : [m EXCEPT ![f] = value] = [x \in DOMAIN m |-> IF x = f THEN value ELSE m[x]]
      OBVIOUS
    <2>2. DOMAIN m = {"kind", "user", "database", "options"}
      BY <1>1
    <2>3. [m EXCEPT !["user"] = value]
              = [kind |-> "Startup", user |-> value, database |-> b, options |-> c]
      BY <1>1, <2>1, <2>2
    <2>4. [m EXCEPT !["database"] = value]
              = [kind |-> "Startup", user |-> a, database |-> value, options |-> c]
      BY <1>1, <2>1, <2>2
    <2>5. [m EXCEPT !["options"] = value]
              = [kind |-> "Startup", user |-> a, database |-> b, options |-> value]
      BY <1>1, <2>1, <2>2
    <2> QED
      BY <2>3, <2>4, <2>5
  <1>b. /\ name = "user" => w = [m EXCEPT !["user"] = value]
        /\ name = "database" => w = [m EXCEPT !["database"] = value]
        /\ name = "options" => w = [m EXCEPT !["options"] = value]
        /\ name \notin {"user", "database", "options"} => w = m
    OBVIOUS
  <1> HIDE DEF w
  <1>2. w = [kind |-> "Startup", user |-> IF name = "user" THEN value ELSE a,
             database |-> IF name = "database" THEN value ELSE b,
             options |-> IF name = "options" THEN value ELSE c]
    <2>1. CASE name = "user"
      BY <1>a, <1>b, <2>1
    <2>2. CASE name = "database"
      BY <1>a, <1>b, <2>2
    <2>3. CASE name = "options"
      BY <1>a, <1>b, <2>3
    <2>4. CASE name \notin {"user", "database", "options"}
      BY <1>1, <1>b, <2>4
    <2> QED
      BY <2>1, <2>2, <2>3, <2>4
  <1>3. /\ w.user = IF name = "user" THEN value ELSE m.user
        /\ w.database = IF name = "database" THEN value ELSE m.database
        /\ w.options = IF name = "options" THEN value ELSE m.options
        /\ w = [kind |-> "Startup", user |-> w.user, database |-> w.database,
                options |-> w.options]
    BY <1>2 DEF a, b, c
  <1>4. Latest(w.user, params, n + 1, "user")
    <2>1. Latest(m.user, params, n, "user")
      BY DEF Holds
    <2> QED
      BY <1>3, <2>1, LatestNext
  <1>5. Latest(w.database, params, n + 1, "database")
    <2>1. Latest(m.database, params, n, "database")
      BY DEF Holds
    <2> QED
      BY <1>3, <2>1, LatestNext
  <1>6. Latest(w.options, params, n + 1, "options")
    <2>1. Latest(m.options, params, n, "options")
      BY DEF Holds
    <2> QED
      BY <1>3, <2>1, LatestNext
  <1>7. Holds(w, params, n + 1)
    BY <1>3, <1>4, <1>5, <1>6 DEF Holds
  <1> QED
    BY <1>7 DEF w

LEMMA TextHere ==
  ASSUME NEW s, pos = 4, TextAt(body, start, s)
  PROVE  /\ pos + start < size(body)
         /\ Text.holds = s /\ Text.bytes = TextLen[s] + 1
  BY DEF TextAt, Text

\* The parts of AtTexts, and where the texts are.
LEMMA TextsIs ==
  ASSUME NEW r \in Untagged \cup Tagged, AtTexts(r)
  PROVE  /\ r \in Untagged /\ r.params \in Params
         /\ \E u : /\ ParamsPut(u, r.params)
                   /\ TextsLie(body, u, r.params)
                   /\ \E n \in 0..Len(r.params) : Taken(u, r.params, n)
  <1>1. r.kind = "Startup" /\ body = PacketBody(r)
    BY DEF AtTexts
  <1>2. r \in Untagged /\ r.params \in Params
    <2>1. r.kind \notin {"Query", "Other", "Terminate"}
      BY <1>1
    <2> QED
      BY <1>1, <2>1, Kinds
  <1>3. PICK u : ParamsPut(u, r.params) /\ \E n \in 0..Len(r.params) : Taken(u, r.params, n)
    BY DEF AtTexts
  <1>4. TextsLie(body, u, r.params)
    BY <1>1, <1>2, <1>3, StartupTexts
  <1> QED
    BY <1>2, <1>3, <1>4

\* The texts of parameter n + 1.
LEMMA ParamLies ==
  ASSUME NEW params \in Params, NEW b, NEW u, TextsLie(b, u, params),
         NEW n \in 0..Len(params), n < Len(params)
  PROVE  LET name == params[n + 1].name
             value == params[n + 1].value
         IN  /\ TextAt(b, size(u[n]), name)
             /\ TextAt(b, size(u[n]) + (TextLen[name] + 1), value)
             /\ size(u[n + 1]) = (size(u[n]) + (TextLen[name] + 1)) + (TextLen[value] + 1)
             /\ name \in Texts /\ value \in Texts /\ name # NoText /\ name # NoKey
  <1>1. Len(params) \in Nat
    BY ParamsType
  <1>2. n + 1 \in 1..Len(params) /\ (n + 1) - 1 = n
    BY <1>1
  <1>3. params[n + 1] \in Param
    BY <1>2, ParamsType
  <1>4. LET name == params[n + 1].name
            value == params[n + 1].value
        IN  name \in Texts /\ value \in Texts /\ name # NoText /\ name # NoKey
    BY <1>3, TextTypes
  <1>5. LET name == params[n + 1].name
            value == params[n + 1].value
        IN  /\ TextAt(b, size(u[(n + 1) - 1]), name)
            /\ TextAt(b, size(u[(n + 1) - 1]) + (TextLen[name] + 1), value)
            /\ size(u[n + 1]) = (size(u[(n + 1) - 1]) + (TextLen[name] + 1)) + (TextLen[value] + 1)
    BY <1>2 DEF TextsLie
  <1> QED
    BY <1>2, <1>4, <1>5

\* The loop of StartupMessage::decode: a name, then its value.
LEMMA TakeKeyKeeps ==
  ASSUME NEW r \in Untagged \cup Tagged, Phase(r), TakeKey
  PROVE  AtTexts(r)'
  <1>1. AtTexts(r) /\ key = NoKey
    BY DEF TakeKey, TextFound, Phase, AtHeader, AtBody, AtDecode, AtTexts, AtMessage
  <1>2. r.params \in Params /\ Len(r.params) \in Nat /\ pos = 4
    BY <1>1, TextsIs, ParamsType DEF AtTexts
  <1>3. PICK u : ParamsPut(u, r.params) /\ TextsLie(body, u, r.params)
                 /\ \E n \in 0..Len(r.params) : Taken(u, r.params, n)
    BY <1>1, TextsIs
  <1>4. PICK n \in 0..Len(r.params) : Taken(u, r.params, n)
    BY <1>3
  <1>5. start = size(u[n])
    <2>1. n < Len(r.params) => r.params[n + 1].name # NoKey
      BY <1>2, <1>3, ParamLies
    <2>2. NoText # NoKey
      BY TextTypes
    <2> QED
      BY <1>1, <1>4, <2>1, <2>2 DEF Taken
  <1>6. message' = message /\ Holds(message, r.params, n)
    BY <1>4 DEF Taken, TakeKey
  <1>7. Taken(u, r.params, n)'
    <2>1. CASE n < Len(r.params)
      <3>1. TextAt(body, start, r.params[n + 1].name)
        BY <1>2, <1>3, <1>5, <2>1, ParamLies
      <3>2. key' = r.params[n + 1].name
            /\ start' = size(u[n]) + (TextLen[r.params[n + 1].name] + 1)
        BY <1>2, <1>5, <3>1, TextHere DEF TakeKey
      <3> QED
        BY <1>6, <2>1, <3>2 DEF Taken
    <2>2. CASE n = Len(r.params)
      <3>1. TextAt(body, start, NoText)
        BY <1>3, <1>5, <2>2 DEF TextsLie
      <3>2. key' = NoText /\ start' = size(u[n]) + (TextLen[NoText] + 1)
        BY <1>2, <1>5, <3>1, TextHere DEF TakeKey
      <3> QED
        BY <1>6, <2>2, <3>2 DEF Taken
    <2> QED
      BY <1>2, <2>1, <2>2
  <1>8. \E m \in 0..Len(r.params) : Taken(u, r.params, m)'
    BY <1>7
  <1> QED
    BY <1>1, <1>3, <1>8 DEF AtTexts, TakeKey

LEMMA TakeValueKeeps ==
  ASSUME NEW r \in Untagged \cup Tagged, Phase(r), TakeValue
  PROVE  AtTexts(r)'
  <1>1. AtTexts(r) /\ key # NoKey /\ pos + start < size(body)
    BY DEF TakeValue, TextFound, Phase, AtHeader, AtBody, AtDecode, AtTexts, AtMessage
  <1>2. r.params \in Params /\ Len(r.params) \in Nat /\ pos = 4
    BY <1>1, TextsIs, ParamsType DEF AtTexts
  <1>3. PICK u : ParamsPut(u, r.params) /\ TextsLie(body, u, r.params)
                 /\ \E n \in 0..Len(r.params) : Taken(u, r.params, n)
    BY <1>1, TextsIs
  <1>4. PICK n \in 0..Len(r.params) : Taken(u, r.params, n)
    BY <1>3
  <1> DEFINE name == r.params[n + 1].name
             value == r.params[n + 1].value
  <1>5. n < Len(r.params) /\ key = name /\ start = size(u[n]) + (TextLen[name] + 1)
    <2>1. ~(n = Len(r.params) /\ start = size(u[n]) + (TextLen[NoText] + 1))
      <3>1. size(u[n]) \in Nat /\ TextLen[NoText] \in Nat
        BY <1>3, TextTypes, StringIs DEF TextsLie
      <3>2. n = Len(r.params) => size(body) = 4 + size(u[n]) + (TextLen[NoText] + 1)
        BY <1>3 DEF TextsLie
      <3> QED
        BY <1>1, <1>2, <3>1, <3>2
    <2> QED
      BY <1>1, <1>4, <2>1 DEF Taken
  <1>6. /\ TextAt(body, start, value)
        /\ size(u[n + 1]) = start + (TextLen[value] + 1)
    BY <1>2, <1>3, <1>5, ParamLies
  <1>7. Text.holds = value /\ Text.bytes = TextLen[value] + 1
    BY <1>2, <1>6, TextHere
  <1>8. start' = size(u[n + 1]) /\ key' = NoKey
    BY <1>6, <1>7 DEF TakeValue
  <1>9. Holds(message', r.params, n + 1)
    <2>1. Holds(message, r.params, n)
      BY <1>4 DEF Taken
    <2>2. message' = IF name \in {"user", "database", "options"}
                     THEN [message EXCEPT ![name] = value] ELSE message
      BY <1>5, <1>7 DEF TakeValue, Kept
    <2>3. n \in Nat
      OBVIOUS
    <2> QED
      BY <2>1, <2>2, <2>3, HoldsNext
  <1>10. n + 1 \in 0..Len(r.params) /\ Taken(u, r.params, n + 1)'
    BY <1>2, <1>5, <1>8, <1>9 DEF Taken
  <1>11. \E m \in 0..Len(r.params) : Taken(u, r.params, m)'
    BY <1>10
  <1> QED
    BY <1>1, <1>3, <1>11 DEF AtTexts, TakeValue

LEMMA FinishStartupKeeps ==
  ASSUME NEW r \in Untagged \cup Tagged, Phase(r), FinishStartup
  PROVE  AtMessage(r)'
  <1>1. AtTexts(r) /\ ~(pos + start < size(body))
    BY DEF FinishStartup, TextFound, Phase, AtHeader, AtBody, AtDecode, AtTexts, AtMessage
  <1>2. /\ r.params \in Params /\ Len(r.params) \in Nat /\ pos = 4 /\ r.kind = "Startup"
        /\ r \in Untagged
    BY <1>1, TextsIs, ParamsType DEF AtTexts
  <1>3. PICK u : ParamsPut(u, r.params) /\ TextsLie(body, u, r.params)
                 /\ \E n \in 0..Len(r.params) : Taken(u, r.params, n)
    BY <1>1, TextsIs
  <1>4. PICK n \in 0..Len(r.params) : Taken(u, r.params, n)
    BY <1>3
  <1>5. /\ n = Len(r.params) /\ key = NoText
        /\ start = size(u[n]) + (TextLen[NoText] + 1)
    <2>1. ASSUME n < Len(r.params)
          PROVE  /\ start # size(u[n])
                 /\ start # size(u[n]) + (TextLen[r.params[n + 1].name] + 1)
      <3>1. /\ TextAt(body, size(u[n]), r.params[n + 1].name)
            /\ TextAt(body, size(u[n]) + (TextLen[r.params[n + 1].name] + 1),
                      r.params[n + 1].value)
        BY <1>2, <1>3, <2>1, ParamLies
      <3> QED
        BY <1>1, <1>2, <3>1 DEF TextAt
    <2>2. ASSUME n = Len(r.params) PROVE start # size(u[n])
      <3>1. TextAt(body, size(u[n]), NoText)
        BY <1>3, <2>2 DEF TextsLie
      <3> QED
        BY <1>1, <1>2, <3>1 DEF TextAt
    <2>3. n < Len(r.params) \/ n = Len(r.params)
      BY <1>2
    <2> QED
      BY <1>4, <2>1, <2>2, <2>3 DEF Taken
  <1>6. /\ start \in Nat /\ pos + start = size(body) /\ size(body) \in Nat
    <2>1. size(u[n]) \in Nat /\ TextLen[NoText] \in Nat
      BY <1>3, TextTypes, StringIs DEF TextsLie
    <2>2. size(body) = 4 + size(u[n]) + (TextLen[NoText] + 1)
      BY <1>3, <1>5 DEF TextsLie
    <2> DEFINE a == size(u[n])
               l == TextLen[NoText]
    <2>3. /\ a \in Nat /\ l \in Nat /\ size(body) = 4 + a + (l + 1) /\ pos = 4
          /\ start = a + (l + 1)
      BY <1>2, <1>5, <2>1, <2>2
    <2> HIDE DEF a, l
    <2> QED
      BY <2>3
  <1>7. message = Meant(r)
    <2>1. Holds(message, r.params, Len(r.params))
      BY <1>4, <1>5 DEF Taken
    <2>2. /\ Given(r.params, "user") = message.user
          /\ Given(r.params, "database") = message.database
          /\ Given(r.params, "options") = message.options
      BY <1>2, <2>1, LatestIsGiven DEF Holds
    <2> QED
      BY <1>2, <2>1, <2>2, MeantIs DEF Holds
  <1>8. understood = <<>>
    BY <1>1 DEF AtTexts
  <1>9. step' = "message" /\ message' = Meant(r) /\ understood' = <<message'>>
    BY <1>7, <1>8, DecodedIs DEF FinishStartup
  <1>10. key \in Texts
    BY <1>5, TextTypes
  <1> QED
    BY <1>1, <1>2, <1>6, <1>9, <1>10 DEF AtTexts, AtMessage, FinishStartup, TagOf

LEMMA DecodeTaggedKeeps ==
  ASSUME NEW r \in Untagged \cup Tagged, Phase(r), DecodeTagged
  PROVE  AtMessage(r)'
  <1>1. AtDecode(r) /\ startup_done
    BY DEF DecodeTagged, Phase, AtHeader, AtBody, AtDecode, AtTexts, AtMessage
  <1>2. r \in Tagged /\ tag = PacketTag(r)
    BY <1>1, KindsApart DEF AtDecode, TagOf
  <1>3. /\ pos = 0 /\ start = 0 /\ key = NoKey /\ wire = <<>> /\ body = PacketBody(r)
        /\ understood = <<>>
    BY <1>1 DEF AtDecode
  <1>4. UNCHANGED <<wire, asked, startup_done, tag, length, body, start, key>>
    BY DEF DecodeTagged
  <1>5. size(PacketBody(r)) \in Nat
    BY BodyType, SizeType
  <1>6. /\ step' = "message" /\ message' = Meant(r) /\ understood' = <<message'>>
        /\ pos' \in Nat /\ pos' + start <= size(PacketBody(r))
    <2>1. CASE r.kind = "Query"
      <3>1. tag = "Q"
        BY <1>2, <2>1 DEF PacketTag
      <3>2. r.text \in Texts /\ r = [kind |-> "Query", text |-> r.text]
        BY <1>2, <2>1, Kinds, TextTypes
      <3>3. PacketBody(r) = put_string(r.text)
        BY <2>1 DEF PacketBody
      <3>4. At(PacketBody(r), 0) = put_string(r.text)[1]
        BY <3>2, <3>3, StringIs, AtZero
      <3>5. /\ At(body, pos).holds = r.text /\ At(body, pos).bytes = TextLen[r.text] + 1
            /\ size(PacketBody(r)) = TextLen[r.text] + 1
        BY <1>3, <3>2, <3>3, <3>4, StringIs
      <3>6. pos' = pos + At(body, pos).bytes /\ Decoded([kind |-> "Query", text |-> r.text])
        BY <3>1, <3>5 DEF DecodeTagged
      <3>7. Meant(r) = [kind |-> "Query", text |-> r.text]
        BY <2>1, <3>2, MeantIs
      <3>8. step' = "message" /\ message' = Meant(r) /\ understood' = <<message'>>
        BY <1>3, <3>6, <3>7, DecodedIs
      <3> QED
        BY <1>3, <1>5, <3>5, <3>6, <3>8
    <2>2. CASE r.kind = "Terminate"
      <3>1. tag = "X" /\ Meant(r) = [kind |-> "Terminate"]
        BY <1>2, <2>2, Kinds, MeantIs DEF PacketTag
      <3>2. Decoded([kind |-> "Terminate"]) /\ pos' = pos
        BY <3>1 DEF DecodeTagged
      <3>3. step' = "message" /\ message' = Meant(r) /\ understood' = <<message'>>
        BY <1>3, <3>1, <3>2, DecodedIs
      <3> QED
        BY <1>3, <1>5, <3>2, <3>3
    <2>3. CASE r.kind = "Other"
      <3>1. tag = "P" /\ Meant(r) = [kind |-> "Other"]
        BY <1>2, <2>3, MeantIs DEF PacketTag
      <3>2. Decoded([kind |-> "Other"]) /\ pos' = pos
        BY <3>1 DEF DecodeTagged
      <3>3. step' = "message" /\ message' = Meant(r) /\ understood' = <<message'>>
        BY <1>3, <3>1, <3>2, DecodedIs
      <3> QED
        BY <1>3, <1>5, <3>2, <3>3
    <2> QED
      BY <1>2, <2>1, <2>2, <2>3, Kinds
  <1> QED
    BY <1>1, <1>3, <1>4, <1>6 DEF AtMessage, AtDecode

-----------------------------------------------------------------------------
LEMMA ReadRequestKeeps ==
  ASSUME RequestInv, ReadRequest
  PROVE  RequestInv'
  <1>1. turn = "server" /\ turn' = "server" /\ read
    BY DEF ReadRequest
  <1>2. startup_done \in BOOLEAN
    BY DEF RequestInv
  <1>3. PICK r \in Untagged \cup Tagged : asked = <<r>> /\ Phase(r)
    BY <1>1 DEF RequestInv
  <1>4. CASE ReadHeader
    <2>1. AtBody(r)'
      BY <1>2, <1>3, <1>4, ReadHeaderKeeps
    <2>2. asked' = asked /\ startup_done' = startup_done
      BY <1>4 DEF ReadHeader
    <2> QED
      BY <1>1, <1>2, <1>3, <2>1, <2>2 DEF RequestInv, Phase
  <1>5. CASE ReadBody
    <2>1. AtDecode(r)'
      BY <1>3, <1>5, ReadBodyKeeps
    <2>2. asked' = asked /\ startup_done' = startup_done
      BY <1>5 DEF ReadBody
    <2> QED
      BY <1>1, <1>2, <1>3, <2>1, <2>2 DEF RequestInv, Phase
  <1>6. CASE DecodeVersion
    <2>1. AtTexts(r)' \/ AtMessage(r)'
      BY <1>2, <1>3, <1>6, DecodeVersionKeeps
    <2>2. asked' = asked /\ startup_done' = startup_done
      BY <1>6 DEF DecodeVersion
    <2> QED
      BY <1>1, <1>2, <1>3, <2>1, <2>2 DEF RequestInv, Phase
  <1>7. CASE TakeKey
    <2>1. AtTexts(r)'
      BY <1>3, <1>7, TakeKeyKeeps
    <2>2. asked' = asked /\ startup_done' = startup_done
      BY <1>7 DEF TakeKey
    <2> QED
      BY <1>1, <1>2, <1>3, <2>1, <2>2 DEF RequestInv, Phase
  <1>8. CASE TakeValue
    <2>1. AtTexts(r)'
      BY <1>3, <1>8, TakeValueKeeps
    <2>2. asked' = asked /\ startup_done' = startup_done
      BY <1>8 DEF TakeValue
    <2> QED
      BY <1>1, <1>2, <1>3, <2>1, <2>2 DEF RequestInv, Phase
  <1>9. CASE FinishStartup
    <2>1. AtMessage(r)'
      BY <1>3, <1>9, FinishStartupKeeps
    <2>2. asked' = asked /\ startup_done' = TRUE
      BY <1>9 DEF FinishStartup
    <2> QED
      BY <1>1, <1>3, <2>1, <2>2 DEF RequestInv, Phase
  <1>10. CASE DecodeTagged
    <2>1. AtMessage(r)'
      BY <1>3, <1>10, DecodeTaggedKeeps
    <2>2. asked' = asked /\ startup_done' = startup_done
      BY <1>10 DEF DecodeTagged
    <2> QED
      BY <1>1, <1>2, <1>3, <2>1, <2>2 DEF RequestInv, Phase
  <1> QED
    BY <1>1, <1>4, <1>5, <1>6, <1>7, <1>8, <1>9, <1>10 DEF read

LEMMA ProcessesKeeps ==
  ASSUME RequestInv, NEW kind, Processes(kind), turn' \in {"client", "database", "over"}
  PROVE  RequestInv'
  <1>1. turn = "server" /\ step = "message" /\ ReadAnew
    BY DEF Processes
  <1>2. PICK r \in Untagged \cup Tagged : asked = <<r>> /\ Phase(r)
    BY <1>1 DEF RequestInv
  <1>3. AtMessage(r)
    BY <1>1, <1>2 DEF Phase, AtHeader, AtBody, AtDecode, AtTexts
  <1>4. Resting' /\ understood' = <<Meant(r)>> /\ asked' = <<r>> /\ startup_done' = startup_done
    BY <1>1, <1>2, <1>3 DEF ReadAnew, AtMessage, Resting, Fresh
  <1>5. turn' # "server" /\ startup_done \in BOOLEAN
    BY DEF RequestInv
  <1> QED
    BY <1>4, <1>5 DEF RequestInv

LEMMA DatabaseKeeps ==
  ASSUME RequestInv, turn = "database", turn' \in {"client", "database", "over"},
         UNCHANGED requestVars
  PROVE  RequestInv'
  <1>1. PICK r \in Untagged \cup Tagged :
            asked = <<r>> /\ Resting /\ understood = <<Meant(r)>>
    BY DEF RequestInv
  <1>2. Resting' /\ understood' = understood /\ asked' = asked /\ startup_done' = startup_done
    BY <1>1 DEF Resting, Fresh, requestVars, readVars
  <1>3. turn' # "server" /\ startup_done \in BOOLEAN
    BY DEF RequestInv
  <1> QED
    BY <1>1, <1>2, <1>3 DEF RequestInv

LEMMA StutterKeeps == ASSUME RequestInv, UNCHANGED vars PROVE RequestInv'
  <1>1. UNCHANGED <<turn, wire, asked, understood, startup_done, step, tag, length, body, pos,
                    start, key, message>>
    BY DEF vars, requestVars, readVars
  <1>2. /\ turn' = turn /\ asked' = asked /\ understood' = understood
        /\ startup_done' = startup_done /\ Resting' = Resting
    BY <1>1 DEF Resting, Fresh
  <1>3. ASSUME NEW r PROVE Phase(r)' <=> Phase(r)
    <2>1. AtHeader(r)' <=> AtHeader(r)
      BY <1>1 DEF AtHeader, Fresh
    <2>2. AtBody(r)' <=> AtBody(r)
      BY <1>1 DEF AtBody
    <2>3. AtDecode(r)' <=> AtDecode(r)
      BY <1>1 DEF AtDecode
    <2>4. AtTexts(r)' <=> AtTexts(r)
      <3>1. ASSUME NEW u, NEW n PROVE Taken(u, r.params, n)' <=> Taken(u, r.params, n)
        BY <1>1 DEF Taken
      <3> QED
        BY <1>1, <3>1 DEF AtTexts
    <2>5. AtMessage(r)' <=> AtMessage(r)
      BY <1>1 DEF AtMessage
    <2> QED
      BY <2>1, <2>2, <2>3, <2>4, <2>5 DEF Phase
  <1> QED
    BY <1>2, <1>3 DEF RequestInv

LEMMA RequestInvInductive == RequestInv /\ [Next]_vars => RequestInv'
  <1> SUFFICES ASSUME RequestInv, [Next]_vars PROVE RequestInv'
    OBVIOUS
  <1>1. CASE UNCHANGED vars
    BY <1>1, StutterKeeps
  <1>2. ASSUME NEW r \in Untagged \cup Tagged, Ask(r) PROVE RequestInv'
    BY <1>2, AskKeepsRequest
  <1>3. CASE ReadRequest
    BY <1>3, ReadRequestKeeps
  <1>4. CASE Greet \/ RefuseSSL \/ Leave \/ Ignore \/ ParseFails \/ Parse
    BY <1>4, ProcessesKeeps DEF Greet, RefuseSSL, Leave, Ignore, ParseFails, Parse
  <1>5. CASE Describe \/ ExecFails \/ WriteRows \/ ExecThrows \/ Complete
    <2>1. turn = "database" /\ turn' \in {"client", "database", "over"} /\ UNCHANGED requestVars
      BY <1>5 DEF Describe, ExecFails, WriteRows, ExecThrows, Complete, Database
    <2> QED
      BY <2>1, DatabaseKeeps
  <1> QED
    BY <1>1, <1>2, <1>3, <1>4, <1>5 DEF Next

LEMMA RequestInvHolds == Spec => []RequestInv
  <1>1. Init => RequestInv
    BY DEF Init, RequestsInit, RequestInv, Resting, Fresh
  <1> QED
    BY <1>1, RequestInvInductive, PTL DEF Spec

\* Whatever was asked, the invariant says of it what ServerUnderstands does.
LEMMA Understands == RequestInv => ServerUnderstands
  <1> SUFFICES ASSUME RequestInv PROVE ServerUnderstands
    OBVIOUS
  <1> USE DEF ServerUnderstands
  <1>1. CASE asked = <<>> /\ understood = <<>> /\ Resting
    BY <1>1 DEF Resting
  <1>2. ASSUME NEW r \in Untagged \cup Tagged, asked = <<r>>,
               Resting, understood = <<Meant(r)>>
        PROVE  ServerUnderstands
    BY <1>2 DEF Resting
  <1>3. ASSUME NEW r \in Untagged \cup Tagged, asked = <<r>>, understood = <<>>, ~Starved
        PROVE  ServerUnderstands
    BY <1>3
  <1>4. ASSUME NEW r \in Untagged \cup Tagged, asked = <<r>>, Phase(r) PROVE ServerUnderstands
    <2>1. CASE AtHeader(r)
      <3>1. startup_done => size(Packet(r)) >= 5
        BY <2>1, TaggedPacket DEF AtHeader
      <3>2. ~startup_done => size(Packet(r)) >= 4
        BY <2>1, UntaggedPacket DEF AtHeader
      <3>3. Packet(r) \in Buffers /\ size(Packet(r)) \in Nat
        BY UntaggedPacket, TaggedPacket, SizeType
      <3>4. ~Starved
        BY <2>1, <3>1, <3>2, <3>3 DEF AtHeader, Starved, HeaderSize
      <3> QED
        BY <1>3, <1>4, <2>1, <3>4 DEF AtHeader
    <2>2. CASE AtBody(r)
      <3>1. size(PacketBody(r)) \in Nat
        BY BodyType, SizeType
      <3>2. ~Starved
        BY <2>2, <3>1 DEF AtBody, Starved
      <3> QED
        BY <1>3, <1>4, <2>2, <3>2 DEF AtBody
    <2>3. CASE AtDecode(r)
      BY <1>3, <1>4, <2>3 DEF AtDecode, Starved
    <2>4. CASE AtTexts(r)
      BY <1>3, <1>4, <2>4 DEF AtTexts, Starved
    <2>5. CASE AtMessage(r)
      <3>1. ~Starved /\ understood = <<Meant(r)>>
        BY <2>5 DEF AtMessage, Starved
      <3> QED
        BY <1>4, <3>1
    <2> QED
      BY <1>4, <2>1, <2>2, <2>3, <2>4, <2>5 DEF Phase
  <1> QED
    BY <1>1, <1>2, <1>4 DEF RequestInv

\* Whatever a client sends within the protocol, in as many parameters and of
\* whatever lengths, Session::read, read_startup and the decode methods understand
\* as it was meant, once, and leave nothing of it on the wire.
THEOREM ServerUnderstandsHolds == Spec => []ServerUnderstands
  BY RequestInvHolds, Understands, PTL

\* Between the texts of a start-up packet.
LEMMA WithinTexts ==
  ASSUME NEW r \in Untagged \cup Tagged, AtTexts(r)
  PROVE  pos \in Nat /\ start \in Nat /\ pos + start <= size(body) /\ key \in Texts \cup {NoKey}
  <1>0. size(body) \in Nat
    BY BodyType, SizeType DEF AtTexts
  <1>1. r.params \in Params /\ Len(r.params) \in Nat /\ pos = 4
    BY TextsIs, ParamsType DEF AtTexts
  <1>2. PICK u : TextsLie(body, u, r.params)
                 /\ \E n \in 0..Len(r.params) : Taken(u, r.params, n)
    BY TextsIs
  <1>3. PICK n \in 0..Len(r.params) : Taken(u, r.params, n)
    BY <1>2
  <1>4. CASE n < Len(r.params)
    <2>1. /\ TextAt(body, size(u[n]), r.params[n + 1].name)
          /\ TextAt(body, size(u[n]) + (TextLen[r.params[n + 1].name] + 1),
                    r.params[n + 1].value)
          /\ r.params[n + 1].name \in Texts
      BY <1>1, <1>2, <1>4, ParamLies
    <2>2. \/ start = size(u[n])
          \/ start = size(u[n]) + (TextLen[r.params[n + 1].name] + 1)
      BY <1>3, <1>4 DEF Taken
    <2>3. 4 + start < size(body)
      BY <2>1, <2>2 DEF TextAt
    <2>4. start \in Nat
      <3>1. size(u[n]) \in Nat /\ TextLen[r.params[n + 1].name] \in Nat
        BY <1>2, <2>1, StringIs DEF TextsLie
      <3> QED
        BY <2>2, <3>1
    <2>5. key \in Texts \cup {NoKey}
      BY <1>3, <1>4, <2>1 DEF Taken
    <2> QED
      BY <1>0, <1>1, <2>3, <2>4, <2>5
  <1>5. CASE n = Len(r.params)
    <2>1. size(u[n]) \in Nat /\ TextLen[NoText] \in Nat
      BY <1>2, TextTypes, StringIs DEF TextsLie
    <2>2. size(body) = 4 + size(u[n]) + (TextLen[NoText] + 1)
      BY <1>2, <1>5 DEF TextsLie
    <2>3. /\ start = size(u[n]) \/ start = size(u[n]) + (TextLen[NoText] + 1)
          /\ key \in {NoKey, NoText}
      BY <1>1, <1>3, <1>5 DEF Taken
    <2> DEFINE a == size(u[n])
               l == TextLen[NoText]
    <2>4. /\ a \in Nat /\ l \in Nat /\ size(body) = 4 + a + (l + 1) /\ pos = 4
          /\ start = a \/ start = a + (l + 1)
      BY <1>1, <2>1, <2>2, <2>3
    <2> HIDE DEF a, l
    <2>5. pos \in Nat /\ start \in Nat /\ pos + start <= size(body)
      BY <2>4
    <2> QED
      BY <2>3, <2>5, TextTypes
  <1> QED
    BY <1>1, <1>4, <1>5

LEMMA StaysWithin == RequestInv => ReadsWithinBody
  <1> SUFFICES ASSUME RequestInv PROVE pos + start <= size(body)
    BY DEF ReadsWithinBody
  <1>1. CASE Resting
    BY <1>1, SizeEmpty DEF Resting, Fresh
  <1>2. ASSUME NEW r \in Untagged \cup Tagged, Phase(r) PROVE pos + start <= size(body)
    <2>0. size(PacketBody(r)) \in Nat
      BY BodyType, SizeType
    <2>1. CASE AtHeader(r)
      BY <2>1, SizeEmpty DEF AtHeader, Fresh
    <2>2. CASE AtBody(r)
      BY <2>2, SizeEmpty DEF AtBody
    <2>3. CASE AtDecode(r)
      BY <2>0, <2>3 DEF AtDecode
    <2>4. CASE AtTexts(r)
      BY <2>4, WithinTexts
    <2>5. CASE AtMessage(r)
      BY <2>5 DEF AtMessage
    <2> QED
      BY <1>2, <2>1, <2>2, <2>3, <2>4, <2>5 DEF Phase
  <1> QED
    BY <1>1, <1>2 DEF RequestInv

\* No get_numeric or get_string reads beyond the body of a request within the
\* protocol.
THEOREM ReadsWithinBodyHolds == Spec => []ReadsWithinBody
  BY RequestInvHolds, StaysWithin, PTL

\* What the invariant says of the types.
LEMMA RequestTypes == RequestInv => RequestsTypeOK
  <1> SUFFICES ASSUME RequestInv PROVE RequestsTypeOK
    OBVIOUS
  <1>1. startup_done \in BOOLEAN
    BY DEF RequestInv
  <1>2. CASE asked = <<>> /\ Resting
    BY <1>1, <1>2 DEF Resting, Fresh, RequestsTypeOK
  <1>3. ASSUME NEW r \in Untagged \cup Tagged, asked = <<r>>, Resting PROVE RequestsTypeOK
    <2>1. asked \in [1..1 -> Untagged \cup Tagged]
      BY <1>3
    <2> QED
      BY <1>1, <1>3, <2>1 DEF Resting, Fresh, RequestsTypeOK
  <1>4. ASSUME NEW r \in Untagged \cup Tagged, asked = <<r>>, Phase(r) PROVE RequestsTypeOK
    <2>1. asked \in [1..1 -> Untagged \cup Tagged]
      BY <1>4
    <2>2. size(PacketBody(r)) \in Nat
      BY BodyType, SizeType
    <2>3. TagOf(r) \in {"none", "Q", "X", "P"}
      BY DEF TagOf, PacketTag
    <2>4. CASE AtHeader(r)
      BY <1>1, <2>1, <2>4 DEF AtHeader, Fresh, RequestsTypeOK
    <2>5. CASE AtBody(r)
      BY <1>1, <2>1, <2>2, <2>3, <2>5 DEF AtBody, RequestsTypeOK
    <2>6. CASE AtDecode(r)
      BY <1>1, <2>1, <2>2, <2>3, <2>6 DEF AtDecode, RequestsTypeOK
    <2>7. CASE AtTexts(r)
      BY <1>1, <2>1, <2>2, <2>7, WithinTexts DEF AtTexts, RequestsTypeOK
    <2>8. CASE AtMessage(r)
      BY <1>1, <2>1, <2>2, <2>3, <2>8 DEF AtMessage, RequestsTypeOK
    <2> QED
      BY <1>4, <2>4, <2>5, <2>6, <2>7, <2>8 DEF Phase
  <1> QED
    BY <1>2, <1>3, <1>4 DEF RequestInv

-----------------------------------------------------------------------------
(***************************************************************************)
(* The rows: each has the columns that were described                      *)
(***************************************************************************)
Oids == {g_typemap[t] : t \in DOMAIN g_typemap}

\* The messages that DataRow makes of rows.
RowMessages == {DataRow(cells, n) : cells \in Seq(Values), n \in Nat}

Shapes ==
    /\ column_types \in Seq(Types)
    /\ pc \in {"idle", "describe", "execute", "row", "done", "failed"}
    /\ i \in 0..Len(column_types)
    /\ fields \in Seq([name : Texts, oid : Oids])
    /\ num_rows \in Nat
    /\ data \in Seq(RowMessages)
    /\ row \in Seq(Values)
    /\ current_col = Len(row)

\* g lays out the fields over the first n columns.
Lays(g, n) ==
    /\ \A k \in 1..Len(fields) : g[k] \in 1..n
    /\ \A k, l \in 1..Len(fields) : k < l => g[k] < g[l]
    /\ \A k \in 1..Len(fields) :
           Mapped(column_types[g[k]]) /\ fields[k].oid = g_typemap[column_types[g[k]]]
    /\ \A j \in 1..n : Mapped(column_types[j]) => \E k \in 1..Len(fields) : g[k] = j

\* The row has the values of the columns up to i.
Follows(g) ==
    /\ Len(row) <= Len(fields)
    /\ \A k \in 1..Len(fields) : k <= Len(row) <=> g[k] <= i

Fits(v, field) == v = Null \/ v.method = method_of[field.oid]

RowFits == \A k \in 1..Len(row) : Fits(row[k], fields[k])

SentFit ==
    \A r \in 1..Len(data) :
        /\ data[r].cols = int16(Len(fields))
        /\ Len(data[r].cells) = Len(fields)
        /\ \A k \in 1..Len(fields) : Fits(data[r].cells[k], fields[k])

RowsInv ==
    /\ Shapes
    /\ pc = "idle" => RowsInit
    /\ pc = "describe" =>
           /\ \E g \in [1..Len(fields) -> Nat] : Lays(g, i)
           /\ data = <<>> /\ num_rows = 0
    /\ pc = "execute" => \E g \in [1..Len(fields) -> Nat] : Lays(g, Len(column_types))
    /\ pc = "row" =>
           /\ \E g \in [1..Len(fields) -> Nat] : Lays(g, Len(column_types)) /\ Follows(g)
           /\ RowFits
           /\ num_rows = Len(data) + 1
    /\ pc \in {"execute", "row", "done"} => SentFit
    /\ pc \in {"execute", "done"} => num_rows = Len(data)

-----------------------------------------------------------------------------
(***************************************************************************)
(* The tables, and the record DataRow                                      *)
(***************************************************************************)
\* Each type with an Oid has a case in the switch, and the method that the Oid
\* calls for.
LEMMA TablesAgree ==
  \A t \in DOMAIN g_typemap :
      t \in DOMAIN write_method /\ method_of[g_typemap[t]] = write_method[t]
  BY DEF g_typemap, write_method, method_of

LEMMA DataRowIs ==
  ASSUME NEW cells, NEW n
  PROVE  DataRow(cells, n).cols = int16(n) /\ DataRow(cells, n).cells = cells
  BY DEF DataRow

LEMMA DataRowType ==
  ASSUME NEW cells \in Seq(Values), NEW n \in Nat
  PROVE  DataRow(cells, n) \in RowMessages
  BY DEF RowMessages

-----------------------------------------------------------------------------
(***************************************************************************)
(* Describing the columns                                                  *)
(***************************************************************************)
LEMMA ForgetKeeps == ASSUME ForgetRows PROVE RowsInv'
  BY DEF ForgetRows, RowsInv, Shapes, RowsInit

LEMMA PrepareKeeps == ASSUME RowsInv, pc = "idle", Prepare PROVE RowsInv'
  <1>1. PICK n \in 0..MaxCols : column_types' \in [1..n -> Types]
    BY DEF Prepare
  <1>2. column_types' \in Seq(Types)
    BY <1>1, RowsAssumption
  <1>3. /\ pc' = "describe" /\ i' = 0 /\ fields' = <<>> /\ num_rows' = 0 /\ data' = <<>>
        /\ row' = <<>> /\ current_col' = 0
    BY DEF Prepare, RowsInv, RowsInit
  <1>4. Shapes'
    BY <1>2, <1>3 DEF Shapes
  <1>5. \E g \in [1..Len(fields') -> Nat] : Lays(g, i)'
    <2>1. Len(fields') = 0
      BY <1>3
    <2>2. [k \in 1..0 |-> 0] \in [1..Len(fields') -> Nat]
      BY <2>1
    <2>3. Lays([k \in 1..0 |-> 0], i)'
      BY <1>3, <2>1 DEF Lays
    <2> QED
      BY <2>2, <2>3
  <1> QED
    BY <1>3, <1>4, <1>5 DEF RowsInv

LEMMA DescribeColumnKeeps == ASSUME RowsInv, DescribeColumn PROVE RowsInv'
  <1> USE DEF Column
  <1>0. Shapes /\ pc = "describe" /\ i < Len(column_types) /\ i' = i + 1
    BY DEF RowsInv, DescribeColumn
  <1>1. PICK g \in [1..Len(fields) -> Nat] : Lays(g, i)
    BY <1>0 DEF RowsInv
  <1>2. column_types[i + 1] \in Types
    BY <1>0 DEF Shapes
  <1>a. /\ Len(fields) \in Nat /\ i \in Nat /\ Len(column_types) \in Nat
        /\ column_types' = column_types
    BY <1>0 DEF Shapes, DescribeColumn
  <1>b. \A k \in 1..Len(fields) : g[k] \in 1..i
    BY <1>1 DEF Lays
  <1>3. CASE Mapped(Column)
    <2> DEFINE f == Field(g_typemap[Column])
    <2>1. f \in [name : Texts, oid : Oids] /\ f.oid = g_typemap[Column]
      <3>1. g_typemap[Column] \in Oids
        BY <1>3 DEF Oids, Mapped
      <3>2. NameOf[Column] \in Texts
        BY <1>2, RowsAssumption
      <3> QED
        BY <3>1, <3>2 DEF Field
    <2>a. fields' = Append(fields, f)
      BY <1>3 DEF DescribeColumn
    <2> HIDE DEF f
    <2>2. /\ Len(fields') = Len(fields) + 1
          /\ \A k \in 1..Len(fields) : fields'[k] = fields[k]
          /\ fields'[Len(fields) + 1].oid = g_typemap[Column]
          /\ fields' \in Seq([name : Texts, oid : Oids])
      BY <1>0, <2>1, <2>a DEF Shapes
    <2>3. Shapes'
      BY <1>0, <2>2 DEF Shapes, DescribeColumn
    <2>4. PICK h \in [1..Len(fields') -> Nat] :
              /\ \A k \in 1..Len(fields) : h[k] = g[k]
              /\ h[Len(fields) + 1] = i + 1
              /\ \A k \in 1..Len(fields') : h[k] \in 1..i'
      <3> DEFINE d == [k \in 1..Len(fields') |-> IF k <= Len(fields) THEN g[k] ELSE i + 1]
      <3>1. /\ d \in [1..Len(fields') -> Nat]
            /\ \A k \in 1..Len(fields) : d[k] = g[k]
            /\ d[Len(fields) + 1] = i + 1
            /\ \A k \in 1..Len(fields') : d[k] \in 1..i'
        BY <1>0, <1>a, <1>b, <2>2
      <3> QED
        BY <3>1
    <2>b. \A k \in 1..Len(fields') : k \in 1..Len(fields) \/ k = Len(fields) + 1
      BY <1>a, <2>2
    <2>5. Lays(h, i)'
      <3>2. ASSUME NEW k \in 1..Len(fields'), NEW l \in 1..Len(fields'), k < l
            PROVE  h[k] < h[l]
        <4>1. k \in 1..Len(fields) /\ h[k] = g[k]
          BY <1>a, <2>2, <2>4, <3>2
        <4>2. CASE l \in 1..Len(fields)
          BY <1>1, <2>4, <3>2, <4>1, <4>2 DEF Lays
        <4>3. CASE l = Len(fields) + 1
          BY <1>a, <1>b, <2>4, <4>1, <4>3
        <4> QED
          BY <2>b, <4>2, <4>3
      <3>3. ASSUME NEW k \in 1..Len(fields')
            PROVE  /\ Mapped(column_types'[h[k]])
                   /\ fields'[k].oid = g_typemap[column_types'[h[k]]]
        <4>1. CASE k \in 1..Len(fields)
          BY <1>1, <1>a, <2>2, <2>4, <4>1 DEF Lays
        <4>2. CASE k = Len(fields) + 1
          BY <1>3, <1>a, <2>2, <2>4, <4>2
        <4> QED
          BY <2>b, <4>1, <4>2
      <3>4. ASSUME NEW j \in 1..i', Mapped(column_types'[j])
            PROVE  \E k \in 1..Len(fields') : h[k] = j
        <4>1. CASE j \in 1..i
          <5>1. PICK k \in 1..Len(fields) : g[k] = j
            BY <1>1, <1>a, <3>4, <4>1 DEF Lays
          <5> QED
            BY <1>a, <2>2, <2>4, <5>1
        <4>2. CASE j = i + 1
          BY <1>a, <2>2, <2>4, <4>2
        <4>3. j \in 1..i \/ j = i + 1
          <5>1. j \in 1..i + 1
            BY <1>0
          <5> QED
            BY <1>a, <5>1
        <4> QED
          BY <4>1, <4>2, <4>3
      <3> QED
        BY <2>4, <3>2, <3>3, <3>4 DEF Lays
    <2>6. data' = data /\ num_rows' = num_rows /\ pc' = pc
      BY DEF DescribeColumn
    <2>7. \E d \in [1..Len(fields') -> Nat] : Lays(d, i)'
      BY <2>4, <2>5
    <2> QED
      BY <1>0, <2>3, <2>6, <2>7 DEF RowsInv
  <1>4. CASE ~Mapped(Column)
    <2>1. fields' = fields
      BY <1>4 DEF DescribeColumn
    <2>2. Shapes'
      BY <1>0, <2>1 DEF Shapes, DescribeColumn
    <2>3. Lays(g, i)'
      <3>1. \A k \in 1..Len(fields) : g[k] \in 1..i + 1
        BY <1>a, <1>b
      <3>2. ASSUME NEW j \in 1..i + 1, Mapped(column_types[j])
            PROVE  \E k \in 1..Len(fields) : g[k] = j
        <4>1. j # i + 1
          BY <1>4, <3>2
        <4>2. j \in 1..i
          BY <1>a, <4>1
        <4> QED
          BY <1>1, <3>2, <4>2 DEF Lays
      <3> QED
        BY <1>0, <1>1, <1>a, <2>1, <3>1, <3>2 DEF Lays
    <2>4. data' = data /\ num_rows' = num_rows /\ pc' = pc
      BY DEF DescribeColumn
    <2>5. \E d \in [1..Len(fields') -> Nat] : Lays(d, i)'
      BY <2>1, <2>3
    <2> QED
      BY <1>0, <2>2, <2>4, <2>5 DEF RowsInv
  <1> QED
    BY <1>3, <1>4

LEMMA DescribedKeeps == ASSUME RowsInv, Described PROVE RowsInv'
  <1>0. Shapes /\ pc = "describe" /\ i = Len(column_types) /\ pc' = "execute"
    BY DEF RowsInv, Described
  <1>1. Shapes'
    BY <1>0 DEF Shapes, Described
  <1>2. PICK g \in [1..Len(fields) -> Nat] : Lays(g, i)
    BY <1>0 DEF RowsInv
  <1>3. Lays(g, Len(column_types))'
    BY <1>0, <1>2 DEF Lays, Described
  <1>4. g \in [1..Len(fields') -> Nat]
    BY DEF Described
  <1>5. data' = <<>> /\ num_rows' = 0
    BY <1>0 DEF RowsInv, Described
  <1>6. SentFit' /\ num_rows' = Len(data')
    BY <1>5 DEF SentFit
  <1> QED
    BY <1>0, <1>1, <1>3, <1>4, <1>6 DEF RowsInv

-----------------------------------------------------------------------------
(***************************************************************************)
(* Writing the rows                                                        *)
(***************************************************************************)
LEMMA AddRowKeeps == ASSUME RowsInv, add_row PROVE RowsInv'
  <1>0. /\ pc = "execute" /\ pc' = "row" /\ i' = 0 /\ row' = <<>> /\ current_col' = 0
        /\ num_rows' = num_rows + 1
        /\ column_types' = column_types /\ fields' = fields /\ data' = data
    BY DEF add_row
  <1>1. PICK g \in [1..Len(fields) -> Nat] : Lays(g, Len(column_types))
    BY <1>0 DEF RowsInv
  <1>2. Shapes /\ Len(fields) \in Nat /\ Len(column_types) \in Nat
    BY DEF RowsInv, Shapes
  <1>3. Shapes'
    BY <1>0, <1>2 DEF Shapes
  <1>4. Lays(g, Len(column_types))'
    BY <1>0, <1>1 DEF Lays
  <1>5. Follows(g)'
    <2>1. \A k \in 1..Len(fields) : ~(k <= 0) /\ ~(g[k] <= 0)
      BY <1>1, <1>2 DEF Lays
    <2>2. Len(row') = 0
      BY <1>0
    <2> QED
      BY <1>0, <1>2, <2>1, <2>2 DEF Follows
  <1>6. RowFits'
    BY <1>0 DEF RowFits
  <1>7. SentFit' /\ num_rows' = Len(data') + 1
    BY <1>0 DEF RowsInv, SentFit
  <1>8. \E d \in [1..Len(fields') -> Nat] : Lays(d, Len(column_types))' /\ Follows(d)'
    BY <1>0, <1>4, <1>5
  <1> QED
    BY <1>0, <1>3, <1>6, <1>7, <1>8 DEF RowsInv

\* The value of a column with an Oid goes where its field is.
LEMMA WriteKeeps ==
  ASSUME RowsInv, pc = "row", i < Len(column_types), i' = i + 1,
         NEW v \in Values, write_value(v),
         Mapped(Column), v = Null \/ v.method = write_method[Column],
         UNCHANGED <<column_types, pc, fields, num_rows, data>>
  PROVE  RowsInv'
  <1> USE DEF Column
  <1>0. Shapes /\ RowFits /\ SentFit /\ num_rows = Len(data) + 1
    BY DEF RowsInv
  <1>a. /\ Len(fields) \in Nat /\ Len(row) \in Nat /\ i \in Nat
        /\ Len(column_types) \in Nat
    BY <1>0 DEF Shapes
  <1>1. PICK g \in [1..Len(fields) -> Nat] : Lays(g, Len(column_types)) /\ Follows(g)
    BY DEF RowsInv
  <1>b. \A k \in 1..Len(fields) : g[k] \in Nat
    BY <1>1
  <1>2. /\ Len(row') = Len(row) + 1 /\ row' \in Seq(Values)
        /\ \A k \in 1..Len(row) : row'[k] = row[k]
        /\ row'[Len(row) + 1] = v
    BY <1>0 DEF Shapes, write_value
  <1>3. Shapes'
    BY <1>0, <1>a, <1>2 DEF Shapes, write_value
  <1>4. PICK k \in 1..Len(fields) : g[k] = i + 1
    <2>1. i + 1 \in 1..Len(column_types)
      BY <1>a
    <2> QED
      BY <1>1, <2>1 DEF Lays
  <1>5. k = Len(row) + 1
    <2>1. ~(k <= Len(row))
      <3>1. ~(g[k] <= i)
        BY <1>a, <1>4
      <3> QED
        BY <1>1, <3>1 DEF Follows
    <2>2. CASE k = 1
      BY <1>a, <2>1, <2>2
    <2>3. CASE k > 1
      <3>1. k - 1 \in 1..Len(fields) /\ k - 1 < k
        <4>1. k \in Nat /\ k <= Len(fields)
          BY <1>a
        <4> QED
          BY <1>a, <2>3, <4>1
      <3>2. g[k - 1] < g[k]
        BY <1>1, <3>1 DEF Lays
      <3>3. g[k - 1] <= i
        BY <1>a, <1>b, <1>4, <3>1, <3>2
      <3>4. k - 1 <= Len(row)
        BY <1>1, <3>1, <3>3 DEF Follows
      <3> QED
        BY <1>a, <2>1, <3>4
    <2>4. k = 1 \/ k > 1
      BY <1>a
    <2> QED
      BY <2>2, <2>3, <2>4
  <1>6. Lays(g, Len(column_types))'
    BY <1>1 DEF Lays
  <1>7. Follows(g)'
    <2>1. ASSUME NEW l \in 1..Len(fields)
          PROVE  l <= Len(row') <=> g[l] <= i'
      <3>1. l <= Len(row) <=> g[l] <= i
        BY <1>1 DEF Follows
      <3>2. CASE l < k
        BY <1>a, <1>b, <1>2, <1>5, <3>1, <3>2
      <3>3. CASE l = k
        BY <1>a, <1>2, <1>4, <1>5, <3>3
      <3>4. CASE k < l
        <4>1. g[k] < g[l]
          BY <1>1, <3>4 DEF Lays
        <4> QED
          BY <1>a, <1>b, <1>2, <1>4, <1>5, <3>4, <4>1
      <3>5. l < k \/ l = k \/ k < l
        BY <1>a
      <3> QED
        BY <3>2, <3>3, <3>4, <3>5
    <2>2. Len(row') <= Len(fields)
      BY <1>a, <1>2, <1>5
    <2> QED
      BY <2>1, <2>2 DEF Follows
  <1>8. RowFits'
    <2>1. Fits(v, fields[Len(row) + 1])
      <3>1. fields[k].oid = g_typemap[column_types[i + 1]]
        BY <1>1, <1>4 DEF Lays
      <3>2. method_of[fields[k].oid] = write_method[column_types[i + 1]]
        BY <3>1, TablesAgree DEF Mapped
      <3> QED
        BY <1>5, <3>2 DEF Fits
    <2>2. ASSUME NEW l \in 1..Len(row')
          PROVE  Fits(row'[l], fields[l])
      <3>1. l \in 1..Len(row) \/ l = Len(row) + 1
        BY <1>a, <1>2
      <3>2. CASE l \in 1..Len(row)
        BY <1>0, <1>2, <3>2 DEF RowFits
      <3> QED
        BY <1>2, <2>1, <3>1, <3>2
    <2> QED
      BY <2>2 DEF RowFits, Fits
  <1>9. SentFit' /\ num_rows' = Len(data') + 1
    BY <1>0 DEF SentFit, Fits
  <1>10. \E d \in [1..Len(fields') -> Nat] : Lays(d, Len(column_types))' /\ Follows(d)'
    BY <1>6, <1>7
  <1> QED
    BY <1>3, <1>8, <1>9, <1>10 DEF RowsInv

LEMMA WriteNullKeeps == ASSUME RowsInv, WriteNull PROVE RowsInv'
  BY WriteKeeps DEF WriteNull, Values

LEMMA WriteValueKeeps == ASSUME RowsInv, WriteValue PROVE RowsInv'
  <1>1. Mapped(Column) /\ Column \in DOMAIN write_method
    BY TablesAgree DEF WriteValue, Mapped
  <1>2. PICK n \in Lengths :
            write_value([method |-> write_method[Column], size |-> n])
    BY <1>1 DEF WriteValue
  <1>3. [method |-> write_method[Column], size |-> n] \in Values
    BY <1>1 DEF Values, Methods
  <1> QED
    BY <1>1, <1>2, <1>3, WriteKeeps DEF WriteValue

LEMMA SkipKeeps == ASSUME RowsInv, SkipColumn PROVE RowsInv'
  <1> USE DEF Column
  <1>0. /\ pc = "row" /\ ~Mapped(column_types[i + 1]) /\ i < Len(column_types) /\ i' = i + 1
        /\ UNCHANGED <<column_types, pc, fields, num_rows, data, current_col, row>>
    BY DEF SkipColumn
  <1>a. Shapes /\ RowFits /\ SentFit /\ num_rows = Len(data) + 1
    BY <1>0 DEF RowsInv
  <1>b. i \in Nat /\ Len(column_types) \in Nat
    BY <1>a DEF Shapes
  <1>1. PICK g \in [1..Len(fields) -> Nat] : Lays(g, Len(column_types)) /\ Follows(g)
    BY <1>0 DEF RowsInv
  <1>2. Shapes'
    BY <1>0, <1>a, <1>b DEF Shapes
  <1>3. Lays(g, Len(column_types))'
    BY <1>0, <1>1 DEF Lays
  <1>4. Follows(g)'
    <2>1. \A k \in 1..Len(fields) : g[k] # i + 1
      BY <1>0, <1>1 DEF Lays
    <2>2. \A k \in 1..Len(fields) : g[k] <= i + 1 <=> g[k] <= i
      BY <1>b, <1>1, <2>1
    <2> QED
      BY <1>0, <1>1, <2>2 DEF Follows
  <1>5. RowFits' /\ SentFit' /\ num_rows' = Len(data') + 1
    BY <1>0, <1>a DEF RowFits, SentFit, Fits
  <1>6. \E d \in [1..Len(fields') -> Nat] : Lays(d, Len(column_types))' /\ Follows(d)'
    BY <1>0, <1>3, <1>4
  <1> QED
    BY <1>0, <1>2, <1>5, <1>6 DEF RowsInv

LEMMA EndRowKeeps == ASSUME RowsInv, EndRow PROVE RowsInv'
  <1>1. PICK g \in [1..Len(fields) -> Nat] : Lays(g, Len(column_types)) /\ Follows(g)
    BY DEF RowsInv, EndRow
  <1>2. Len(row) = Len(fields)
    <2>1. i = Len(column_types) /\ Len(fields) \in Nat /\ Len(row) \in Nat
          /\ Len(column_types) \in Nat
      BY DEF EndRow, RowsInv, Shapes
    <2>2. \A k \in 1..Len(fields) : g[k] <= i
      BY <1>1, <2>1 DEF Lays
    <2>3. \A k \in 1..Len(fields) : k <= Len(row)
      BY <1>1, <2>2 DEF Follows
    <2>4. Len(row) <= Len(fields)
      BY <1>1 DEF Follows
    <2> QED
      BY <2>1, <2>3, <2>4
  <1> DEFINE m == DataRow(row, current_col)
  <1>3. m \in RowMessages /\ m.cols = int16(Len(fields)) /\ m.cells = row
    BY <1>2, DataRowIs, DataRowType DEF RowsInv, Shapes
  <1>4. data' = Append(data, m)
    BY DEF EndRow, RowWriterDtor
  <1> HIDE DEF m
  <1>5. /\ data' \in Seq(RowMessages) /\ Len(data') = Len(data) + 1
        /\ \A r \in 1..Len(data) : data'[r] = data[r]
        /\ data'[Len(data) + 1] = m
    BY <1>3, <1>4 DEF RowsInv, Shapes
  <1>6. Shapes'
    BY <1>5 DEF RowsInv, Shapes, EndRow
  <1>7. Lays(g, Len(column_types))'
    BY <1>1 DEF Lays, EndRow
  <1>8. SentFit'
    <2> SUFFICES ASSUME NEW r \in 1..Len(data')
                 PROVE  /\ data'[r].cols = int16(Len(fields))
                        /\ Len(data'[r].cells) = Len(fields)
                        /\ \A k \in 1..Len(fields) : Fits(data'[r].cells[k], fields[k])
      BY DEF SentFit, EndRow, Fits
    <2>1. CASE r \in 1..Len(data)
      BY <1>5, <2>1 DEF RowsInv, SentFit, EndRow
    <2>2. CASE r = Len(data) + 1
      BY <1>2, <1>3, <1>5, <2>2 DEF RowsInv, RowFits, EndRow
    <2> QED
      BY <1>5, <2>1, <2>2 DEF RowsInv, Shapes
  <1>9. num_rows' = Len(data')
    BY <1>5 DEF RowsInv, EndRow
  <1> QED
    BY <1>6, <1>7, <1>8, <1>9 DEF RowsInv, EndRow

LEMMA ThrowKeeps == ASSUME RowsInv, Throw PROVE RowsInv'
  <1> DEFINE m == DataRow(row, current_col)
  <1>1. m \in RowMessages
    BY DataRowType DEF RowsInv, Shapes
  <1>2. data' = Append(data, m)
    BY DEF Throw, RowWriterDtor
  <1> HIDE DEF m
  <1>3. data' \in Seq(RowMessages)
    BY <1>1, <1>2 DEF RowsInv, Shapes
  <1> QED
    BY <1>3 DEF RowsInv, Shapes, Throw

LEMMA ReturnKeeps == ASSUME RowsInv, Return PROVE RowsInv'
  <1>1. Shapes /\ SentFit /\ num_rows = Len(data)
    BY DEF RowsInv, Return
  <1>2. Shapes' /\ SentFit' /\ num_rows' = Len(data') /\ pc' = "done"
    BY <1>1 DEF Return, Shapes, SentFit, Fits
  <1> QED
    BY <1>2 DEF RowsInv

LEMMA UnchangedKeeps == ASSUME RowsInv, UNCHANGED rowsVars PROVE RowsInv'
  <1>1. /\ Shapes' <=> Shapes
        /\ RowsInit' <=> RowsInit
        /\ RowFits' <=> RowFits
        /\ SentFit' <=> SentFit
    BY DEF rowsVars, Shapes, RowsInit, RowFits, SentFit, Fits
  <1>2. ASSUME NEW g
        PROVE  /\ Lays(g, i)' <=> Lays(g, i)
               /\ Lays(g, Len(column_types))' <=> Lays(g, Len(column_types))
               /\ Follows(g)' <=> Follows(g)
    BY DEF rowsVars, Lays, Follows
  <1>3. UNCHANGED <<column_types, pc, i, fields, num_rows, data>>
    BY DEF rowsVars
  <1> QED
    BY <1>1, <1>2, <1>3 DEF RowsInv

-----------------------------------------------------------------------------
(***************************************************************************)
(* The steps of Exchange                                                   *)
(***************************************************************************)
\* A request is read and processed with no statement left from the one before.
Idle == turn = "server" => pc = "idle"

ExchangeInv == RowsInv /\ Idle

LEMMA ExchangeInvInductive == ExchangeInv /\ [Next]_vars => ExchangeInv'
  <1> SUFFICES ASSUME ExchangeInv, [Next]_vars PROVE ExchangeInv'
    OBVIOUS
  <1>0. RowsInv
    BY DEF ExchangeInv
  <1>1. CASE UNCHANGED vars
    <2>1. UNCHANGED rowsVars /\ UNCHANGED <<turn, pc>>
      BY <1>1 DEF vars, rowsVars
    <2> QED
      BY <1>0, <2>1, UnchangedKeeps DEF ExchangeInv, Idle
  <1>2. ASSUME NEW r \in Untagged \cup Tagged, Ask(r) PROVE ExchangeInv'
    BY <1>2, ForgetKeeps DEF Ask, ForgetRows, ExchangeInv, Idle
  <1>3. CASE ReadRequest
    <2>1. UNCHANGED rowsVars /\ UNCHANGED <<turn, pc>>
      BY <1>3 DEF ReadRequest, rowsVars
    <2> QED
      BY <1>0, <2>1, UnchangedKeeps DEF ExchangeInv, Idle
  <1>4. CASE Greet \/ RefuseSSL \/ Leave \/ Ignore \/ ParseFails
    <2>1. UNCHANGED rowsVars /\ turn' # "server"
      BY <1>4 DEF Greet, RefuseSSL, Leave, Ignore, ParseFails, Processes
    <2> QED
      BY <1>0, <2>1, UnchangedKeeps DEF ExchangeInv, Idle
  <1>5. CASE Parse
    <2>1. Prepare /\ pc = "idle" /\ turn' = "database"
      BY <1>5 DEF Parse, Processes, ExchangeInv, Idle
    <2> QED
      BY <1>0, <2>1, PrepareKeeps DEF ExchangeInv, Idle
  <1>6. CASE Describe \/ ExecThrows \/ Complete
    <2>1. (Described \/ Throw \/ Return) /\ turn' # "server"
      BY <1>6 DEF Describe, ExecThrows, Complete, Database
    <2> QED
      BY <1>0, <2>1, DescribedKeeps, ThrowKeeps, ReturnKeeps DEF ExchangeInv, Idle
  <1>7. CASE ExecFails
    <2>1. UNCHANGED rowsVars /\ turn' # "server"
      BY <1>7 DEF ExecFails
    <2> QED
      BY <1>0, <2>1, UnchangedKeeps DEF ExchangeInv, Idle
  <1>8. CASE WriteRows
    <2>1. /\ DescribeColumn \/ add_row \/ WriteNull \/ WriteValue \/ SkipColumn \/ EndRow
          /\ turn' # "server"
      BY <1>8 DEF WriteRows, Database
    <2> QED
      BY <1>0, <2>1, DescribeColumnKeeps, AddRowKeeps, WriteNullKeeps, WriteValueKeeps,
         SkipKeeps, EndRowKeeps DEF ExchangeInv, Idle
  <1> QED
    BY <1>1, <1>2, <1>3, <1>4, <1>5, <1>6, <1>7, <1>8 DEF Next

LEMMA ExchangeInvHolds == Spec => []ExchangeInv
  <1>1. Init => ExchangeInv
    BY DEF Init, ExchangeInv, Idle, RowsInit, RowsInv, Shapes
  <1> QED
    BY <1>1, ExchangeInvInductive, PTL DEF Spec

\* Every row that is sent has the columns that were described, in their order
\* and of their types, for any mix of column types with and without an Oid.
THEOREM RowsMatchDescriptionHolds == Spec => []RowsMatchDescription
  <1>1. ASSUME ExchangeInv, pc = "done" PROVE RowsMatchDescription
    <2>1. SentFit /\ DOMAIN data = 1..Len(data) /\ DOMAIN fields = 1..Len(fields)
      BY <1>1 DEF ExchangeInv, RowsInv, Shapes
    <2> QED
      BY <2>1 DEF SentFit, Fits, RowsMatchDescription
  <1>2. ExchangeInv => RowsMatchDescription
    BY <1>1 DEF RowsMatchDescription
  <1> QED
    BY <1>2, ExchangeInvHolds, PTL

\* The count that CommandComplete reports is that of the rows that are sent, for
\* any number of them.
THEOREM CountIsRowsHolds == Spec => []CountIsRows
  <1>1. ExchangeInv => CountIsRows
    BY DEF ExchangeInv, RowsInv, CountIsRows
  <1> QED
    BY <1>1, ExchangeInvHolds, PTL

-----------------------------------------------------------------------------
(***************************************************************************)
(* The rows: what was fetched is what is sent                              *)
(***************************************************************************)
\* What is in the writer is what DuckDB gave, row by row.
SentAreFetched == \A k \in 1..Len(data) : data[k] = DataRow(fetched[k], Len(fetched[k]))

\* The row that is being written is the last one that is fetched.
FetchInv ==
    /\ fetched \in Seq(ProperRows) /\ num_rows \in 0..MaxRows /\ Len(fetched) = num_rows
    /\ pc = "row" => num_rows > 0 /\ row = fetched[num_rows]
    /\ pc \in {"execute", "row", "done"} => SentAreFetched

LEMMA ForgetFetch == ASSUME ForgetRows PROVE FetchInv'
  <1>1. fetched' = <<>> /\ num_rows' = 0 /\ data' = <<>> /\ pc' = "idle"
    BY DEF ForgetRows
  <1>2. MaxRows \in Nat
    BY RowsAssumption
  <1> QED
    BY <1>1, <1>2 DEF FetchInv

\* No row is begun or sent.
LEMMA EmptyFetch ==
  ASSUME FetchInv, fetched' = fetched, num_rows' = num_rows, data' = <<>>, pc' # "row"
  PROVE  FetchInv'
  BY DEF FetchInv, SentAreFetched

LEMMA SameFetch ==
  ASSUME FetchInv, UNCHANGED <<fetched, num_rows, data, row, pc>>
  PROVE  FetchInv'
  BY DEF FetchInv, SentAreFetched

LEMMA AddRowFetch == ASSUME FetchInv, RowsInv, add_row PROVE FetchInv'
  <1>1. /\ pc = "execute" /\ num_rows < MaxRows /\ pc' = "row" /\ num_rows' = num_rows + 1
        /\ row' = <<>> /\ fetched' = Append(fetched, <<>>) /\ data' = data
    BY DEF add_row
  <1>2. /\ fetched \in Seq(ProperRows) /\ num_rows \in Nat /\ Len(fetched) = num_rows
        /\ MaxRows \in Nat /\ Len(data) = num_rows /\ SentAreFetched
    BY <1>1, RowsAssumption DEF FetchInv, RowsInv
  <1>3. <<>> \in ProperRows
    BY DEF ProperRows
  <1>4. /\ fetched' \in Seq(ProperRows) /\ Len(fetched') = num_rows + 1
        /\ fetched'[num_rows + 1] = <<>>
        /\ \A k \in 1..num_rows : fetched'[k] = fetched[k]
    BY <1>1, <1>2, <1>3
  <1>5. SentAreFetched'
    BY <1>1, <1>2, <1>4 DEF SentAreFetched
  <1> QED
    BY <1>1, <1>2, <1>4, <1>5 DEF FetchInv

LEMMA ValueFetch ==
  ASSUME FetchInv, RowsInv, pc = "row", NEW v, Proper(v), Fetch(v), write_value(v),
         UNCHANGED <<pc, num_rows, data>>
  PROVE  FetchInv'
  <1>1. /\ fetched \in Seq(ProperRows) /\ num_rows \in Nat /\ Len(fetched) = num_rows
        /\ num_rows > 0 /\ num_rows <= MaxRows /\ num_rows = Len(data) + 1 /\ Len(data) \in Nat
        /\ row = fetched[num_rows] /\ SentAreFetched
    BY RowsAssumption DEF FetchInv, RowsInv, Shapes
  <1>2. fetched[num_rows] \in ProperRows
    BY <1>1
  <1>3. v \in {x \in Values : Proper(x)}
    BY DEF Proper
  <1>4. Append(fetched[num_rows], v) \in ProperRows
    BY <1>2, <1>3 DEF ProperRows
  <1>5. fetched' = [fetched EXCEPT ![num_rows] = Append(fetched[num_rows], v)]
    BY DEF Fetch
  <1>6. /\ fetched' \in Seq(ProperRows) /\ Len(fetched') = num_rows
        /\ fetched'[num_rows] = Append(fetched[num_rows], v)
        /\ \A k \in 1..num_rows - 1 : fetched'[k] = fetched[k]
    <2> DEFINE r == Append(fetched[num_rows], v)
    <2>1. r \in ProperRows
      BY <1>4
    <2> HIDE DEF r
    <2> QED
      BY <1>1, <1>5, <2>1 DEF r
  <1>7. row' = fetched'[num_rows]
    BY <1>1, <1>6 DEF write_value
  <1>8. SentAreFetched'
    <2>1. Len(data) = num_rows - 1
      BY <1>1
    <2> QED
      BY <1>1, <1>6, <2>1 DEF SentAreFetched
  <1> QED
    BY <1>1, <1>6, <1>7, <1>8 DEF FetchInv

LEMMA WriteNullFetch == ASSUME FetchInv, RowsInv, WriteNull PROVE FetchInv'
  <1>1. Proper(Null)
    BY DEF Proper, Values
  <1> QED
    BY <1>1, ValueFetch DEF WriteNull

LEMMA WriteValueFetch == ASSUME FetchInv, RowsInv, WriteValue PROVE FetchInv'
  <1>1. Mapped(Column) /\ Column \in DOMAIN write_method
    BY TablesAgree DEF WriteValue, Mapped
  <1>2. PICK n \in Lengths :
            LET v == [method |-> write_method[Column], size |-> n]
            IN  /\ n > 0 \/ v.method = "string"
                /\ Fetch(v) /\ write_value(v)
    BY <1>1 DEF WriteValue
  <1> DEFINE v == [method |-> write_method[Column], size |-> n]
  <1>3. Proper(v)
    BY <1>1, <1>2 DEF Proper, Values, Methods
  <1>4. pc = "row" /\ UNCHANGED <<pc, num_rows, data>>
    BY DEF WriteValue
  <1>5. Fetch(v) /\ write_value(v)
    BY <1>2
  <1> HIDE DEF v
  <1> QED
    BY <1>3, <1>4, <1>5, ValueFetch

LEMMA EndRowFetch == ASSUME FetchInv, RowsInv, EndRow PROVE FetchInv'
  <1>1. /\ fetched \in Seq(ProperRows) /\ num_rows \in 0..MaxRows /\ Len(fetched) = num_rows
        /\ row = fetched[num_rows] /\ SentAreFetched
        /\ num_rows = Len(data) + 1 /\ current_col = Len(row) /\ data \in Seq(RowMessages)
    BY DEF FetchInv, RowsInv, Shapes, EndRow
  <1> DEFINE m == DataRow(row, current_col)
  <1>2. m = DataRow(fetched[num_rows], Len(fetched[num_rows]))
    BY <1>1
  <1>3. m \in RowMessages
    BY DataRowType DEF RowsInv, Shapes
  <1>4. data' = Append(data, m)
    BY DEF EndRow, RowWriterDtor
  <1> HIDE DEF m
  <1>5. /\ Len(data') = Len(data) + 1 /\ data'[Len(data) + 1] = m /\ Len(data) \in Nat
        /\ \A k \in 1..Len(data) : data'[k] = data[k]
    BY <1>1, <1>3, <1>4
  <1>6. SentAreFetched'
    <2> SUFFICES ASSUME NEW k \in 1..Len(data) + 1
                 PROVE  data'[k] = DataRow(fetched[k], Len(fetched[k]))
      BY <1>5 DEF SentAreFetched, EndRow
    <2>1. k \in 1..Len(data) \/ k = Len(data) + 1
      BY <1>5
    <2>2. CASE k \in 1..Len(data)
      BY <1>1, <1>5, <2>2 DEF SentAreFetched
    <2>3. CASE k = Len(data) + 1
      BY <1>1, <1>2, <1>5, <2>3
    <2> QED
      BY <2>1, <2>2, <2>3
  <1> QED
    BY <1>1, <1>6 DEF FetchInv, EndRow

LEMMA ThrowFetch == ASSUME FetchInv, Throw PROVE FetchInv'
  BY DEF FetchInv, Throw

LEMMA ReturnFetch == ASSUME FetchInv, Return PROVE FetchInv'
  BY DEF FetchInv, Return, SentAreFetched

\* Before rows are written there are none.
LEMMA NoRows ==
  ASSUME FetchInv, RowsInv, pc \in {"idle", "describe"}
  PROVE  data = <<>> /\ num_rows = 0 /\ fetched = <<>>
  <1>1. data = <<>> /\ num_rows = 0
    BY DEF RowsInv, RowsInit
  <1> QED
    BY <1>1 DEF FetchInv

-----------------------------------------------------------------------------
(***************************************************************************)
(* The answer: its bytes are those of its messages                         *)
(***************************************************************************)
\* The messages that process_message sends.
Sayings ==
    {[tag |-> "R"], [tag |-> "Z"], [tag |-> "N"]} \cup Status \cup Failures \cup Completions
      \cup [tag : {"T"}, fields : Seq(FieldTypes)] \cup [tag : {"D"}, values : ProperRows]

SSLAsked == asked # <<>> /\ asked[1].kind = "SSLRequest"

\* The bytes of the answer are read as its messages, when the columns can be counted.
Answered == Len(fields) <= Int16Max => SaysAll(stream, said)

\* The answer to an SSL request is a byte and no message; any other is read
\* message by message.
AnswerInv ==
    /\ said \in Seq(Sayings) /\ requests \in 0..MaxRequests
    /\ turn = "server" \/ asked = <<>> => said = <<>> /\ stream = <<>>
    /\ turn = "database" =>
           /\ ~SSLAsked /\ pc # "idle"
           /\ pc = "describe" => said = <<>> /\ stream = <<>>
    /\ IF SSLAsked /\ stream # <<>> THEN stream = encode_ssl /\ said = <<[tag |-> "N"]>>
       ELSE Answered

LEMMA AskAnswer ==
  ASSUME AnswerInv, NEW r \in Untagged \cup Tagged, Ask(r)
  PROVE  AnswerInv'
  <1>1. /\ turn' = "server" /\ said' = <<>> /\ stream' = <<>> /\ requests' = requests + 1
        /\ requests < MaxRequests
    BY DEF Ask
  <1>2. requests' \in 0..MaxRequests
    BY <1>1, ExchangeAssumption DEF AnswerInv
  <1>3. said' \in Seq(Sayings)
    BY <1>1
  <1>4. Answered'
    BY <1>1, SaysNone DEF Answered
  <1> QED
    BY <1>1, <1>2, <1>3, <1>4 DEF AnswerInv, SSLAsked

\* Nothing is said.
LEMMA SilentAnswer ==
  ASSUME AnswerInv, UNCHANGED <<said, stream, asked, requests>>,
         fields' = fields \/ (turn = "database" /\ pc = "describe"),
         turn' = "server" => turn = "server",
         turn' = "database" => ~SSLAsked /\ pc' # "idle",
         turn' = "database" /\ pc' = "describe" => said = <<>> /\ stream = <<>>
  PROVE  AnswerInv'
  <1>1. SSLAsked' <=> SSLAsked
    BY DEF SSLAsked
  <1>2. CASE fields' = fields
    BY <1>1, <1>2 DEF AnswerInv, Answered
  <1>3. CASE turn = "database" /\ pc = "describe"
    <2>1. said' = <<>> /\ stream' = <<>>
      BY <1>3 DEF AnswerInv
    <2>2. Answered'
      BY <2>1, SaysNone DEF Answered
    <2> QED
      BY <1>1, <1>3, <2>1, <2>2 DEF AnswerInv
  <1> QED
    BY <1>2, <1>3

LEMMA SpokenFirst ==
  ASSUME AnswerInv, said = <<>>, stream = <<>>, ~SSLAsked, asked' = asked, asked # <<>>,
         UNCHANGED <<fields, requests>>, NEW ms \in Seq(Sayings), write(ms),
         Len(fields) <= Int16Max => SaysAll(EncodeAll(ms, encode), ms),
         turn' # "server", turn' = "database" => pc' \notin {"idle", "describe"}
  PROVE  AnswerInv'
  <1> DEFINE c == EncodeAll(ms, encode)
  <1>1. said' = <<>> \o ms /\ stream' = <<>> \o c
    BY DEF write
  <1>2. said' = ms
    BY <1>1
  <1>3. Len(fields) <= Int16Max => SaysAll(<<>> \o c, <<>> \o ms)
    <2> HIDE DEF c
    <2>1. <<>> \in Seq(Sayings)
      OBVIOUS
    <2>2. SaysAll(<<>>, <<>>)
      BY SaysNone
    <2> QED
      BY <2>1, <2>2, SaysConcat DEF c
  <1>4. Answered'
    BY <1>1, <1>3 DEF Answered
  <1>5. ~SSLAsked'
    BY DEF SSLAsked
  <1> QED
    BY <1>2, <1>4, <1>5 DEF AnswerInv

\* Each kind of message but a row and a description is read as it was meant.
LEMMA SaysPlain ==
  ASSUME NEW m \in {[tag |-> "R"], [tag |-> "Z"]} \cup Status \cup Failures \cup Completions
  PROVE  Says(encode(m), m) /\ encode(m) \in Buffers
  BY SaysAuthentication, SaysReady, SaysStatus, SaysFailure, SaysCompletion

\* The request that is processed is the one that was asked.
LEMMA ProcessesAsked ==
  ASSUME RequestInv, NEW kind, Processes(kind)
  PROVE  asked # <<>> /\ asked[1].kind = kind /\ turn = "server" /\ asked' = asked
         /\ requests' = requests
  <1>1. turn = "server" /\ step = "message" /\ ReadAnew /\ message.kind = kind /\ requests' = requests
    BY DEF Processes
  <1>2. PICK r \in Untagged \cup Tagged : asked = <<r>> /\ Phase(r)
    BY <1>1 DEF RequestInv
  <1>3. AtMessage(r)
    BY <1>1, <1>2 DEF Phase, AtHeader, AtBody, AtDecode, AtTexts
  <1>4. message = Meant(r)
    BY <1>3 DEF AtMessage
  <1>5. Meant(r).kind = r.kind
    BY Kinds DEF Meant
  <1> QED
    BY <1>1, <1>2, <1>4, <1>5 DEF ReadAnew

LEMMA GreetAnswer ==
  ASSUME AnswerInv, RequestInv, Greet
  PROVE  AnswerInv'
  <1> DEFINE n == Len(server_status)
             m(k) == [tag |-> "S", name |-> server_status[k].name,
                      value |-> server_status[k].value]
             st == [k \in DOMAIN server_status |-> m(k)]
             P == {[tag |-> "R"], [tag |-> "Z"]} \cup Status \cup Failures \cup Completions
  <1>1. /\ Processes("Startup") /\ write(AuthenticationOk \o st \o ReadyForQuery)
        /\ turn' = "client" /\ UNCHANGED rowsVars
    BY DEF Greet
  <1>2. st \in Seq(P)
    <2>1. \A k \in 1..n : m(k) \in Status
      <3> SUFFICES ASSUME NEW k \in 1..n PROVE m(k) \in Status
        OBVIOUS
      <3>1. server_status[k] \in [name : Texts, value : Texts]
        <4> DEFINE R == [name : Texts, value : Texts]
        <4>1. server_status \in Seq(R)
          BY ExchangeAssumption
        <4> HIDE DEF R
        <4>2. server_status[k] \in R
          BY <4>1
        <4> QED
          BY <4>2 DEF R
      <3>2. server_status[k].name \in Texts /\ server_status[k].value \in Texts
        BY <3>1
      <3> QED
        BY <3>2 DEF Status
    <2>2. n \in Nat /\ DOMAIN server_status = 1..n
      BY ExchangeAssumption
    <2> HIDE DEF m, n
    <2>3. \A k \in 1..n : m(k) \in P
      BY <2>1
    <2> HIDE DEF P
    <2> QED
      BY <2>2, <2>3
  <1>3. AuthenticationOk \in Seq(P) /\ ReadyForQuery \in Seq(P)
    BY DEF AuthenticationOk, ReadyForQuery
  <1> HIDE DEF st
  <1> DEFINE ms == AuthenticationOk \o st \o ReadyForQuery
  <1>4. ms \in Seq(P)
    <2> HIDE DEF P
    <2> QED
      BY <1>2, <1>3
  <1>5. \A k \in 1..Len(ms) : ms[k] \in P
    <2> HIDE DEF ms, P
    <2> QED
      BY <1>4
  <1>6. SaysAll(EncodeAll(ms, encode), ms)
    <2>1. \A k \in 1..Len(ms) : encode(ms[k]) \in Buffers /\ Says(encode(ms[k]), ms[k])
      <3> HIDE DEF ms
      <3> QED
        BY <1>5, SaysPlain
    <2> HIDE DEF ms, P
    <2> QED
      BY <1>4, <2>1, SaysEach
  <1>7. P \subseteq Sayings
    BY DEF Sayings
  <1>8. ms \in Seq(Sayings)
    <2> HIDE DEF P, ms
    <2> QED
      BY <1>4, <1>7
  <1>9. /\ asked # <<>> /\ asked[1].kind = "Startup" /\ turn = "server" /\ asked' = asked
        /\ requests' = requests
    BY <1>1, ProcessesAsked
  <1>10. said = <<>> /\ stream = <<>> /\ ~SSLAsked
    BY <1>9 DEF AnswerInv, SSLAsked
  <1>11. UNCHANGED fields
    BY <1>1 DEF rowsVars
  <1>12. write(ms)
    BY <1>1
  <1>13. turn' = "client"
    BY <1>1
  <1> HIDE DEF ms
  <1> QED
    BY <1>6, <1>8, <1>9, <1>10, <1>11, <1>12, <1>13, SpokenFirst

LEMMA ParseFailsAnswer ==
  ASSUME AnswerInv, RequestInv, ParseFails
  PROVE  AnswerInv'
  <1> DEFINE P == {[tag |-> "R"], [tag |-> "Z"]} \cup Status \cup Failures \cup Completions
  <1>1. PICK text \in Texts :
            write(<<[tag |-> "E", severity |-> "ERROR", code |-> "22000", message |-> text]>>
                  \o ReadyForQuery)
    BY DEF ParseFails
  <1>2. Processes("Query") /\ turn' = "client" /\ UNCHANGED rowsVars
    BY DEF ParseFails
  <1> DEFINE m == [tag |-> "E", severity |-> "ERROR", code |-> "22000", message |-> text]
             ms == <<m>> \o ReadyForQuery
  <1>3. m \in P
    BY DEF Failures
  <1>4. ms \in Seq(P)
    <2>1. ReadyForQuery \in Seq(P)
      BY DEF ReadyForQuery
    <2> HIDE DEF P, m
    <2> QED
      BY <1>3, <2>1
  <1>5. SaysAll(EncodeAll(ms, encode), ms)
    <2>1. \A k \in 1..Len(ms) : ms[k] \in P
      <3> HIDE DEF ms, P
      <3> QED
        BY <1>4
    <2>2. \A k \in 1..Len(ms) : encode(ms[k]) \in Buffers /\ Says(encode(ms[k]), ms[k])
      <3> HIDE DEF ms
      <3> QED
        BY <2>1, SaysPlain
    <2> HIDE DEF ms, P
    <2> QED
      BY <1>4, <2>2, SaysEach
  <1>6. ms \in Seq(Sayings)
    <2>1. P \subseteq Sayings
      BY DEF Sayings
    <2> HIDE DEF P, ms
    <2> QED
      BY <1>4, <2>1
  <1>7. /\ asked # <<>> /\ asked[1].kind = "Query" /\ turn = "server" /\ asked' = asked
        /\ requests' = requests
    BY <1>2, ProcessesAsked
  <1>8. said = <<>> /\ stream = <<>> /\ ~SSLAsked
    BY <1>7 DEF AnswerInv, SSLAsked
  <1>9. UNCHANGED fields
    BY <1>2 DEF rowsVars
  <1>10. write(ms)
    BY <1>1
  <1> HIDE DEF ms
  <1> QED
    BY <1>2, <1>5, <1>6, <1>7, <1>8, <1>9, <1>10, SpokenFirst

LEMMA RefuseAnswer ==
  ASSUME AnswerInv, RequestInv, RefuseSSL
  PROVE  AnswerInv'
  <1>1. /\ Processes("SSLRequest") /\ turn' = "client"
        /\ said' = <<[tag |-> "N"]>> /\ stream' = stream \o encode_ssl
    BY DEF RefuseSSL
  <1>2. /\ asked # <<>> /\ asked[1].kind = "SSLRequest" /\ turn = "server" /\ asked' = asked
        /\ requests' = requests
    BY <1>1, ProcessesAsked
  <1>3. encode_ssl \in Buffers /\ encode_ssl # <<>>
    BY PutTypes DEF encode_ssl, put_byte, Words
  <1>4. stream' = encode_ssl
    <2>1. stream' = <<>> \o encode_ssl
      BY <1>1, <1>2 DEF AnswerInv
    <2> QED
      BY <1>3, <2>1 DEF Buffers
  <1>5. SSLAsked'
    BY <1>2 DEF SSLAsked
  <1>6. said' \in Seq(Sayings)
    <2>1. [tag |-> "N"] \in Sayings
      BY DEF Sayings
    <2> QED
      BY <1>1, <2>1
  <1> QED
    BY <1>1, <1>2, <1>3, <1>4, <1>5, <1>6 DEF AnswerInv

LEMMA DescribeAnswer ==
  ASSUME AnswerInv, RequestInv, RowsInv, Describe
  PROVE  AnswerInv'
  <1> DEFINE m == [tag |-> "T", fields |-> fields]
             ms == <<m>>
  <1>1. /\ turn = "database" /\ turn' = "database" /\ Described /\ write(ms)
        /\ UNCHANGED <<requestVars, requests>>
    BY DEF Describe, Database
  <1>2. pc = "describe" /\ pc' = "execute" /\ fields' = fields
    BY <1>1 DEF Described
  <1>3. said = <<>> /\ stream = <<>> /\ ~SSLAsked
    BY <1>1, <1>2 DEF AnswerInv
  <1>4. fields \in Seq(FieldTypes)
    BY DEF RowsInv, Shapes, FieldTypes, Oids
  <1>5. ms \in Seq(Sayings)
    <2>1. m \in Sayings
      BY <1>4 DEF Sayings
    <2> HIDE DEF m
    <2> QED
      BY <2>1
  <1>6. ASSUME Len(fields) <= Int16Max PROVE SaysAll(EncodeAll(ms, encode), ms)
    <2>1. Says(encode(m), m) /\ encode(m) \in Buffers
      BY <1>4, <1>6, SaysDescription
    <2> HIDE DEF m
    <2>2. \A k \in 1..Len(ms) : ms[k] = m
      OBVIOUS
    <2> HIDE DEF ms
    <2> QED
      BY <1>5, <2>1, <2>2, SaysEach
  <1>7. asked' = asked /\ asked # <<>> /\ requests' = requests
    BY <1>1 DEF requestVars, RequestInv
  <1> HIDE DEF ms
  <1> QED
    BY <1>1, <1>2, <1>3, <1>5, <1>6, <1>7, SpokenFirst

\* The messages of Complete.
RowsSaid == [k \in 1..num_rows |-> [tag |-> "D", values |-> fetched[k]]]
CompletionSaid == [tag |-> "C", num_rows |-> num_rows]
ReadySaid == [tag |-> "Z"]

\* encode_writer, CommandComplete and ReadyForQuery are read as the rows that
\* were fetched, their number, and the end of the answer.
LEMMA CompleteSays ==
  ASSUME FetchInv, RowsInv, pc = "execute", said \in Seq(Sayings),
         Len(fields) <= Int16Max => SaysAll(stream, said)
  PROVE  /\ said \o RowsSaid \o <<CompletionSaid>> \o <<ReadySaid>> \in Seq(Sayings)
         /\ Len(fields) <= Int16Max =>
                SaysAll(stream \o encode_writer \o encode(CompletionSaid) \o encode(ReadySaid),
                        said \o RowsSaid \o <<CompletionSaid>> \o <<ReadySaid>>)
  <1>1. /\ fetched \in Seq(ProperRows) /\ num_rows \in Nat /\ Len(fetched) = num_rows
        /\ SentAreFetched /\ SentFit /\ Len(data) = num_rows
    BY RowsAssumption DEF FetchInv, RowsInv
  <1>2. \A k \in 1..num_rows : [tag |-> "D", values |-> fetched[k]] \in Sayings
    BY <1>1 DEF Sayings
  <1>3. RowsSaid \in Seq(Sayings)
    BY <1>1, <1>2 DEF RowsSaid
  <1>4. <<CompletionSaid>> \in Seq(Sayings) /\ CompletionSaid \in Completions
    <2>1. CompletionSaid \in Completions
      BY <1>1 DEF CompletionSaid, Completions
    <2>2. CompletionSaid \in Sayings
      BY <2>1 DEF Sayings
    <2> QED
      BY <2>1, <2>2
  <1>5. <<ReadySaid>> \in Seq(Sayings)
    <2>1. ReadySaid \in Sayings
      BY DEF Sayings, ReadySaid
    <2> QED
      BY <2>1
  <1> DEFINE s1 == said \o RowsSaid
             s2 == s1 \o <<CompletionSaid>>
             s3 == s2 \o <<ReadySaid>>
             c1 == stream \o encode_writer
             c2 == c1 \o encode(CompletionSaid)
             c3 == c2 \o encode(ReadySaid)
  <1>6. s1 \in Seq(Sayings)
    BY <1>3
  <1>7. s2 \in Seq(Sayings)
    <2> HIDE DEF s1
    <2> QED
      BY <1>4, <1>6
  <1>8. s3 \in Seq(Sayings)
    <2> HIDE DEF s2
    <2> QED
      BY <1>5, <1>7
  <1>9. ASSUME Len(fields) <= Int16Max PROVE SaysAll(c3, s3)
    <2>1. ASSUME NEW k \in 1..num_rows
          PROVE  data[k] = DataRow(fetched[k], Len(fetched[k])) /\ Len(fetched[k]) = Len(fields)
      <3>1. data[k] = DataRow(fetched[k], Len(fetched[k]))
        BY <1>1 DEF SentAreFetched
      <3>2. Len(data[k].cells) = Len(fields)
        BY <1>1 DEF SentFit
      <3>3. data[k].cells = fetched[k]
        BY <3>1, DataRowIs
      <3> QED
        BY <3>1, <3>2, <3>3
    <2>2. SaysAll(EncodeAll(data, EncodeRow), [k \in 1..Len(fetched) |-> OneRow(fetched[k])])
      BY <1>1, <1>9, <2>1, SaysRows
    <2>3. [k \in 1..Len(fetched) |-> OneRow(fetched[k])] = RowsSaid
      BY <1>1 DEF RowsSaid, OneRow
    <2>4. SaysAll(encode_writer, RowsSaid)
      BY <2>2, <2>3 DEF encode_writer
    <2>5. SaysAll(c1, s1)
      BY <1>3, <1>9, <2>4, SaysConcat
    <2>6. SaysAll(encode(CompletionSaid), <<CompletionSaid>>)
      BY <1>4, SaysCompletion, SaysOne
    <2>7. SaysAll(c2, s2)
      <3> HIDE DEF c1, s1
      <3> QED
        BY <1>4, <1>6, <2>5, <2>6, SaysConcat
    <2>8. SaysAll(encode(ReadySaid), <<ReadySaid>>)
      BY SaysReady, SaysOne DEF ReadySaid
    <2> HIDE DEF c2, s2
    <2> QED
      BY <1>5, <1>7, <2>7, <2>8, SaysConcat
  <1> QED
    BY <1>8, <1>9

LEMMA CompleteAnswer ==
  ASSUME AnswerInv, FetchInv, RowsInv, RequestInv, Complete
  PROVE  AnswerInv'
  <1>1. /\ turn = "database" /\ turn' = "client" /\ Return /\ UNCHANGED <<requestVars, requests>>
    BY DEF Complete, Database
  <1>2. said' = said \o RowsSaid \o <<CompletionSaid>> \o <<ReadySaid>>
    BY DEF Complete, RowsSaid, CompletionSaid, ReadySaid, ReadyForQuery
  <1>3. stream' = stream \o encode_writer \o encode(CompletionSaid) \o encode(ReadySaid)
    <2>1. ReadyForQuery[1] = ReadySaid
      BY DEF ReadyForQuery, ReadySaid
    <2> QED
      BY <2>1, Zenon DEF Complete, CompletionSaid
  <1>4. pc = "execute" /\ fields' = fields
    BY <1>1 DEF Return
  <1>5. ~SSLAsked /\ Answered /\ said \in Seq(Sayings)
    BY <1>1 DEF AnswerInv
  <1>6. asked' = asked /\ requests' = requests
    BY <1>1 DEF requestVars
  <1>7. ~SSLAsked'
    BY <1>5, <1>6 DEF SSLAsked
  <1>8. /\ said \o RowsSaid \o <<CompletionSaid>> \o <<ReadySaid>> \in Seq(Sayings)
        /\ Len(fields) <= Int16Max =>
                SaysAll(stream \o encode_writer \o encode(CompletionSaid) \o encode(ReadySaid),
                        said \o RowsSaid \o <<CompletionSaid>> \o <<ReadySaid>>)
    BY <1>4, <1>5, CompleteSays DEF Answered
  <1>9. said' \in Seq(Sayings) /\ Answered'
    BY <1>2, <1>3, <1>4, <1>8 DEF Answered
  <1>10. asked # <<>>
    BY <1>1 DEF RequestInv
  <1> QED
    BY <1>1, <1>6, <1>7, <1>9, <1>10 DEF AnswerInv

-----------------------------------------------------------------------------
\* The inductive invariant of a connection.
ConnectionInv == ExchangeInv /\ RequestInv /\ FetchInv /\ AnswerInv

\* Each step keeps what is sent the same as what was fetched.
LEMMA FetchInductive ==
  ASSUME ExchangeInv, FetchInv, [Next]_vars
  PROVE  FetchInv'
  <1>0. RowsInv /\ Idle
    BY DEF ExchangeInv
  <1>1. CASE UNCHANGED rowsVars
    BY <1>1, SameFetch DEF rowsVars
  <1>2. ASSUME NEW r \in Untagged \cup Tagged, Ask(r) PROVE FetchInv'
    BY <1>2, ForgetFetch DEF Ask
  <1>3. CASE Parse
    <2>1. Prepare /\ pc = "idle"
      BY <1>0, <1>3 DEF Parse, Processes, Idle
    <2>2. data' = <<>> /\ fetched' = fetched /\ num_rows' = num_rows /\ pc' # "row"
      BY <1>0, <2>1, NoRows DEF Prepare
    <2> QED
      BY <2>2, EmptyFetch
  <1>4. CASE Describe \/ DescribeColumn
    <2>1. Described \/ DescribeColumn
      BY <1>4 DEF Describe, Database
    <2>2. /\ pc = "describe" /\ pc' # "row"
          /\ fetched' = fetched /\ num_rows' = num_rows /\ data' = data
      BY <2>1 DEF Described, DescribeColumn
    <2>3. data' = <<>>
      BY <1>0, <2>2, NoRows
    <2> QED
      BY <2>2, <2>3, EmptyFetch
  <1>5. CASE add_row
    BY <1>0, <1>5, AddRowFetch
  <1>6. CASE WriteNull
    BY <1>0, <1>6, WriteNullFetch
  <1>7. CASE WriteValue
    BY <1>0, <1>7, WriteValueFetch
  <1>8. CASE SkipColumn
    BY <1>8, SameFetch DEF SkipColumn
  <1>9. CASE EndRow
    BY <1>0, <1>9, EndRowFetch
  <1>10. CASE ExecThrows
    BY <1>10, ThrowFetch DEF ExecThrows, Database
  <1>11. CASE Complete
    BY <1>11, ReturnFetch DEF Complete, Database
  <1>12. CASE ReadRequest \/ Greet \/ RefuseSSL \/ Leave \/ Ignore \/ ParseFails \/ ExecFails
    BY <1>1, <1>12 DEF ReadRequest, Greet, RefuseSSL, Leave, Ignore, ParseFails, ExecFails
  <1>13. UNCHANGED vars => UNCHANGED rowsVars
    BY DEF vars
  <1>14. WriteRows =>
             DescribeColumn \/ add_row \/ WriteNull \/ WriteValue \/ SkipColumn \/ EndRow
    BY DEF WriteRows, Database
  <1> QED
    BY <1>1, <1>2, <1>3, <1>4, <1>5, <1>6, <1>7, <1>8, <1>9, <1>10, <1>11, <1>12, <1>13,
       <1>14 DEF Next

\* Each step keeps the bytes of the answer those of its messages.
LEMMA AnswerInductive ==
  ASSUME ConnectionInv, [Next]_vars
  PROVE  AnswerInv'
  <1>0. RowsInv /\ Idle /\ RequestInv /\ FetchInv /\ AnswerInv
    BY DEF ConnectionInv, ExchangeInv
  <1>1. CASE UNCHANGED vars
    <2>1. /\ UNCHANGED <<said, stream, asked, requests, fields>> /\ turn' = turn /\ pc' = pc
      BY <1>1 DEF vars, requestVars, rowsVars, answerVars
    <2> QED
      BY <1>0, <2>1, SilentAnswer DEF AnswerInv
  <1>2. ASSUME NEW r \in Untagged \cup Tagged, Ask(r) PROVE AnswerInv'
    BY <1>0, <1>2, AskAnswer
  <1>3. CASE ReadRequest
    <2>1. /\ UNCHANGED <<said, stream, requests, fields>> /\ turn' = turn /\ turn = "server"
          /\ read
      BY <1>3 DEF ReadRequest, rowsVars, answerVars
    <2>2. asked' = asked
      BY <2>1 DEF read, ReadHeader, ReadBody, DecodeVersion, TakeKey, TakeValue, FinishStartup,
                  DecodeTagged
    <2> QED
      BY <1>0, <2>1, <2>2, SilentAnswer
  <1>4. CASE Greet
    BY <1>0, <1>4, GreetAnswer
  <1>5. CASE RefuseSSL
    BY <1>0, <1>5, RefuseAnswer
  <1>6. CASE Leave \/ Ignore
    <2>1. /\ UNCHANGED <<said, stream, requests, fields>> /\ turn' \in {"client", "over"}
          /\ ReadAnew
      BY <1>6 DEF Leave, Ignore, Processes, rowsVars, answerVars
    <2>2. asked' = asked
      BY <2>1 DEF ReadAnew
    <2> QED
      BY <1>0, <2>1, <2>2, SilentAnswer
  <1>7. CASE ParseFails
    BY <1>0, <1>7, ParseFailsAnswer
  <1>8. CASE Parse
    <2>1. /\ Processes("Query") /\ Prepare /\ turn' = "database" /\ UNCHANGED answerVars
      BY <1>8 DEF Parse
    <2>2. /\ asked # <<>> /\ asked[1].kind = "Query" /\ turn = "server" /\ asked' = asked
          /\ requests' = requests
      BY <1>0, <2>1, ProcessesAsked
    <2>3. ~SSLAsked /\ said = <<>> /\ stream = <<>>
      BY <1>0, <2>2 DEF SSLAsked, AnswerInv
    <2>4. fields' = fields /\ pc' = "describe" /\ said' = said /\ stream' = stream
      BY <2>1 DEF Prepare, answerVars
    <2> QED
      BY <1>0, <2>1, <2>2, <2>3, <2>4, SilentAnswer
  <1>9. CASE Describe
    BY <1>0, <1>9, DescribeAnswer
  <1>10. CASE ExecFails \/ ExecThrows
    <2>1. /\ UNCHANGED <<said, stream, requests, requestVars, fields>> /\ turn' = "over"
      BY <1>10 DEF ExecFails, ExecThrows, Database, Throw, rowsVars, answerVars
    <2>2. asked' = asked
      BY <2>1 DEF requestVars
    <2> QED
      BY <1>0, <2>1, <2>2, SilentAnswer
  <1>11. CASE WriteRows
    <2>1. /\ turn = "database" /\ turn' = turn /\ UNCHANGED answerVars
          /\ UNCHANGED <<requestVars, requests>>
          /\ DescribeColumn \/ add_row \/ WriteNull \/ WriteValue \/ SkipColumn \/ EndRow
      BY <1>11 DEF WriteRows, Database
    <2>2. asked' = asked /\ said' = said /\ stream' = stream /\ requests' = requests
      BY <2>1 DEF requestVars, answerVars
    <2>3. ~SSLAsked /\ (pc = "describe" => said = <<>> /\ stream = <<>>)
      BY <1>0, <2>1 DEF AnswerInv
    <2>4. /\ fields' = fields \/ pc = "describe"
          /\ pc' # "idle" /\ (pc' = "describe" => pc = "describe")
      BY <2>1 DEF DescribeColumn, add_row, WriteNull, WriteValue, SkipColumn, EndRow
    <2> QED
      BY <1>0, <2>1, <2>2, <2>3, <2>4, SilentAnswer
  <1>12. CASE Complete
    BY <1>0, <1>12, CompleteAnswer
  <1> QED
    BY <1>1, <1>2, <1>3, <1>4, <1>5, <1>6, <1>7, <1>8, <1>9, <1>10, <1>11, <1>12 DEF Next

LEMMA ConnectionInvHolds == Spec => []ConnectionInv
  <1>1. Init => ConnectionInv
    <2> SUFFICES ASSUME Init PROVE ConnectionInv
      OBVIOUS
    <2>1. ExchangeInv
      BY DEF Init, ExchangeInv, Idle, RowsInit, RowsInv, Shapes
    <2>2. RequestInv
      BY DEF Init, RequestsInit, RequestInv, Resting, Fresh
    <2>3. FetchInv
      BY RowsAssumption DEF Init, RowsInit, FetchInv
    <2>4. AnswerInv
      <3>1. /\ said = <<>> /\ stream = <<>> /\ requests = 0 /\ turn = "client" /\ asked = <<>>
        BY DEF Init, RequestsInit
      <3>2. Answered
        BY <3>1, SaysNone DEF Answered
      <3> QED
        BY <3>1, <3>2, ExchangeAssumption DEF AnswerInv, SSLAsked
    <2> QED
      BY <2>1, <2>2, <2>3, <2>4 DEF ConnectionInv
  <1>2. ConnectionInv /\ [Next]_vars => ConnectionInv'
    <2> SUFFICES ASSUME ConnectionInv, [Next]_vars PROVE ConnectionInv'
      OBVIOUS
    <2>1. ExchangeInv' /\ RequestInv'
      BY ExchangeInvInductive, RequestInvInductive DEF ConnectionInv
    <2>2. FetchInv'
      BY FetchInductive DEF ConnectionInv
    <2>3. AnswerInv'
      BY AnswerInductive
    <2> QED
      BY <2>1, <2>2, <2>3 DEF ConnectionInv
  <1> QED
    BY <1>1, <1>2, PTL DEF Spec

\* The messages that DataRow makes have the type that Rows gives them.
LEMMA DataRowsTyped == RowMessages \subseteq DataRows
  <1> SUFFICES ASSUME NEW cells \in Seq(Values), NEW n \in Nat
               PROVE  DataRow(cells, n) \in DataRows
    BY DEF RowMessages
  <1>1. PICK c : c = EncodeAll(cells, EncodeValue)
    OBVIOUS
  <1>2. c \in Buffers
    <2>1. PICK g \in [1..Len(cells) -> Buffers] : Encoded(c, g, Len(cells))
      BY <1>1, ValuesEncoded
    <2>2. Len(cells) \in 0..Len(cells)
      OBVIOUS
    <2> QED
      BY <2>1, <2>2 DEF Encoded
  <1>3. size(c) \in Nat
    BY <1>2, SizeType
  <1>4. int16(n) \in Int
    BY BufferAssumption DEF int16
  <1> QED
    BY <1>1, <1>3, <1>4 DEF DataRow, DataRows, row_size

\* All variables of a connection keep their types: in particular, no length or
\* position of the decoder, and no length or count of the row writer, leaves its
\* range, for any size of what was sent.
THEOREM TypeOKHolds == Spec => []TypeOK
  <1>1. ConnectionInv => TypeOK
    <2> SUFFICES ASSUME ConnectionInv PROVE TypeOK
      OBVIOUS
    <2>1. RequestsTypeOK
      BY RequestTypes DEF ConnectionInv
    <2>2. RowsTypeOK
      <3>1. Shapes /\ FetchInv
        BY DEF ConnectionInv, ExchangeInv, RowsInv
      <3>2. data \in Seq(DataRows)
        BY <3>1, DataRowsTyped DEF Shapes
      <3>3. fetched \in Seq(Seq(Values))
        <4>1. ProperRows \subseteq Seq(Values)
          BY DEF ProperRows
        <4> QED
          BY <3>1, <4>1 DEF FetchInv
      <3>4. current_col \in Nat
        BY <3>1 DEF Shapes
      <3> QED
        BY <3>1, <3>2, <3>3, <3>4 DEF Shapes, FetchInv, RowsTypeOK, Oids
    <2>3. turn \in {"client", "server", "database", "over"} /\ requests \in 0..MaxRequests
      BY DEF ConnectionInv, RequestInv, AnswerInv
    <2> QED
      BY <2>1, <2>2, <2>3 DEF TypeOK
  <1> QED
    BY <1>1, ConnectionInvHolds, PTL

\* A client reads from the bytes of an answer the very messages that
\* process_message sent, in their order and to the last byte, whatever their
\* number and the lengths of their texts and values, provided that the columns
\* can be counted in the 16 bits that both counts are narrowed to.
THEOREM ClientReadsAllHolds == Spec => []ClientReadsAll
  <1>1. ConnectionInv => ClientReadsAll
    <2> SUFFICES ASSUME ConnectionInv, Len(fields) <= Int16Max PROVE ClientReads = said
      BY DEF ClientReadsAll
    <2>0. AnswerInv
      BY DEF ConnectionInv
    <2>1. CASE SSLAsked /\ stream # <<>>
      <3>1. stream = encode_ssl /\ said = <<[tag |-> "N"]>>
        BY <2>0, <2>1 DEF AnswerInv
      <3>2. stream[1].holds = "N" /\ Tail(stream) = <<>>
        BY <3>1 DEF encode_ssl, put_byte
      <3>3. Read(<<>>) = <<>>
        <4>1. <<>> \in Buffers /\ <<>> \in Seq(Sayings)
          BY SizeEmpty
        <4> QED
          BY <4>1, SaysNone, ReadAll
      <3>4. ClientReads = <<[tag |-> "N"]>> \o <<>>
        BY <2>1, <3>2, <3>3 DEF ClientReads, SSLAsked
      <3> QED
        BY <3>1, <3>4
    <2>2. CASE ~(SSLAsked /\ stream # <<>>)
      <3>1. SaysAll(stream, said) /\ said \in Seq(Sayings)
        BY <2>0, <2>2 DEF AnswerInv, Answered
      <3>2. stream \in Buffers
        <4>1. Len(said) \in 0..Len(said)
          BY <3>1
        <4> QED
          BY <3>1, <4>1 DEF SaysAll, Encoded
      <3>3. Read(stream) = said
        BY <3>1, <3>2, ReadAll
      <3> QED
        BY <2>2, <3>3 DEF ClientReads, SSLAsked
    <2> QED
      BY <2>1, <2>2
  <1> QED
    BY <1>1, ConnectionInvHolds, PTL
=============================================================================
