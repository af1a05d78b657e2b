------------------------- MODULE ToolCatalogProofs -------------------------
(***************************************************************************)
(* The tool catalog for any values, remote tools, limits and callers: what *)
(* is listed is served, and a call of a route's tool arrives at its handler *)
(* with the arguments it was given.                                        *)
(***************************************************************************)
EXTENDS ToolCatalog, SequenceFacts
-----------------------------------------------------------------------------
(* The table of routes, word by word.                                      *)

Method(i) == Routes[i].method
Size(i) == Len(Routes[i].path)
Word(i, k) == Routes[i].path[k]

LEMMA StorageRoutes ==
  /\ Method(2) = "GET" /\ Size(2) = 5 /\ Word(2, 1) = "storage" /\ Word(2, 2) = "v1"
     /\ Word(2, 3) = "object" /\ Word(2, 4) = "BUCKET" /\ Word(2, 5) = "PATH_PATH"
  /\ Method(3) = "POST" /\ Size(3) = 4 /\ Word(3, 1) = "storage" /\ Word(3, 2) = "v1"
     /\ Word(3, 3) = "bucket" /\ Word(3, 4) = "BUCKET"
  /\ Method(4) = "PUT" /\ Size(4) = 5 /\ Word(4, 1) = "storage" /\ Word(4, 2) = "v1"
     /\ Word(4, 3) = "object" /\ Word(4, 4) = "BUCKET" /\ Word(4, 5) = "PATH_PATH"
  /\ Method(5) = "DELETE" /\ Size(5) = 5 /\ Word(5, 1) = "storage" /\ Word(5, 2) = "v1"
     /\ Word(5, 3) = "object" /\ Word(5, 4) = "BUCKET" /\ Word(5, 5) = "PATH_PATH"
  /\ Method(6) = "GET" /\ Size(6) = 5 /\ Word(6, 1) = "storage" /\ Word(6, 2) = "v1"
     /\ Word(6, 3) = "stat" /\ Word(6, 4) = "BUCKET" /\ Word(6, 5) = "PATH_PATH"
  /\ Method(7) = "GET" /\ Size(7) = 4 /\ Word(7, 1) = "storage" /\ Word(7, 2) = "v1"
     /\ Word(7, 3) = "list" /\ Word(7, 4) = "BUCKET"
  /\ Method(8) = "POST" /\ Size(8) = 6 /\ Word(8, 1) = "storage" /\ Word(8, 2) = "v1"
     /\ Word(8, 3) = "upload" /\ Word(8, 4) = "sign" /\ Word(8, 5) = "BUCKET"
     /\ Word(8, 6) = "PATH_PATH"
  /\ Method(9) = "POST" /\ Size(9) = 6 /\ Word(9, 1) = "storage" /\ Word(9, 2) = "v1"
     /\ Word(9, 3) = "download" /\ Word(9, 4) = "sign" /\ Word(9, 5) = "BUCKET"
     /\ Word(9, 6) = "PATH_PATH"
BY DEF Routes, R, Word, Size, Method

LEMMA SqlRoutes ==
  /\ Method(10) = "POST" /\ Size(10) = 2 /\ Word(10, 1) = "sql" /\ Word(10, 2) = "v1"
  /\ Method(11) = "POST" /\ Size(11) = 3 /\ Word(11, 1) = "sql" /\ Word(11, 2) = "v1"
     /\ Word(11, 3) = "explain"
  /\ Method(12) = "POST" /\ Size(12) = 3 /\ Word(12, 1) = "sql" /\ Word(12, 2) = "v1"
     /\ Word(12, 3) = "count"
  /\ Method(13) = "POST" /\ Size(13) = 3 /\ Word(13, 1) = "sql" /\ Word(13, 2) = "v1"
     /\ Word(13, 3) = "sample"
BY DEF Routes, R, Word, Size, Method

LEMMA StreamRoutes ==
  /\ Method(14) = "POST" /\ Size(14) = 2 /\ Word(14, 1) = "v1"
     /\ Word(14, 2) = "streams"
  /\ Method(15) = "GET" /\ Size(15) = 2 /\ Word(15, 1) = "v1" /\ Word(15, 2) = "streams"
  /\ Method(16) = "GET" /\ Size(16) = 3 /\ Word(16, 1) = "v1" /\ Word(16, 2) = "streams"
     /\ Word(16, 3) = "SOURCE_ID"
  /\ Method(17) = "POST" /\ Size(17) = 4 /\ Word(17, 1) = "v1"
     /\ Word(17, 2) = "streams" /\ Word(17, 3) = "SOURCE_ID" /\ Word(17, 4) = "state"
  /\ Method(18) = "GET" /\ Size(18) = 4 /\ Word(18, 1) = "v1" /\ Word(18, 2) = "streams"
     /\ Word(18, 3) = "SOURCE_ID" /\ Word(18, 4) = "status"
  /\ Method(20) = "GET" /\ Size(20) = 4 /\ Word(20, 1) = "v1" /\ Word(20, 2) = "streams"
     /\ Word(20, 3) = "SOURCE_ID" /\ Word(20, 4) = "dlq"
  /\ Method(21) = "POST" /\ Size(21) = 5 /\ Word(21, 1) = "v1"
     /\ Word(21, 2) = "streams" /\ Word(21, 3) = "dlq" /\ Word(21, 4) = "DLQ_ID"
     /\ Word(21, 5) = "replay"
BY DEF Routes, R, Word, Size, Method

LEMMA OtherRoutes ==
  /\ Method(1) = "GET" /\ Size(1) = 1 /\ Word(1, 1) = "healthz"
  /\ Method(19) = "POST" /\ Size(19) = 3 /\ Word(19, 1) = "v1" /\ Word(19, 2) = "ingest"
     /\ Word(19, 3) = "SOURCE_ID"
  /\ Method(22) = "POST" /\ Size(22) = 2 /\ Word(22, 1) = "agent" /\ Word(22, 2) = "v1"
  /\ Method(23) = "GET" /\ Size(23) = 3 /\ Word(23, 1) = "v1" /\ Word(23, 2) = "admin"
     /\ Word(23, 3) = "audit"
  /\ Method(24) = "GET" /\ Size(24) = 3 /\ Word(24, 1) = "v1" /\ Word(24, 2) = "admin"
     /\ Word(24, 3) = "runs"
  /\ Method(25) = "GET" /\ Size(25) = 4 /\ Word(25, 1) = "v1" /\ Word(25, 2) = "admin"
     /\ Word(25, 3) = "runs" /\ Word(25, 4) = "RUN_ID"
BY DEF Routes, R, Word, Size, Method

LEMMA TheParams ==
  /\ DOMAIN ParamOf = {"BUCKET", "PATH_PATH", "SOURCE_ID", "DLQ_ID", "RUN_ID"}
  /\ ParamOf["BUCKET"] = "bucket" /\ ParamOf["PATH_PATH"] = "path"
  /\ ParamOf["SOURCE_ID"] = "source_id" /\ ParamOf["DLQ_ID"] = "dlq_id"
  /\ ParamOf["RUN_ID"] = "run_id"
BY DEF ParamOf

LEMMA DomainOfRoutes == DOMAIN Routes = 1 .. 25
BY DEF Routes

\* No template holds the placeholder that the dispatchers look for in place of a rest.
LEMMA Words ==
  ASSUME NEW i \in 1 .. 25
  PROVE  Size(i) \in 1 .. 6 /\ \A k \in 1 .. Size(i) : Word(i, k) # "PATH"
<1>1. CASE i \in 2 .. 9
  BY <1>1, StorageRoutes
<1>2. CASE i \in 10 .. 13
  BY <1>2, SqlRoutes
<1>3. CASE i \in {14, 15, 16, 17, 18, 20, 21}
  BY <1>3, StreamRoutes
<1>4. CASE i \in {1, 19, 22, 23, 24, 25}
  BY <1>4, OtherRoutes
<1> QED
  BY <1>1, <1>2, <1>3, <1>4

\* Only storage routes take a rest.
LEMMA Rests ==
  ASSUME NEW i \in 1 .. 25, IsRest(Word(i, Size(i)))
  PROVE  i \in 2 .. 9
<1>1. CASE i \in 10 .. 13
  BY <1>1, SqlRoutes DEF IsRest
<1>2. CASE i \in {14, 15, 16, 17, 18, 20, 21}
  BY <1>2, StreamRoutes DEF IsRest
<1>3. CASE i \in {1, 19, 22, 23, 24, 25}
  BY <1>3, OtherRoutes DEF IsRest
<1> QED
  BY <1>1, <1>2, <1>3

\* Every path begins with a word, and the first words tell the groups apart.
LEMMA FirstWords ==
  ASSUME NEW i \in 1 .. 25
  PROVE  /\ ~IsParam(Word(i, 1))
         /\ Word(i, 1) = "healthz" => i = 1
         /\ Word(i, 1) = "storage" => i \in 2 .. 9
         /\ Word(i, 1) = "sql" => i \in 10 .. 13
         /\ Word(i, 1) = "v1" => i \in (14 .. 21) \cup (23 .. 25)
         /\ Word(i, 1) = "agent" => i = 22
         /\ Word(i, 1) \in {"healthz", "storage", "sql", "v1", "agent"}
<1>1. CASE i \in 2 .. 9
  BY <1>1, StorageRoutes, TheParams DEF IsParam
<1>2. CASE i \in 10 .. 13
  BY <1>2, SqlRoutes, TheParams DEF IsParam
<1>3. CASE i \in {14, 15, 16, 17, 18, 20, 21}
  BY <1>3, StreamRoutes, TheParams DEF IsParam
<1>4. CASE i \in {1, 19, 22, 23, 24, 25}
  BY <1>4, OtherRoutes, TheParams DEF IsParam
<1> QED
  BY <1>1, <1>2, <1>3, <1>4

\* Where a url cannot be for two routes: both spell out a word, and the words differ.
LEMMA StorageApart ==
  ASSUME NEW i \in 2 .. 9, NEW j \in 2 .. 9, Method(i) = Method(j),
         \A k \in 1 .. Size(j) :
            IsParam(Word(i, k)) \/ IsParam(Word(j, k)) \/ Word(i, k) = Word(j, k)
  PROVE  i = j
<1>1. \A n \in 2 .. 9 : Size(n) >= 3 /\ ~IsParam(Word(n, 3))
  BY StorageRoutes, TheParams DEF IsParam
<1>2. Word(i, 3) = Word(j, 3)
  BY <1>1, Words
<1> QED
  BY <1>2, StorageRoutes

LEMMA SqlApart ==
  ASSUME NEW i \in 10 .. 13, NEW j \in 10 .. 13, Size(i) = Size(j),
         \A k \in 1 .. Size(j) :
            IsParam(Word(i, k)) \/ IsParam(Word(j, k)) \/ Word(i, k) = Word(j, k)
  PROVE  i = j
<1>1. \A n \in 10 .. 13 : Size(n) = 3 => ~IsParam(Word(n, 3))
  BY SqlRoutes, TheParams DEF IsParam
<1>2. ASSUME Size(i) = 3 PROVE Word(i, 3) = Word(j, 3)
  <2>1. Size(j) = 3
    BY <1>2
  <2>2. 3 \in 1 .. Size(j)
    BY <2>1
  <2>3. ~IsParam(Word(i, 3)) /\ ~IsParam(Word(j, 3))
    BY <1>1, <1>2, <2>1
  <2> QED
    BY <2>2, <2>3
<1> QED
  BY <1>2, SqlRoutes

LEMMA V1Apart ==
  ASSUME NEW i \in (14 .. 21) \cup (23 .. 25), NEW j \in (14 .. 21) \cup (23 .. 25),
         Method(i) = Method(j), Size(i) = Size(j),
         \A k \in 1 .. Size(j) :
            IsParam(Word(i, k)) \/ IsParam(Word(j, k)) \/ Word(i, k) = Word(j, k)
  PROVE  i = j
<1> DEFINE S == {14, 15, 16, 17, 18, 20, 21}
           Admin == {23, 24, 25}
<1>1. \A n \in S : Word(n, 2) = "streams" /\ Size(n) >= 2
  BY StreamRoutes
<1>2. Word(19, 2) = "ingest" /\ Size(19) = 3
  BY OtherRoutes
<1>3. \A n \in Admin : Word(n, 2) = "admin" /\ Size(n) >= 3
  BY OtherRoutes
<1>4. \A n \in S \cup {19} \cup Admin : ~IsParam(Word(n, 2)) /\ Size(n) >= 2
  <2>1. ~IsParam("streams") /\ ~IsParam("ingest") /\ ~IsParam("admin")
    BY TheParams DEF IsParam
  <2>2. \A n \in S : ~IsParam(Word(n, 2)) /\ Size(n) >= 2
    BY <1>1, <2>1
  <2>3. ~IsParam(Word(19, 2)) /\ Size(19) >= 2
    BY <1>2, <2>1
  <2>4. \A n \in Admin : ~IsParam(Word(n, 2)) /\ Size(n) >= 2
    <3>1. \A n \in Admin : Size(n) >= 2
      BY OtherRoutes
    <3> QED
      BY <1>3, <2>1, <3>1
  <2> HIDE DEF S, Admin
  <2> QED
    BY <2>2, <2>3, <2>4
<1>5. i \in S \cup {19} \cup Admin /\ j \in S \cup {19} \cup Admin
  OBVIOUS
<1>6. Word(i, 2) = Word(j, 2)
  BY <1>4, <1>5, Words
<1>7. CASE i \in S
  <2>1. j \in S
    BY <1>1, <1>2, <1>3, <1>5, <1>6, <1>7
  <2>2. \A n \in S : Size(n) = 4 => ~IsParam(Word(n, 4))
    BY StreamRoutes, TheParams DEF IsParam
  <2>3. ASSUME Size(i) = 4 PROVE Word(i, 4) = Word(j, 4)
    <3>1. Size(j) = 4
      BY <2>3
    <3>2. 4 \in 1 .. Size(j)
      BY <3>1
    <3>3. ~IsParam(Word(i, 4)) /\ ~IsParam(Word(j, 4))
      BY <1>7, <2>1, <2>2, <2>3, <3>1
    <3> QED
      BY <3>2, <3>3
  <2> QED
    BY <1>7, <2>1, <2>3, StreamRoutes
<1>8. CASE i \in Admin
  <2>1. j \in Admin
    BY <1>1, <1>2, <1>3, <1>5, <1>6, <1>8
  <2>2. \A n \in Admin : ~IsParam(Word(n, 3))
    BY OtherRoutes, TheParams DEF IsParam
  <2>3. Word(i, 3) = Word(j, 3)
    BY <1>3, <1>8, <2>1, <2>2
  <2> QED
    BY <1>8, <2>1, <2>3, OtherRoutes
<1>9. CASE i = 19
  BY <1>1, <1>2, <1>3, <1>5, <1>6, <1>9
<1> QED
  BY <1>5, <1>7, <1>8, <1>9

\* Only the route itself fits what its template becomes.
LEMMA RoutesApart ==
  ASSUME NEW i \in 1 .. 25, NEW j \in 1 .. 25, NEW url, Len(url) = Size(i),
         \A k \in 1 .. Size(i) : IsParam(Word(i, k)) \/ url[k] = Word(i, k),
         Fits(Routes[j], Method(i), url)
  PROVE  i = j
<1>1. /\ Method(j) = Method(i)
      /\ IF IsRest(Word(j, Size(j))) THEN Size(i) >= Size(j) ELSE Size(i) = Size(j)
      /\ \A k \in 1 .. Size(j) : IsParam(Word(j, k)) \/ Word(j, k) = url[k]
  BY DEF Fits, Method, Size, Word, Places, Last
<1>2. Size(i) \in 1 .. 6 /\ Size(j) \in 1 .. 6 /\ Size(j) <= Size(i)
  <2>1. Size(i) \in 1 .. 6 /\ Size(j) \in 1 .. 6
    BY Words
  <2> QED
    BY <1>1, <2>1
<1>3. \A k \in 1 .. Size(j) :
         IsParam(Word(i, k)) \/ IsParam(Word(j, k)) \/ Word(i, k) = Word(j, k)
  BY <1>1, <1>2
<1>4. Word(i, 1) = Word(j, 1)
  <2>1. 1 \in 1 .. Size(j)
    BY <1>2
  <2>2. ~IsParam(Word(i, 1)) /\ ~IsParam(Word(j, 1))
    BY FirstWords
  <2> QED
    BY <1>3, <2>1, <2>2
<1>5. CASE Word(i, 1) = "storage"
  BY <1>1, <1>3, <1>4, <1>5, FirstWords, StorageApart
<1>6. CASE Word(i, 1) # "storage"
  <2>1. Size(i) = Size(j)
    <3>1. j \notin 2 .. 9
      <4>1. \A n \in 2 .. 9 : Word(n, 1) = "storage"
        BY StorageRoutes
      <4> QED
        BY <1>4, <1>6, <4>1
    <3> QED
      BY <1>1, <3>1, Rests
  <2>2. CASE Word(i, 1) = "sql"
    BY <1>3, <1>4, <2>1, <2>2, FirstWords, SqlApart
  <2>3. CASE Word(i, 1) = "v1"
    BY <1>1, <1>3, <1>4, <2>1, <2>3, FirstWords, V1Apart
  <2>4. CASE Word(i, 1) \in {"healthz", "agent"}
    BY <1>4, <2>4, FirstWords
  <2> QED
    BY <1>6, <2>2, <2>3, <2>4, FirstWords
<1> QED
  BY <1>5, <1>6
-----------------------------------------------------------------------------
(* From a name to its route, and from a url to it.                         *)

\* Of the routes of a name one is the last.
LEMMA NamedOne ==
  ASSUME NEW name
  PROVE  /\ RouteByName(name) \subseteq {i \in 1 .. 25 : ToolName(Routes[i]) = name}
         /\ \A i, j \in RouteByName(name) : i = j
         /\ (\E i \in 1 .. 25 : ToolName(Routes[i]) = name) => RouteByName(name) # {}
<1> DEFINE is == {i \in 1 .. 25 : ToolName(Routes[i]) = name}
<1>1. RouteByName(name) = {i \in is : \A j \in is : j <= i}
  BY DomainOfRoutes DEF RouteByName
<1>2. is # {} => \E i \in is : \A j \in is : j <= i
  <2>1. is \subseteq 0 .. 25 /\ 25 \in Nat
    OBVIOUS
  <2> HIDE DEF is
  <2> QED
    BY <2>1, GreatestNumber
<1>3. \A i, j \in RouteByName(name) : i = j
  BY <1>1
<1> QED
  BY <1>1, <1>2, <1>3

\* A url that fits a route is given to one of the routes it fits.
LEMMA ReachedOne ==
  ASSUME NEW method, NEW url, NEW i \in 1 .. 25, Fits(Routes[i], method, url)
  PROVE  /\ Reached(method, url) # {}
         /\ Reached(method, url) \subseteq {j \in 1 .. 25 : Fits(Routes[j], method, url)}
<1> DEFINE is == {j \in 1 .. 25 : Fits(Routes[j], method, url)}
<1>1. Reached(method, url) = {n \in is : \A j \in is : n <= j}
  BY DomainOfRoutes DEF Reached
<1>2. \E n \in is : \A j \in is : n <= j
  <2>1. is \subseteq Nat /\ is # {}
    OBVIOUS
  <2> HIDE DEF is
  <2> QED
    BY <2>1, LeastNumber
<1> QED
  BY <1>1, <1>2

LEMMA Placeholders ==
  /\ DOMAIN Placeholder = {"bucket", "path", "source_id", "dlq_id", "run_id"}
  /\ Placeholder["bucket"] = "BUCKET" /\ Placeholder["path"] = "PATH"
  /\ Placeholder["source_id"] = "SOURCE_ID" /\ Placeholder["dlq_id"] = "DLQ_ID"
  /\ Placeholder["run_id"] = "RUN_ID"
BY DEF Placeholder

\* A place that is no rest is a parameter's if it holds the placeholder of it.
LEMMA PlaceOf ==
  ASSUME NEW p \in DOMAIN Placeholder \ {"path"}, NEW w
  PROVE  /\ IsParam(w) /\ ParamOf[w] = p <=> w = Placeholder[p]
         /\ w = Placeholder[p] => ~IsRest(w)
         /\ \A q \in DOMAIN Placeholder : Placeholder[q] = Placeholder[p] => q = p
<1>1. \A q \in DOMAIN Placeholder : Placeholder[q] = Placeholder[p] => q = p
  BY Placeholders
<1>2. CASE IsParam(w)
  BY <1>1, <1>2, Placeholders, TheParams DEF IsParam, IsRest
<1>3. CASE ~IsParam(w)
  <2>1. w # Placeholder[p]
    BY <1>3, Placeholders, TheParams DEF IsParam
  <2> QED
    BY <1>1, <1>3, <2>1
<1> QED
  BY <1>2, <1>3

\* Arguments of one segment each.
Single(args, W) ==
    \A p \in DOMAIN args \ {"path"} : args[p] \in Seq(W) /\ Len(args[p]) = 1

\* Place by place, a word that is spelled out stays, and a placeholder becomes its
\* argument.
Replaces(url, i, args) ==
    /\ Len(url) = Size(i)
    /\ \A n \in 1 .. Size(i) :
         /\ ~IsParam(Word(i, n)) => url[n] = Word(i, n)
         /\ \A p \in DOMAIN args \ {"path"} :
               Word(i, n) = Placeholder[p] => url[n] = args[p][1]

LEMMA FilledIs ==
  ASSUME NEW i \in 1 .. 25, NEW args, DOMAIN args \subseteq DOMAIN Placeholder, NEW W,
         Single(args, W)
  PROVE  Replaces(Filled(Routes[i], args), i, args)
<1> DEFINE Keys(n) == {k \in DOMAIN args : Placeholder[k] = Word(i, n)}
           Piece(n) == IF Keys(n) = {} THEN <<Word(i, n)>> ELSE args[CHOOSE k \in Keys(n) : TRUE]
           pieces == [n \in 1 .. Size(i) |-> Piece(n)]
           T == W \cup {Word(i, n) : n \in 1 .. Size(i)}
<1>1. Filled(Routes[i], args) = FlattenSeq(pieces)
  BY DEF Filled, Places, Word, Size
<1>2. ASSUME NEW n \in 1 .. Size(i)
      PROVE  /\ Piece(n) \in Seq(T) /\ Len(Piece(n)) = 1
             /\ ~IsParam(Word(i, n)) => Piece(n)[1] = Word(i, n)
             /\ \A p \in DOMAIN args \ {"path"} :
                    Word(i, n) = Placeholder[p] => Piece(n)[1] = args[p][1]
  <2>1. CASE Keys(n) = {}
    <3>1. Piece(n) = <<Word(i, n)>> /\ Word(i, n) \in T
      BY <2>1
    <3>2. \A p \in DOMAIN args : Word(i, n) # Placeholder[p]
      BY <2>1
    <3> HIDE DEF Piece, T, Keys
    <3> QED
      BY <3>1, <3>2
  <2>2. CASE Keys(n) # {}
    <3>1. PICK k \in DOMAIN args : Placeholder[k] = Word(i, n) /\ Piece(n) = args[k]
      BY <2>2
    <3>2. k # "path"
      BY <3>1, Placeholders, Words
    <3>3. args[k] \in Seq(W) /\ Len(args[k]) = 1
      BY <3>2 DEF Single
    <3>4. IsParam(Word(i, n))
      BY <3>1, <3>2, PlaceOf
    <3>5. \A p \in DOMAIN args \ {"path"} : Word(i, n) = Placeholder[p] => p = k
      BY <3>1, PlaceOf
    <3>6. Piece(n) \in Seq(T)
      <4>1. W \subseteq T
        OBVIOUS
      <4> HIDE DEF Piece, T, Keys
      <4> QED
        BY <3>1, <3>3, <4>1
    <3> HIDE DEF Piece, T, Keys
    <3> QED
      BY <3>1, <3>3, <3>4, <3>5, <3>6
  <2> QED
    BY <2>1, <2>2
<1>3. Size(i) \in Nat
  <2>1. Size(i) \in 1 .. 6
    BY Words
  <2> QED
    BY <2>1
<1>4. pieces \in Seq(Seq(T)) /\ Len(pieces) = Size(i) /\ \A n \in 1 .. Size(i) : pieces[n] = Piece(n)
  <2> HIDE DEF Piece, T
  <2> QED
    BY <1>2, <1>3
<1>5. Len(FlattenSeq(pieces)) = Size(i)
      /\ \A n \in 1 .. Size(i) : FlattenSeq(pieces)[n] = Piece(n)[1]
  <2> HIDE DEF pieces, Piece, T
  <2>1. \A n \in 1 .. Len(pieces) : Len(pieces[n]) = 1
    BY <1>2, <1>4
  <2>2. Len(FlattenSeq(pieces)) = Len(pieces)
        /\ \A n \in 1 .. Len(pieces) : FlattenSeq(pieces)[n] = pieces[n][1]
    BY <1>4, <2>1, FlattenSingletons
  <2> QED
    BY <1>4, <2>2
<1> QED
  <2> HIDE DEF pieces, Piece, T
  <2> QED
    BY <1>1, <1>2, <1>5 DEF Replaces
-----------------------------------------------------------------------------
(* What a call records.                                                    *)

LEMMA OtherIs ==
  ASSUME NEW actor, NEW name, NEW via
  PROVE  /\ Other(actor, name, via).actor = actor /\ Other(actor, name, via).name = name
         /\ Other(actor, name, via).listed = Listed(actor)
         /\ Other(actor, name, via).outcome.via = via
         /\ via \in {"unavailable", "unknown", "local", "remote", "unopened", "error"} =>
                Other(actor, name, via).outcome \in Outcome
BY DEF Other, Nothing, Outcome

LEMMA RemoteCallIs ==
  ASSUME NEW name
  PROVE  RemoteCall(name) \in {"unopened", "remote", "error"}
BY DEF RemoteCall

LEMMA HttpIs ==
  ASSUME NEW actor, NEW name, NEW args
  PROVE  /\ Http(actor, name, args).actor = actor /\ Http(actor, name, args).name = name
         /\ Http(actor, name, args).args = args
         /\ Http(actor, name, args).listed = Listed(actor)
         /\ Http(actor, name, args).outcome.via = "http"
         /\ Http(actor, name, args).outcome \in Outcome
<1> DEFINE route == Routes[CHOOSE i \in RouteByName(name) : TRUE]
           hit == Reached(route.method, Filled(route, args))
           is == IF hit = {} THEN 0 ELSE CHOOSE i \in hit : TRUE
<1>1. hit \subseteq DOMAIN Routes
  BY DEF Reached
<1>2. is \in DOMAIN Routes \cup {0}
  BY <1>1
<1>3. /\ Http(actor, name, args).actor = actor /\ Http(actor, name, args).name = name
      /\ Http(actor, name, args).args = args
      /\ Http(actor, name, args).listed = Listed(actor)
      /\ Http(actor, name, args).outcome = [via |-> "http", route |-> is]
  BY DEF Http
<1>4. [via |-> "http", route |-> is] \in Outcome
  <2> HIDE DEF is
  <2> QED
    BY <1>2 DEF Outcome
<1> HIDE DEF is
<1> QED
  BY <1>3, <1>4

\* What a call of the agent and a call of a client of MCP can come to.
LEMMA AgentCallIs ==
  ASSUME NEW name, NEW args, AgentCall(name, args)
  PROVE  /\ "agent" \in Actors
         /\ \/ name \notin offered /\ last' = Other("agent", name, "unavailable")
            \/ name \in LocalTools /\ last' = Other("agent", name, "local")
            \/ last' = Other("agent", name, RemoteCall(name))
            \/ /\ ~(HasRemote /\ Owns(name)) /\ RouteByName(name) = {} /\ name \notin LocalTools
               /\ last' = Other("agent", name, "unknown")
            \/ RouteByName(name) # {} /\ last' = Http("agent", name, args)
         /\ UNCHANGED <<remote, discovered, there, changes, offered>>
BY DEF AgentCall

LEMMA McpCallIs ==
  ASSUME NEW name, NEW args, McpCall(name, args)
  PROVE  /\ "mcp" \in Actors
         /\ \/ last' = Other("mcp", name, RemoteCall(name))
            \/ /\ ~(HasRemote /\ Owns(name)) /\ RouteByName(name) = {}
               /\ last' = Other("mcp", name, "unknown")
            \/ RouteByName(name) # {} /\ last' = Http("mcp", name, args)
         /\ UNCHANGED <<remote, discovered, there, changes, offered>>
BY DEF McpCall
-----------------------------------------------------------------------------
(* The type invariant.                                                     *)

LEMMA InitType == Init => TypeOK
BY DEF Init, TypeOK

LEMMA NextType == TypeOK /\ [Next]_vars => TypeOK'
<1> SUFFICES ASSUME TypeOK, [Next]_vars PROVE TypeOK'
  OBVIOUS
<1>1. CASE Open
  BY <1>1 DEF Open, TypeOK
<1>2. CASE Close
  BY <1>2 DEF Close, TypeOK
<1>3. CASE RemoteChange
  BY <1>3 DEF RemoteChange, TypeOK
<1>4. ASSUME NEW allowed, BeginRun(allowed) PROVE TypeOK'
  BY <1>4 DEF BeginRun, TypeOK
<1>5. ASSUME NEW name, NEW args, AgentCall(name, args) PROVE TypeOK'
  <2>1. last'.actor \in Actors /\ last'.outcome \in Outcome
    <3>1. CASE name \notin offered /\ last' = Other("agent", name, "unavailable")
      BY <1>5, <3>1, AgentCallIs, OtherIs
    <3>2. CASE name \in LocalTools /\ last' = Other("agent", name, "local")
      BY <1>5, <3>2, AgentCallIs, OtherIs
    <3>3. CASE last' = Other("agent", name, RemoteCall(name))
      BY <1>5, <3>3, AgentCallIs, OtherIs, RemoteCallIs
    <3>4. CASE last' = Other("agent", name, "unknown")
      BY <1>5, <3>4, AgentCallIs, OtherIs
    <3>5. CASE last' = Http("agent", name, args)
      BY <1>5, <3>5, AgentCallIs, HttpIs
    <3> QED
      BY <1>5, <3>1, <3>2, <3>3, <3>4, <3>5, AgentCallIs
  <2> QED
    BY <1>5, <2>1, AgentCallIs DEF TypeOK, Outcome
<1>6. ASSUME NEW name, NEW args, McpCall(name, args) PROVE TypeOK'
  <2>1. last'.actor \in Actors /\ last'.outcome \in Outcome
    <3>1. CASE last' = Other("mcp", name, RemoteCall(name))
      BY <1>6, <3>1, McpCallIs, OtherIs, RemoteCallIs
    <3>2. CASE last' = Other("mcp", name, "unknown")
      BY <1>6, <3>2, McpCallIs, OtherIs
    <3>3. CASE last' = Http("mcp", name, args)
      BY <1>6, <3>3, McpCallIs, HttpIs
    <3> QED
      BY <1>6, <3>1, <3>2, <3>3, McpCallIs
  <2> QED
    BY <1>6, <2>1, McpCallIs DEF TypeOK, Outcome
<1>7. CASE UNCHANGED vars
  BY <1>7 DEF vars, TypeOK, Outcome
<1> QED
  BY <1>1, <1>2, <1>3, <1>4, <1>5, <1>6, <1>7 DEF Next

\* The tools a run was offered and what the remote server listed stay what they are
\* made of; calls end in an outcome of a route or of none.
THEOREM TypeCorrect == Spec => []TypeOK
BY InitType, NextType, PTL DEF Spec
-----------------------------------------------------------------------------
(* What is listed is served.                                               *)

\* A run is offered remote tools only if there is a client to own their names, and
\* there is one from then on.
OfferedOwned == HasRemote \/ offered \subseteq Catalog \cup LocalTools

LEMMA InitOwned == Init => OfferedOwned
BY DEF Init, OfferedOwned

LEMMA NextOwned == TypeOK /\ OfferedOwned /\ [Next]_vars => OfferedOwned'
<1> SUFFICES ASSUME TypeOK, OfferedOwned, [Next]_vars PROVE OfferedOwned'
  OBVIOUS
<1>1. CASE Open
  BY <1>1 DEF Open, OfferedOwned, HasRemote
<1>2. CASE Close
  BY <1>2 DEF Close, OfferedOwned, HasRemote
<1>3. CASE RemoteChange
  BY <1>3 DEF RemoteChange, OfferedOwned, HasRemote
<1>4. ASSUME NEW allowed, BeginRun(allowed) PROVE OfferedOwned'
  <2>1. HasRemote \/ discovered = {}
    BY DEF TypeOK, HasRemote
  <2> QED
    BY <1>4, <2>1 DEF BeginRun, OfferedOwned, HasRemote
<1>5. ASSUME NEW name, NEW args, AgentCall(name, args) PROVE OfferedOwned'
  BY <1>5, AgentCallIs DEF OfferedOwned, HasRemote
<1>6. ASSUME NEW name, NEW args, McpCall(name, args) PROVE OfferedOwned'
  BY <1>6, McpCallIs DEF OfferedOwned, HasRemote
<1>7. CASE UNCHANGED vars
  BY <1>7 DEF vars, OfferedOwned, HasRemote
<1> QED
  BY <1>1, <1>2, <1>3, <1>4, <1>5, <1>6, <1>7 DEF Next

\* A name of the catalog is a route's, a name of a remote tool is owned.
LEMMA ListedHasServer ==
  ASSUME NEW name, NEW tools,
         name \in Catalog \cup LocalTools \cup {RemoteName(t) : t \in tools},
         HasRemote \/ name \in Catalog \cup LocalTools
  PROVE  (HasRemote /\ Owns(name)) \/ RouteByName(name) # {} \/ name \in LocalTools
<1>1. CASE name \in Catalog
  BY <1>1, NamedOne, DomainOfRoutes DEF Catalog
<1>2. CASE name \notin Catalog \cup LocalTools
  <2>1. PICK t \in tools : name = RemoteName(t)
    BY <1>2
  <2> QED
    BY <1>2, <2>1 DEF RemoteName, Owns
<1> QED
  BY <1>1, <1>2

LEMMA NextServed ==
  TypeOK /\ OfferedOwned /\ ListedIsServed /\ [Next]_vars => ListedIsServed'
<1> SUFFICES ASSUME TypeOK, OfferedOwned, ListedIsServed, [Next]_vars
             PROVE  ListedIsServed'
  OBVIOUS
<1>1. CASE UNCHANGED last
  BY <1>1 DEF ListedIsServed
<1>2. ASSUME NEW allowed, BeginRun(allowed) PROVE ListedIsServed'
  BY <1>2 DEF BeginRun, ListedIsServed
<1>3. ASSUME NEW name, NEW args, AgentCall(name, args) PROVE ListedIsServed'
  <2> SUFFICES ASSUME last'.name \in last'.listed
               PROVE  last'.outcome.via \notin {"unavailable", "unknown"}
    BY DEF ListedIsServed
  <2>1. last'.name = name /\ last'.listed = offered
    <3>1. \A via : /\ Other("agent", name, via).name = name
                   /\ Other("agent", name, via).listed = Listed("agent")
      BY OtherIs
    <3>2. last'.name = name /\ last'.listed = Listed("agent")
      BY <1>3, <3>1, AgentCallIs, HttpIs
    <3> QED
      BY <3>2 DEF Listed
  <2>2. (HasRemote /\ Owns(name)) \/ RouteByName(name) # {} \/ name \in LocalTools
    BY <2>1, ListedHasServer DEF TypeOK, OfferedOwned
  <2>3. CASE name \in LocalTools /\ last' = Other("agent", name, "local")
    BY <2>3, OtherIs
  <2>4. CASE last' = Other("agent", name, RemoteCall(name))
    BY <2>4, OtherIs, RemoteCallIs
  <2>5. CASE last' = Http("agent", name, args)
    BY <2>5, HttpIs
  <2> QED
    BY <1>3, <2>1, <2>2, <2>3, <2>4, <2>5, AgentCallIs
<1>4. ASSUME NEW name, NEW args, McpCall(name, args) PROVE ListedIsServed'
  <2> SUFFICES ASSUME last'.name \in last'.listed
               PROVE  last'.outcome.via \notin {"unavailable", "unknown"}
    BY DEF ListedIsServed
  <2>1. last'.name = name /\ last'.listed = Catalog \cup {RemoteName(t) : t \in discovered}
    <3>1. \A via : /\ Other("mcp", name, via).name = name
                   /\ Other("mcp", name, via).listed = Listed("mcp")
      BY OtherIs
    <3>2. last'.name = name /\ last'.listed = Listed("mcp")
      BY <1>4, <3>1, McpCallIs, HttpIs
    <3> QED
      BY <3>2 DEF Listed
  <2>2. HasRemote \/ name \in Catalog
    BY <2>1 DEF TypeOK, HasRemote
  <2>3. (HasRemote /\ Owns(name)) \/ RouteByName(name) # {}
    <3>1. CASE name \in Catalog
      BY <3>1, NamedOne, DomainOfRoutes DEF Catalog
    <3>2. CASE name \notin Catalog
      BY <2>1, <2>2, <3>2 DEF RemoteName, Owns
    <3> QED
      BY <3>1, <3>2
  <2>4. CASE last' = Other("mcp", name, RemoteCall(name))
    BY <2>4, OtherIs, RemoteCallIs
  <2>5. CASE last' = Http("mcp", name, args)
    BY <2>5, HttpIs
  <2> QED
    BY <1>4, <2>3, <2>4, <2>5, McpCallIs
<1> QED
  BY <1>1, <1>2, <1>3, <1>4 DEF Next, Open, Close, RemoteChange, vars

\* A tool that a run or a client of MCP was told of is never answered with "unknown"
\* or "not available", whatever the remote server did since it was listed.
THEOREM Served == Spec => []ListedIsServed
<1>1. Init => ListedIsServed
  BY DEF Init, ListedIsServed
<1> QED
  BY <1>1, InitType, NextType, InitOwned, NextOwned, NextServed, PTL DEF Spec
-----------------------------------------------------------------------------
(* A call arrives.                                                         *)

\* The values of every parameter but "path" are of one segment, as the names of
\* buckets, the numbers of dead letters and the like are: nothing in the code quotes a
\* "/" in them.
OneSegment ==
    \E W : \A p \in DOMAIN Placeholder \ {"path"} :
        \A v \in ValuesOf[p] : v \in Seq(W) /\ Len(v) = 1

\* The url that the template of a route becomes is given to that route, and its handler
\* finds the arguments in their places.
LEMMA RouteReached ==
  ASSUME OneSegment, NEW i \in 1 .. 25, NEW args, DOMAIN args = Params(Routes[i]),
         \A p \in DOMAIN args : args[p] \in ValuesOf[p]
  PROVE  LET url == Filled(Routes[i], args) IN
         /\ Reached(Method(i), url) = {i}
         /\ \A p \in DOMAIN args \ {"path"} : Bound(Routes[i], url)[p] = args[p]
<1> DEFINE url == Filled(Routes[i], args)
<1>1. DOMAIN args \subseteq DOMAIN Placeholder
  <2>1. \A w : IsParam(w) => ParamOf[w] \in DOMAIN Placeholder
    BY TheParams, Placeholders DEF IsParam
  <2> QED
    BY <2>1 DEF Params
<1>2. PICK W : Single(args, W)
  BY <1>1 DEF OneSegment, Single
<1>3. Replaces(url, i, args)
  BY <1>1, <1>2, FilledIs
<1> HIDE DEF url
<1>4. Fits(Routes[i], Method(i), url)
  <2>1. Size(i) \in 1 .. 6
    BY Words
  <2> QED
    BY <1>3, <2>1 DEF Replaces, Fits, Method, Size, Word, Places, Last
<1>5. Reached(Method(i), url) = {i}
  <2>1. /\ Reached(Method(i), url) # {}
        /\ \A j \in Reached(Method(i), url) : j \in 1 .. 25 /\ Fits(Routes[j], Method(i), url)
    BY <1>4, ReachedOne
  <2>2. \A j \in Reached(Method(i), url) : j = i
    BY <1>3, <2>1, RoutesApart DEF Replaces
  <2> QED
    BY <2>1, <2>2
<1>6. ASSUME NEW p \in DOMAIN args \ {"path"} PROVE Bound(Routes[i], url)[p] = args[p]
  <2> DEFINE At(n) == IsParam(Word(i, n)) /\ ParamOf[Word(i, n)] = p
             n == CHOOSE n \in 1 .. Size(i) : At(n)
  <2>1. \E m \in 1 .. Size(i) : At(m)
    BY DEF Params, Places, Size, Word
  <2>2. n \in 1 .. Size(i) /\ At(n)
    BY <2>1
  <2>3. Bound(Routes[i], url)[p] =
           IF IsRest(Word(i, n)) THEN SubSeq(url, n, Len(url)) ELSE <<url[n]>>
    BY DEF Bound, Places, Size, Word
  <2> HIDE DEF n
  <2>4. Word(i, n) = Placeholder[p] /\ ~IsRest(Word(i, n))
    BY <1>1, <2>2, PlaceOf
  <2>5. url[n] = args[p][1]
    BY <1>3, <2>2, <2>4 DEF Replaces
  <2>6. args[p] = <<args[p][1]>>
    BY <1>2 DEF Single
  <2> QED
    BY <2>3, <2>4, <2>5, <2>6
<1> QED
  BY <1>5, <1>6 DEF url

LEMMA HttpArrives ==
  ASSUME OneSegment, NEW actor, NEW name, RouteByName(name) # {}, NEW args \in Arguments(name)
  PROVE  /\ Http(actor, name, args).outcome.route # 0
         /\ ToolName(Routes[Http(actor, name, args).outcome.route]) = name
         /\ \A p \in DOMAIN args : p # "path" => Http(actor, name, args).seen[p] = args[p]
<1> DEFINE i == CHOOSE i \in RouteByName(name) : TRUE
           url == Filled(Routes[i], args)
           hit == Reached(Routes[i].method, url)
<1>1. i \in RouteByName(name) /\ i \in 1 .. 25 /\ ToolName(Routes[i]) = name
  BY NamedOne
<1>2. RouteByName(name) = {i}
  BY <1>1, NamedOne
<1>3. DOMAIN args = Params(Routes[i]) /\ \A p \in DOMAIN args : args[p] \in ValuesOf[p]
  <2>1. UNION {Params(Routes[j]) : j \in RouteByName(name)} = Params(Routes[i])
    BY <1>2
  <2> QED
    BY <2>1 DEF Arguments
<1>4. hit = {i} /\ \A p \in DOMAIN args \ {"path"} : Bound(Routes[i], url)[p] = args[p]
  <2> HIDE DEF i
  <2> QED
    BY <1>1, <1>3, RouteReached DEF Method
<1>5. /\ Http(actor, name, args).outcome =
            [via |-> "http", route |-> IF hit = {} THEN 0 ELSE CHOOSE j \in hit : TRUE]
      /\ Http(actor, name, args).seen =
            IF hit = {} THEN Empty ELSE Bound(Routes[CHOOSE j \in hit : TRUE], url)
  BY DEF Http
<1> HIDE DEF i, url, hit
<1>6. hit # {} /\ (CHOOSE j \in hit : TRUE) = i /\ i # 0
  BY <1>1, <1>4
<1> QED
  BY <1>1, <1>4, <1>5, <1>6

LEMMA NextArrives ==
  OneSegment /\ RouteIsReached /\ [Next]_vars => RouteIsReached'
<1> SUFFICES ASSUME OneSegment, RouteIsReached, [Next]_vars
             PROVE  RouteIsReached'
  OBVIOUS
<1>1. CASE UNCHANGED last
  BY <1>1 DEF RouteIsReached
<1>2. ASSUME NEW allowed, BeginRun(allowed) PROVE RouteIsReached'
  BY <1>2 DEF BeginRun, RouteIsReached
<1>3. ASSUME NEW name, NEW args \in Arguments(name), NEW actor,
             \/ \E via \in {"unavailable", "unknown", "local", "remote", "unopened", "error"} :
                    last' = Other(actor, name, via)
             \/ RouteByName(name) # {} /\ last' = Http(actor, name, args)
      PROVE  RouteIsReached'
  <2>1. CASE \E via \in {"unavailable", "unknown", "local", "remote", "unopened", "error"} :
                    last' = Other(actor, name, via)
    <3>1. last'.outcome.via # "http"
      BY <2>1, OtherIs
    <3> QED
      BY <3>1 DEF RouteIsReached
  <2>2. CASE RouteByName(name) # {} /\ last' = Http(actor, name, args)
    <3>1. /\ last'.outcome.route # 0 /\ ToolName(Routes[last'.outcome.route]) = name
          /\ \A p \in DOMAIN args : p # "path" => last'.seen[p] = args[p]
      BY <2>2, HttpArrives
    <3>2. last'.name = name /\ last'.args = args
      BY <2>2, HttpIs
    <3> QED
      BY <3>1, <3>2 DEF RouteIsReached
  <2> QED
    BY <1>3, <2>1, <2>2
<1>4. ASSUME NEW name \in Names, NEW args \in Arguments(name), AgentCall(name, args)
      PROVE  RouteIsReached'
  BY <1>3, <1>4, AgentCallIs, RemoteCallIs
<1>5. ASSUME NEW name \in Names, NEW args \in Arguments(name), McpCall(name, args)
      PROVE  RouteIsReached'
  BY <1>3, <1>5, McpCallIs, RemoteCallIs
<1> QED
  BY <1>1, <1>2, <1>4, <1>5 DEF Next, Open, Close, RemoteChange, vars

\* A call of a route's tool arrives at the handler the tool was made of, with every
\* argument but the path as it was given, for any values of one segment: also when they
\* are words of other routes, and whatever routes come before.
THEOREM Arrives ==
  ASSUME OneSegment
  PROVE  Spec => []RouteIsReached
<1>1. Init => RouteIsReached
  BY DEF Init, RouteIsReached
<1>2. RouteIsReached /\ [Next]_vars => RouteIsReached'
  BY NextArrives
<1> QED
  BY <1>1, <1>2, PTL DEF Spec
=============================================================================
