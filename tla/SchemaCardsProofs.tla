------------------------- MODULE SchemaCardsProofs -------------------------
(***************************************************************************)
(* Machine-checked facts about SchemaCards, for every number of tables,    *)
(* callers, scopes and faults, and whatever the names of the tables are.   *)
(*                                                                         *)
(* The first half is about texts: a scope that is written entry by entry   *)
(* is read entry by entry, since the tokenizers are loops over characters  *)
(* whose state after a piece of text depends on the state before it only.  *)
(* The second half is about the cache and its callers.                     *)
(***************************************************************************)
EXTENDS SchemaCards, SequenceFacts
-----------------------------------------------------------------------------
(* How a scope is read: the tokenizer as a loop over sequences of C.        *)

ScanState(C) == [parts : Seq(Seq(C)), buf : Seq(C), quoted : BOOLEAN]
ScanStart == [parts |-> <<>>, buf |-> <<>>, quoted |-> FALSE]

ScanStep(st, c, delim, quotes) ==
    IF c = delim /\ ~st.quoted
    THEN [st EXCEPT !.parts = Append(@, st.buf), !.buf = <<>>]
    ELSE [st EXCEPT !.buf = Append(@, c), !.quoted = IF c \in quotes THEN ~@ ELSE @]

ScanLoop(C, delim, quotes) ==
    [p \in ScanState(C) \X C |-> ScanStep(p[1], p[2], delim, quotes)]

\* The state after t, from st.
ScanFrom(C, delim, quotes, st, t) == Iterated(ScanState(C), st, ScanLoop(C, delim, quotes), t)

LEMMA ScanStepType ==
  ASSUME NEW C, NEW delim, NEW quotes, NEW st \in ScanState(C), NEW c \in C
  PROVE  /\ ScanStep(st, c, delim, quotes) \in ScanState(C)
         /\ ScanLoop(C, delim, quotes)[<<st, c>>] = ScanStep(st, c, delim, quotes)
<1>1. st.parts \in Seq(Seq(C)) /\ st.buf \in Seq(C) /\ st.quoted \in BOOLEAN
  BY DEF ScanState
<1>2. Append(st.parts, st.buf) \in Seq(Seq(C)) /\ <<>> \in Seq(C) /\ Append(st.buf, c) \in Seq(C)
  BY <1>1
<1>3. ScanStep(st, c, delim, quotes) \in ScanState(C)
  BY <1>1, <1>2 DEF ScanStep, ScanState
<1> QED
  BY <1>3 DEF ScanLoop

LEMMA ScanIsLoop ==
  ASSUME NEW C, NEW delim, NEW quotes, NEW st \in ScanState(C)
  PROVE  IsLoop(ScanState(C), C, st, ScanLoop(C, delim, quotes))
<1>1. \A p \in ScanState(C) \X C : ScanStep(p[1], p[2], delim, quotes) \in ScanState(C)
  BY ScanStepType
<1> QED
  BY <1>1 DEF IsLoop, ScanLoop

LEMMA ScanStartType ==
  ASSUME NEW C
  PROVE  ScanStart \in ScanState(C)
<1>1. <<>> \in Seq(C) /\ <<>> \in Seq(Seq(C))
  OBVIOUS
<1> QED
  BY <1>1 DEF ScanStart, ScanState

LEMMA ScanAppend ==
  ASSUME NEW C, NEW delim, NEW quotes, NEW st \in ScanState(C), NEW t \in Seq(C), NEW c \in C
  PROVE  ScanFrom(C, delim, quotes, st, Append(t, c))
            = ScanStep(ScanFrom(C, delim, quotes, st, t), c, delim, quotes)
<1>1. PICK L : L = ScanLoop(C, delim, quotes)
  OBVIOUS
<1>2. IsLoop(ScanState(C), C, st, L)
  BY <1>1, ScanIsLoop
<1>3. Iterated(ScanState(C), st, L, Append(t, c)) = L[<<Iterated(ScanState(C), st, L, t), c>>]
  BY <1>2, IteratedAppend
<1>4. Iterated(ScanState(C), st, L, t) \in ScanState(C)
  BY <1>2, IteratedType
<1> QED
  BY <1>1, <1>3, <1>4, ScanStepType DEF ScanFrom

LEMMA ScanRest ==
  ASSUME NEW C, NEW delim, NEW quotes, NEW st \in ScanState(C)
  PROVE  /\ ScanFrom(C, delim, quotes, st, <<>>) = st
         /\ \A t \in Seq(C) : ScanFrom(C, delim, quotes, st, t) \in ScanState(C)
<1>1. PICK L : L = ScanLoop(C, delim, quotes)
  OBVIOUS
<1>2. IsLoop(ScanState(C), C, st, L)
  BY <1>1, ScanIsLoop
<1>3. Iterated(ScanState(C), st, L, <<>>) = st
  BY <1>2, IteratedEmpty
<1>4. \A t \in Seq(C) : Iterated(ScanState(C), st, L, t) \in ScanState(C)
  BY <1>2, IteratedType
<1> QED
  BY <1>1, <1>3, <1>4 DEF ScanFrom

LEMMA ScanConcat ==
  ASSUME NEW C, NEW delim, NEW quotes, NEW st \in ScanState(C), NEW t \in Seq(C), NEW u \in Seq(C)
  PROVE  ScanFrom(C, delim, quotes, st, t \o u)
            = ScanFrom(C, delim, quotes, ScanFrom(C, delim, quotes, st, t), u)
<1>1. PICK L : L = ScanLoop(C, delim, quotes)
  OBVIOUS
<1>2. IsLoop(ScanState(C), C, st, L)
  BY <1>1, ScanIsLoop
<1>3. Iterated(ScanState(C), st, L, t \o u)
         = Iterated(ScanState(C), Iterated(ScanState(C), st, L, t), L, u)
  BY <1>2, IteratedConcat
<1> QED
  BY <1>1, <1>3 DEF ScanFrom

Scans(f, s, delim, quotes) ==
    f = [i \in 0 .. Len(s) |->
           IF i = 0 THEN [parts |-> <<>>, buf |-> <<>>, quoted |-> FALSE]
           ELSE IF s[i] = delim /\ ~f[i - 1].quoted
                THEN [f[i - 1] EXCEPT !.parts = Append(@, f[i - 1].buf), !.buf = <<>>]
                ELSE [f[i - 1] EXCEPT !.buf = Append(@, s[i]),
                                      !.quoted = IF s[i] \in quotes THEN ~@ ELSE @]]

LEMMA ScannedIs ==
  ASSUME NEW C, NEW delim, NEW quotes, NEW s \in Seq(C)
  PROVE  Scanned(s, delim, quotes) = ScanFrom(C, delim, quotes, ScanStart, s)
<1>1. PICK L : L = ScanLoop(C, delim, quotes)
  OBVIOUS
<1>2. IsLoop(ScanState(C), C, ScanStart, L)
  BY <1>1, ScanIsLoop, ScanStartType
<1>3. PICK r : Run(r, ScanState(C), ScanStart, L, s)
  BY <1>2, RunExists
<1>4. \A f : Scans(f, s, delim, quotes)
         <=> f = [i \in 0 .. Len(s) |->
                    IF i = 0 THEN ScanStart ELSE ScanStep(f[i - 1], s[i], delim, quotes)]
  BY DEF Scans, ScanStep, ScanStart
<1>5. Scans(r, s, delim, quotes)
  <2>1. r \in [0 .. Len(s) -> ScanState(C)] /\ r[0] = ScanStart
    BY <1>3 DEF Run
  <2>2. ASSUME NEW i \in 1 .. Len(s)
        PROVE  r[i] = ScanStep(r[i - 1], s[i], delim, quotes)
    <3>1. r[i] = L[<<r[i - 1], s[i]>>]
      BY <1>3 DEF Run
    <3>2. r[i - 1] \in ScanState(C) /\ s[i] \in C
      BY <2>1
    <3> QED
      BY <1>1, <3>1, <3>2, ScanStepType
  <2>3. r = [i \in 0 .. Len(s) |->
               IF i = 0 THEN ScanStart ELSE ScanStep(r[i - 1], s[i], delim, quotes)]
    BY <2>1, <2>2
  <2> QED
    BY <1>4, <2>3
<1> DEFINE f == CHOOSE f : Scans(f, s, delim, quotes)
<1>6. Scans(f, s, delim, quotes)
  BY <1>5
<1>7. Scanned(s, delim, quotes) = f[Len(s)]
  BY DEF Scanned, Scans
<1> HIDE DEF f
<1>8. Follows(f, ScanState(C), ScanStart, L, s)
  <2>1. f = [i \in 0 .. Len(s) |->
               IF i = 0 THEN ScanStart ELSE ScanStep(f[i - 1], s[i], delim, quotes)]
    BY <1>4, <1>6
  <2>2. f[0] = ScanStart
    BY <2>1
  <2>3. ASSUME NEW i \in 1 .. Len(s), f[i - 1] \in ScanState(C)
        PROVE  f[i] = L[<<f[i - 1], s[i]>>]
    <3>1. f[i] = ScanStep(f[i - 1], s[i], delim, quotes) /\ s[i] \in C
      BY <2>1
    <3> QED
      BY <1>1, <2>3, <3>1, ScanStepType
  <2> QED
    BY <2>2, <2>3 DEF Follows
<1>9. f[Len(s)] = Iterated(ScanState(C), ScanStart, L, s)
  BY <1>2, <1>8, IteratedIs
<1> QED
  BY <1>1, <1>7, <1>9 DEF ScanFrom

-----------------------------------------------------------------------------
(* Texts the tokenizer reads through: outside quotes before and after, and   *)
(* nothing split.                                                           *)

Plus(st, t) == [st EXCEPT !.buf = @ \o t]

ReadThrough(C, delim, quotes) ==
    {t \in Seq(C) : \A st \in ScanState(C) :
        ~st.quoted => ScanFrom(C, delim, quotes, st, t) = Plus(st, t)}

LEMMA PlusType ==
  ASSUME NEW C, NEW st \in ScanState(C), NEW t \in Seq(C), NEW u \in Seq(C)
  PROVE  /\ Plus(st, t) \in ScanState(C) /\ Plus(st, t).quoted = st.quoted
         /\ Plus(st, t).buf = st.buf \o t /\ Plus(st, t).parts = st.parts
         /\ Plus(Plus(st, t), u) = Plus(st, t \o u)
         /\ Plus(st, <<>>) = st
<1>1. st.buf \in Seq(C) /\ st.buf \o t \in Seq(C) /\ (st.buf \o t) \o u = st.buf \o (t \o u)
      /\ st.buf \o <<>> = st.buf
  BY DEF ScanState
<1> QED
  BY <1>1 DEF Plus, ScanState

LEMMA StateIs ==
  ASSUME NEW C, NEW st \in ScanState(C), NEW p, NEW b, st.parts = p, st.buf = b, ~st.quoted
  PROVE  st = [parts |-> p, buf |-> b, quoted |-> FALSE]
  BY DEF ScanState

LEMMA ReadThroughConcat ==
  ASSUME NEW C, NEW delim, NEW quotes,
         NEW t \in ReadThrough(C, delim, quotes), NEW u \in ReadThrough(C, delim, quotes)
  PROVE  t \o u \in ReadThrough(C, delim, quotes)
<1>1. t \in Seq(C) /\ u \in Seq(C) /\ t \o u \in Seq(C)
  BY DEF ReadThrough
<1>2. ASSUME NEW st \in ScanState(C), ~st.quoted
      PROVE  ScanFrom(C, delim, quotes, st, t \o u) = Plus(st, t \o u)
  <2>1. ScanFrom(C, delim, quotes, st, t) = Plus(st, t)
    BY <1>2 DEF ReadThrough
  <2>2. Plus(st, t) \in ScanState(C) /\ ~Plus(st, t).quoted
    BY <1>1, <1>2, PlusType
  <2>3. ScanFrom(C, delim, quotes, Plus(st, t), u) = Plus(Plus(st, t), u)
    BY <2>2 DEF ReadThrough
  <2>4. ScanFrom(C, delim, quotes, st, t \o u)
           = ScanFrom(C, delim, quotes, ScanFrom(C, delim, quotes, st, t), u)
    BY <1>1, ScanConcat
  <2>5. Plus(Plus(st, t), u) = Plus(st, t \o u)
    BY <1>1, PlusType
  <2> QED
    BY <2>1, <2>3, <2>4, <2>5
<1> QED
  BY <1>1, <1>2 DEF ReadThrough

LEMMA ReadThroughPlain ==
  ASSUME NEW C, NEW delim, NEW quotes, NEW t \in Seq(C),
         \A i \in 1 .. Len(t) : t[i] # delim /\ t[i] \notin quotes
  PROVE  t \in ReadThrough(C, delim, quotes)
<1> DEFINE D == {c \in C : c # delim /\ c \notin quotes}
           Q == ReadThrough(C, delim, quotes)
<1>1. t \in Seq(D)
  <2>1. \A i \in 1 .. Len(t) : t[i] \in D
    OBVIOUS
  <2> HIDE DEF D
  <2> QED
    BY <2>1
<1>2. <<>> \in Q
  <2>1. <<>> \in Seq(C)
    OBVIOUS
  <2>2. \A st \in ScanState(C) : ScanFrom(C, delim, quotes, st, <<>>) = Plus(st, <<>>)
    BY <2>1, ScanRest, PlusType
  <2> QED
    BY <2>1, <2>2 DEF ReadThrough
<1>3. ASSUME NEW u \in Seq(D), NEW c \in D, u \in Q PROVE Append(u, c) \in Q
  <2>1. u \in Seq(C) /\ c \in C /\ c # delim /\ c \notin quotes /\ Append(u, c) \in Seq(C)
        /\ <<c>> \in Seq(C)
    BY <1>3 DEF ReadThrough
  <2>0. Append(u, c) = u \o <<c>>
    BY <2>1
  <2> HIDE DEF D
  <2>2. ASSUME NEW st \in ScanState(C), ~st.quoted
        PROVE  ScanFrom(C, delim, quotes, st, Append(u, c)) = Plus(st, Append(u, c))
    <3>1. ScanFrom(C, delim, quotes, st, u) = Plus(st, u)
      BY <1>3, <2>2 DEF ReadThrough
    <3>2. ScanFrom(C, delim, quotes, st, Append(u, c)) = ScanStep(Plus(st, u), c, delim, quotes)
      <4>1. ScanFrom(C, delim, quotes, st, Append(u, c))
               = ScanStep(ScanFrom(C, delim, quotes, st, u), c, delim, quotes)
        BY <2>1, ScanAppend
      <4> QED
        BY <3>1, <4>1
    <3>3. Plus(st, u) \in ScanState(C) /\ ~Plus(st, u).quoted
      BY <2>1, <2>2, PlusType
    <3>4. ScanStep(Plus(st, u), c, delim, quotes) = Plus(Plus(st, u), <<c>>)
      <4>1. PICK x \in ScanState(C) : x = Plus(st, u)
        BY <3>3
      <4>2. Append(x.buf, c) = x.buf \o <<c>>
        BY <2>1 DEF ScanState
      <4>3. ScanStep(x, c, delim, quotes) = Plus(x, <<c>>)
        BY <2>1, <3>3, <4>1, <4>2 DEF ScanStep, Plus, ScanState
      <4> QED
        BY <4>1, <4>3
    <3>5. Plus(Plus(st, u), <<c>>) = Plus(st, u \o <<c>>)
      <4>1. PICK x \in Seq(C) : x = <<c>>
        BY <2>1
      <4>2. Plus(Plus(st, u), x) = Plus(st, u \o x)
        BY <2>1, PlusType
      <4> QED
        BY <4>1, <4>2
    <3> QED
      BY <2>0, <3>2, <3>4, <3>5
  <2> QED
    BY <2>1, <2>2 DEF ReadThrough
<1>4. \A u \in Seq(D) : u \in Q
  <2> HIDE DEF D, Q
  <2> QED
    BY <1>2, <1>3, SequenceInduction
<1> QED
  BY <1>1, <1>4

-----------------------------------------------------------------------------
(* Names in quotes.                                                         *)

Pair(c) == IF c = Quote THEN <<Quote, Quote>> ELSE <<c>>

LEMMA PairType ==
  ASSUME NEW C, NEW c \in C, Quote \in C
  PROVE  Pair(c) \in Seq(C)
<1>1. <<Quote, Quote>> \in Seq(C) /\ <<c>> \in Seq(C)
  OBVIOUS
<1> QED
  BY <1>1 DEF Pair

LEMMA DoubledEmpty == Doubled(<<>>) = <<>>
<1>1. PICK f : f = [i \in DOMAIN <<>> |-> IF <<>>[i] = Quote THEN <<Quote, Quote>> ELSE <<<<>>[i]>>]
  OBVIOUS
<1>2. f = <<>>
  BY <1>1
<1> QED
  BY <1>1, <1>2, FlattenEmpty DEF Doubled

LEMMA DoubledAppend ==
  ASSUME NEW C, NEW n \in Seq(C), NEW c \in C, Quote \in C
  PROVE  Doubled(n) \in Seq(C) /\ Doubled(Append(n, c)) = Doubled(n) \o Pair(c)
<1> DEFINE Map(s) == [i \in DOMAIN s |-> Pair(s[i])]
<1>1. \A s : Doubled(s) = FlattenSeq(Map(s))
  BY DEF Doubled, Pair
<1>2. PICK m : m = Append(n, c)
  OBVIOUS
<1>3. /\ DOMAIN m = 1 .. Len(n) + 1 /\ DOMAIN n = 1 .. Len(n) /\ Len(n) \in Nat
      /\ m[Len(n) + 1] = c /\ \A i \in 1 .. Len(n) : m[i] = n[i] /\ n[i] \in C
  BY <1>2
<1>4. Map(n) \in Seq(Seq(C)) /\ Len(Map(n)) = Len(n)
  <2>1. \A i \in 1 .. Len(n) : Pair(n[i]) \in Seq(C)
    BY <1>3, PairType
  <2> QED
    BY <1>3, <2>1
<1>5. Pair(c) \in Seq(C)
  BY PairType
<1>6. Map(m) = Append(Map(n), Pair(c))
  <2>1. PICK a : a = Map(n)
    OBVIOUS
  <2>2. a \in Seq(Seq(C)) /\ Len(a) = Len(n) /\ \A i \in 1 .. Len(n) : a[i] = Pair(n[i])
    BY <1>3, <1>4, <2>1
  <2>3. PICK b : b = Append(a, Pair(c))
    OBVIOUS
  <2>4. /\ b \in Seq(Seq(C)) /\ DOMAIN b = 1 .. Len(n) + 1 /\ b[Len(n) + 1] = Pair(c)
        /\ \A i \in 1 .. Len(n) : b[i] = a[i]
    BY <1>5, <2>2, <2>3
  <2>5. ASSUME NEW i \in 1 .. Len(n) + 1 PROVE b[i] = Pair(m[i])
    <3>1. i \in 1 .. Len(n) \/ i = Len(n) + 1
      BY <1>3
    <3> QED
      BY <1>3, <2>2, <2>4, <3>1
  <2>6. b = [i \in 1 .. Len(n) + 1 |-> Pair(m[i])]
    BY <2>4, <2>5
  <2> QED
    BY <1>3, <2>1, <2>3, <2>6
<1> HIDE DEF Map
<1>7. FlattenSeq(Map(n)) \in Seq(C)
      /\ FlattenSeq(Append(Map(n), Pair(c))) = FlattenSeq(Map(n)) \o Pair(c)
  BY <1>4, <1>5, FlattenAppend
<1> QED
  BY <1>1, <1>2, <1>6, <1>7

LEMMA DoubledType ==
  ASSUME NEW C, NEW n \in Seq(C), Quote \in C
  PROVE  Doubled(n) \in Seq(C)
  BY DoubledAppend

LEMMA ScanOne ==
  ASSUME NEW C, NEW delim, NEW quotes, NEW st \in ScanState(C), NEW c \in C
  PROVE  ScanFrom(C, delim, quotes, st, <<c>>) = ScanStep(st, c, delim, quotes)
<1>1. PICK e \in Seq(C) : e = <<>>
  <2>1. <<>> \in Seq(C)
    OBVIOUS
  <2> QED
    BY <2>1, Zenon
<1>2. ScanFrom(C, delim, quotes, st, Append(e, c))
         = ScanStep(ScanFrom(C, delim, quotes, st, e), c, delim, quotes)
  BY ScanAppend
<1>3. ScanFrom(C, delim, quotes, st, e) = st
  BY <1>1, ScanRest
<1>4. <<c>> = Append(e, c)
  BY <1>1
<1> QED
  BY <1>2, <1>3, <1>4

\* Inside quotes, one more character of a name.
LEMMA ScanPair ==
  ASSUME NEW C, NEW delim, Quote # delim, Quote \in C,
         NEW st \in ScanState(C), st.quoted, NEW c \in C
  PROVE  ScanFrom(C, delim, {Quote}, st, Pair(c)) = Plus(st, Pair(c))
<1>1. st.buf \in Seq(C) /\ st.quoted \in BOOLEAN
  BY DEF ScanState
<1>2. CASE c # Quote
  <2>1. Append(st.buf, c) = st.buf \o <<c>>
    BY <1>1
  <2>2. ScanStep(st, c, delim, {Quote}) = Plus(st, <<c>>)
    BY <1>2, <2>1 DEF ScanStep, Plus, ScanState
  <2> QED
    BY <1>2, <2>2, ScanOne DEF Pair
<1>3. CASE c = Quote
  <2>1. PICK x : x = ScanStep(st, Quote, delim, {Quote})
    OBVIOUS
  <2>2. x \in ScanState(C)
    BY <2>1, ScanStepType
  <2>3. x = [st EXCEPT !.buf = Append(@, Quote), !.quoted = FALSE]
    BY <2>1 DEF ScanStep, ScanState
  <2>4. ScanStep(x, Quote, delim, {Quote})
           = [x EXCEPT !.buf = Append(@, Quote), !.quoted = TRUE]
    BY <2>2, <2>3 DEF ScanStep, ScanState
  <2>5. Append(Append(st.buf, Quote), Quote) = st.buf \o <<Quote, Quote>>
    BY <1>1
  <2>6. [x EXCEPT !.buf = Append(@, Quote), !.quoted = TRUE] = Plus(st, <<Quote, Quote>>)
    BY <2>3, <2>5 DEF Plus, ScanState
  <2>7. PICK q \in Seq(C) : q = <<Quote>>
    BY Singleton
  <2>8. <<Quote, Quote>> = Append(q, Quote)
    BY <2>7
  <2>9. ScanFrom(C, delim, {Quote}, st, q) = x
    BY <2>1, <2>7, ScanOne
  <2>10. ScanFrom(C, delim, {Quote}, st, Append(q, Quote)) = ScanStep(x, Quote, delim, {Quote})
    BY <2>9, ScanAppend
  <2> QED
    BY <1>3, <2>4, <2>6, <2>8, <2>10 DEF Pair
<1> QED
  BY <1>2, <1>3

LEMMA ScanInQuotes ==
  ASSUME NEW C, NEW delim, Quote # delim, Quote \in C, NEW st \in ScanState(C), st.quoted
  PROVE  \A n \in Seq(C) : ScanFrom(C, delim, {Quote}, st, Doubled(n)) = Plus(st, Doubled(n))
<1> DEFINE P == {n \in Seq(C) : ScanFrom(C, delim, {Quote}, st, Doubled(n)) = Plus(st, Doubled(n))}
<1>1. <<>> \in P
  <2>1. <<>> \in Seq(C)
    OBVIOUS
  <2>2. ScanFrom(C, delim, {Quote}, st, <<>>) = st /\ Plus(st, <<>>) = st
    BY <2>1, ScanRest, PlusType
  <2> QED
    BY <2>1, <2>2, DoubledEmpty
<1>2. ASSUME NEW n \in Seq(C), NEW c \in C, n \in P PROVE Append(n, c) \in P
  <2>1. PICK d \in Seq(C) : d = Doubled(n) /\ Doubled(Append(n, c)) = d \o Pair(c)
    BY DoubledAppend
  <2>2. PICK x : x = Plus(st, d)
    OBVIOUS
  <2>3. x \in ScanState(C) /\ x.quoted
    BY <2>2, PlusType
  <2>4. ScanFrom(C, delim, {Quote}, st, d) = x
    BY <1>2, <2>1, <2>2
  <2>5. PICK u \in Seq(C) : u = Pair(c)
    BY PairType
  <2>6. ScanFrom(C, delim, {Quote}, x, u) = Plus(x, u)
    BY <2>3, <2>5, ScanPair
  <2>7. ScanFrom(C, delim, {Quote}, st, d \o u) = ScanFrom(C, delim, {Quote}, x, u)
    BY <2>4, ScanConcat
  <2>8. Plus(x, u) = Plus(st, d \o u)
    BY <2>2, PlusType
  <2>9. Append(n, c) \in Seq(C)
    OBVIOUS
  <2> QED
    BY <2>1, <2>5, <2>6, <2>7, <2>8, <2>9
<1>3. \A n \in Seq(C) : n \in P
  <2> HIDE DEF P
  <2> QED
    BY <1>1, <1>2, SequenceInduction
<1> QED
  BY <1>3

LEMMA WrappedType ==
  ASSUME NEW C, NEW t \in Seq(C), Quote \in C
  PROVE  /\ Wrapped(t) \in Seq(C) /\ Len(Wrapped(t)) = Len(t) + 2
         /\ Wrapped(t)[1] = Quote /\ Wrapped(t)[Len(t) + 2] = Quote
         /\ SubSeq(Wrapped(t), 2, Len(t) + 1) = t
<1>1. PICK q \in Seq(C) : q = <<Quote>> /\ Len(q) = 1 /\ q[1] = Quote
  BY Singleton
<1>2. PICK a \in Seq(C) : a = q \o t
  BY ConcatType
<1>3. Len(a) = Len(t) + 1 /\ a[1] = Quote /\ \A i \in 1 .. Len(t) : a[i + 1] = t[i]
  BY <1>1, <1>2
<1>4. PICK b : b = Append(a, Quote)
  OBVIOUS
<1>5. b \in Seq(C) /\ Len(b) = Len(t) + 2 /\ b[1] = Quote /\ b[Len(t) + 2] = Quote
      /\ \A i \in 1 .. Len(t) : b[i + 1] = t[i]
  BY <1>3, <1>4
<1>6. Wrapped(t) = b
  BY <1>1, <1>2, <1>4 DEF Wrapped
<1>7. SubSeq(b, 2, Len(t) + 1) = t
  BY <1>5
<1> QED
  BY <1>5, <1>6, <1>7

LEMMA ReadThroughQuoted ==
  ASSUME NEW C, NEW delim, Quote # delim, Quote \in C, NEW n \in Seq(C)
  PROVE  Wrapped(Doubled(n)) \in ReadThrough(C, delim, {Quote})
<1>1. PICK d \in Seq(C) : d = Doubled(n)
  BY DoubledType
<1>2. PICK q \in Seq(C) : q = <<Quote>>
  BY Singleton
<1>3. ASSUME NEW st \in ScanState(C), ~st.quoted
      PROVE  ScanFrom(C, delim, {Quote}, st, Wrapped(d)) = Plus(st, Wrapped(d))
  <2>1. PICK x : x = ScanStep(st, Quote, delim, {Quote})
    OBVIOUS
  <2>2. x \in ScanState(C)
    BY <2>1, ScanStepType
  <2>3. x = [st EXCEPT !.buf = Append(@, Quote), !.quoted = TRUE] /\ x.quoted
    BY <1>3, <2>1 DEF ScanStep, ScanState
  <2>4. ScanFrom(C, delim, {Quote}, st, q) = x
    BY <1>2, <2>1, ScanOne
  <2>5. PICK y : y = Plus(x, d)
    OBVIOUS
  <2>6. ScanFrom(C, delim, {Quote}, x, d) = y
    <3>1. x.quoted
      BY <2>3
    <3>2. ScanFrom(C, delim, {Quote}, x, Doubled(n)) = Plus(x, Doubled(n))
      BY <2>2, <3>1, ScanInQuotes, Zenon
    <3> QED
      BY <1>1, <2>5, <3>2
  <2>7. y \in ScanState(C) /\ y.quoted
    BY <2>2, <2>3, <2>5, PlusType
  <2>8. ScanStep(y, Quote, delim, {Quote}) = [y EXCEPT !.buf = Append(@, Quote), !.quoted = FALSE]
    BY <2>7 DEF ScanStep, ScanState
  <2>9. PICK a \in Seq(C) : a = q \o d
    BY ConcatType
  <2>10. ScanFrom(C, delim, {Quote}, st, a) = y
    <3>1. ScanFrom(C, delim, {Quote}, st, q \o d)
            = ScanFrom(C, delim, {Quote}, ScanFrom(C, delim, {Quote}, st, q), d)
      BY ScanConcat
    <3> QED
      BY <2>4, <2>6, <2>9, <3>1
  <2>11. ScanFrom(C, delim, {Quote}, st, Append(a, Quote)) = ScanStep(y, Quote, delim, {Quote})
    <3>1. ScanFrom(C, delim, {Quote}, st, Append(a, Quote))
            = ScanStep(ScanFrom(C, delim, {Quote}, st, a), Quote, delim, {Quote})
      BY ScanAppend
    <3> QED
      BY <2>10, <3>1
  <2>12. Wrapped(d) = Append(a, Quote)
    BY <1>2, <2>9 DEF Wrapped
  <2>13. Append(Append(st.buf, Quote) \o d, Quote) = st.buf \o Wrapped(d)
    <3>1. PICK b \in Seq(C) : b = st.buf
      BY DEF ScanState
    <3>2. Append(b, Quote) = b \o q
      BY <1>2
    <3>3. (b \o q) \o d = b \o a
      BY <2>9, ConcatAssociative
    <3>4. Append(b \o a, Quote) = b \o Append(a, Quote)
      <4>1. PICK c \in C : c = Quote
        OBVIOUS
      <4>2. b \o Append(a, c) = Append(b \o a, c)
        OBVIOUS
      <4> QED
        BY <4>1, <4>2
    <3> QED
      BY <2>12, <3>1, <3>2, <3>3, <3>4
  <2>14. [y EXCEPT !.buf = Append(@, Quote), !.quoted = FALSE] = Plus(st, Wrapped(d))
    BY <1>3, <2>3, <2>5, <2>13 DEF Plus, ScanState
  <2> QED
    BY <2>8, <2>11, <2>12, <2>14
<1>4. Wrapped(d) \in Seq(C)
  BY WrappedType
<1> QED
  BY <1>1, <1>3, <1>4 DEF ReadThrough

-----------------------------------------------------------------------------
(* Quotes that are undone.                                                  *)

UndoState(C) == [out : Seq(C), half : BOOLEAN]
UndoStart == [out |-> <<>>, half |-> FALSE]
UndoStep(st, c) ==
    IF c = Quote /\ st.half THEN [st EXCEPT !.half = FALSE]
    ELSE [out |-> Append(st.out, c), half |-> c = Quote]
UndoLoop(C) == [p \in UndoState(C) \X C |-> UndoStep(p[1], p[2])]

LEMMA UndoStepType ==
  ASSUME NEW C, NEW st \in UndoState(C), NEW c \in C
  PROVE  /\ UndoStep(st, c) \in UndoState(C)
         /\ UndoLoop(C)[<<st, c>>] = UndoStep(st, c)
<1>1. st.out \in Seq(C) /\ st.half \in BOOLEAN /\ Append(st.out, c) \in Seq(C)
  BY DEF UndoState
<1>2. UndoStep(st, c) \in UndoState(C)
  BY <1>1 DEF UndoStep, UndoState
<1> QED
  BY <1>2 DEF UndoLoop

LEMMA UndoIsLoop ==
  ASSUME NEW C
  PROVE  UndoStart \in UndoState(C) /\ IsLoop(UndoState(C), C, UndoStart, UndoLoop(C))
<1>1. \A p \in UndoState(C) \X C : UndoStep(p[1], p[2]) \in UndoState(C)
  BY UndoStepType
<1>2. <<>> \in Seq(C)
  OBVIOUS
<1>3. UndoStart \in UndoState(C)
  BY <1>2 DEF UndoStart, UndoState
<1> QED
  BY <1>1, <1>3 DEF IsLoop, UndoLoop

Undoes(f, s) ==
    f = [i \in 0 .. Len(s) |->
           IF i = 0 THEN [out |-> <<>>, half |-> FALSE]
           ELSE IF s[i] = Quote /\ f[i - 1].half THEN [f[i - 1] EXCEPT !.half = FALSE]
                ELSE [out |-> Append(f[i - 1].out, s[i]), half |-> s[i] = Quote]]

LEMMA UndoubledIs ==
  ASSUME NEW C, NEW s \in Seq(C)
  PROVE  Undoubled(s) = Iterated(UndoState(C), UndoStart, UndoLoop(C), s).out
<1>1. PICK L : L = UndoLoop(C)
  OBVIOUS
<1>2. UndoStart \in UndoState(C) /\ IsLoop(UndoState(C), C, UndoStart, L)
  BY <1>1, UndoIsLoop
<1>3. PICK r : Run(r, UndoState(C), UndoStart, L, s)
  BY <1>2, RunExists
<1>4. \A f : Undoes(f, s)
         <=> f = [i \in 0 .. Len(s) |-> IF i = 0 THEN UndoStart ELSE UndoStep(f[i - 1], s[i])]
  BY DEF Undoes, UndoStep, UndoStart
<1>5. Undoes(r, s)
  <2>1. r \in [0 .. Len(s) -> UndoState(C)] /\ r[0] = UndoStart
    BY <1>3 DEF Run
  <2>2. ASSUME NEW i \in 1 .. Len(s) PROVE r[i] = UndoStep(r[i - 1], s[i])
    <3>1. r[i] = L[<<r[i - 1], s[i]>>]
      BY <1>3 DEF Run
    <3>2. r[i - 1] \in UndoState(C) /\ s[i] \in C
      BY <2>1
    <3> QED
      BY <1>1, <3>1, <3>2, UndoStepType
  <2>3. r = [i \in 0 .. Len(s) |-> IF i = 0 THEN UndoStart ELSE UndoStep(r[i - 1], s[i])]
    BY <2>1, <2>2
  <2> QED
    BY <1>4, <2>3
<1> DEFINE f == CHOOSE f : Undoes(f, s)
<1>6. Undoes(f, s)
  BY <1>5
<1>7. Undoubled(s) = f[Len(s)].out
  BY DEF Undoubled, Undoes
<1> HIDE DEF f
<1>8. Follows(f, UndoState(C), UndoStart, L, s)
  <2>1. f = [i \in 0 .. Len(s) |-> IF i = 0 THEN UndoStart ELSE UndoStep(f[i - 1], s[i])]
    BY <1>4, <1>6
  <2>2. f[0] = UndoStart
    BY <2>1
  <2>3. ASSUME NEW i \in 1 .. Len(s), f[i - 1] \in UndoState(C)
        PROVE  f[i] = L[<<f[i - 1], s[i]>>]
    <3>1. f[i] = UndoStep(f[i - 1], s[i]) /\ s[i] \in C
      BY <2>1
    <3> QED
      BY <1>1, <2>3, <3>1, UndoStepType
  <2> QED
    BY <2>2, <2>3 DEF Follows
<1>9. f[Len(s)] = Iterated(UndoState(C), UndoStart, L, s)
  BY <1>2, <1>8, IteratedIs
<1> QED
  BY <1>1, <1>7, <1>9

LEMMA UndoneIsName ==
  ASSUME NEW C, Quote \in C
  PROVE  \A n \in Seq(C) : Undoubled(Doubled(n)) = n
<1> DEFINE It(s) == Iterated(UndoState(C), UndoStart, UndoLoop(C), s)
           P == {n \in Seq(C) : It(Doubled(n)) = [out |-> n, half |-> FALSE]}
<1>1. PICK L : L = UndoLoop(C) /\ IsLoop(UndoState(C), C, UndoStart, L)
  BY UndoIsLoop
<1>2. <<>> \in P
  <2>1. It(<<>>) = UndoStart
    BY <1>1, IteratedEmpty
  <2>2. <<>> \in Seq(C)
    OBVIOUS
  <2> HIDE DEF It
  <2> QED
    BY <2>1, <2>2, DoubledEmpty DEF UndoStart
<1>3. ASSUME NEW n \in Seq(C), NEW c \in C, n \in P PROVE Append(n, c) \in P
  <2>1. PICK d \in Seq(C) : d = Doubled(n) /\ Doubled(Append(n, c)) = d \o Pair(c)
    BY DoubledAppend
  <2>2. PICK x : x = [out |-> n, half |-> FALSE]
    OBVIOUS
  <2>3. x \in UndoState(C) /\ It(d) = x
    BY <1>3, <2>1, <2>2 DEF UndoState
  <2>4. Append(n, c) \in Seq(C)
    OBVIOUS
  <2> HIDE DEF P
  <2>5. CASE c # Quote
    <3>1. It(Append(d, c)) = L[<<It(d), c>>]
      BY <1>1, IteratedAppend
    <3>2. L[<<x, c>>] = [out |-> Append(n, c), half |-> FALSE]
      <4>1. L[<<x, c>>] = UndoStep(x, c)
        BY <1>1, <2>3, UndoStepType
      <4> QED
        BY <2>2, <2>5, <4>1 DEF UndoStep
    <3>3. d \o Pair(c) = Append(d, c)
      BY <2>5 DEF Pair
    <3> HIDE DEF It
    <3> QED
      BY <2>1, <2>3, <2>4, <3>1, <3>2, <3>3 DEF P
  <2>6. CASE c = Quote
    <3>1. PICK e \in Seq(C) : e = Append(d, Quote)
      <4>1. Append(d, Quote) \in Seq(C)
        OBVIOUS
      <4> QED
        BY <4>1, Zenon
    <3>2. It(e) = L[<<It(d), Quote>>]
      BY <1>1, <3>1, IteratedAppend
    <3>3. PICK y : y = L[<<x, Quote>>]
      OBVIOUS
    <3>4. y = [out |-> Append(n, Quote), half |-> TRUE] /\ y \in UndoState(C)
      <4>1. y = UndoStep(x, Quote) /\ y \in UndoState(C)
        BY <1>1, <2>3, <3>3, UndoStepType
      <4> QED
        BY <2>2, <4>1 DEF UndoStep
    <3>5. It(Append(e, Quote)) = L[<<It(e), Quote>>]
      BY <1>1, IteratedAppend
    <3>6. L[<<y, Quote>>] = [out |-> Append(n, Quote), half |-> FALSE]
      <4>1. L[<<y, Quote>>] = UndoStep(y, Quote)
        BY <1>1, <3>4, UndoStepType
      <4> QED
        BY <3>4, <4>1 DEF UndoStep
    <3>7. d \o Pair(c) = Append(e, Quote)
      BY <2>6, <3>1 DEF Pair
    <3> HIDE DEF It
    <3> QED
      BY <2>1, <2>3, <2>4, <2>6, <3>2, <3>3, <3>5, <3>6, <3>7 DEF P
  <2> QED
    BY <2>5, <2>6
<1>4. \A n \in Seq(C) : n \in P
  <2> HIDE DEF P
  <2> QED
    BY <1>2, <1>3, SequenceInduction
<1>5. ASSUME NEW n \in Seq(C) PROVE Undoubled(Doubled(n)) = n
  <2>1. It(Doubled(n)) = [out |-> n, half |-> FALSE]
    BY <1>4
  <2>2. Doubled(n) \in Seq(C)
    BY DoubledType
  <2>3. Undoubled(Doubled(n)) = It(Doubled(n)).out
    BY <2>2, UndoubledIs
  <2> HIDE DEF It
  <2> QED
    BY <2>1, <2>3
<1> QED
  BY <1>5
-----------------------------------------------------------------------------
(* Names as they are written.                                               *)

LEMMA MarksDiffer ==
  /\ Quote # Comma /\ Quote # Dot /\ Quote # Star /\ Quote # Blank
  /\ Blank # Comma /\ Blank # Dot /\ Blank # Star
  /\ Comma # Dot /\ Comma # Star /\ Dot # Star
  BY DEF Quote, Blank, Comma, Dot, Star

LEMMA QuotedName ==
  ASSUME NEW C, Quote \in C, NEW n \in Seq(C)
  PROVE  LET q == Wrapped(Doubled(n)) IN
         /\ q \in Seq(C) /\ Len(q) >= 2 /\ q[1] = Quote /\ q[Len(q)] = Quote
         /\ Unquoted(q) = n
<1>1. PICK d \in Seq(C) : d = Doubled(n)
  BY DoubledType
<1>2. PICK q : q = Wrapped(d)
  OBVIOUS
<1>3. /\ q \in Seq(C) /\ Len(q) = Len(d) + 2 /\ q[1] = Quote /\ q[Len(d) + 2] = Quote
      /\ SubSeq(q, 2, Len(d) + 1) = d
  BY <1>2, WrappedType
<1>4. Len(d) \in Nat
  OBVIOUS
<1>5. Len(q) >= 2 /\ q[Len(q)] = Quote /\ Len(q) - 1 = Len(d) + 1
  BY <1>3, <1>4
<1>6. Undoubled(d) = n
  BY <1>1, UndoneIsName
<1>7. Unquoted(q) = n
  BY <1>3, <1>5, <1>6 DEF Unquoted
<1> QED
  BY <1>1, <1>2, <1>3, <1>5, <1>7

\* A name as it is written: its ends are not blank, it does not end like a wildcard, the
\* tokenizer reads through it, and what is read of it is the name.
LEMMA WrittenName ==
  ASSUME NEW C, Quote \in C, NEW n \in Seq(C)
  PROVE  LET s == SqlIdentifier(n) IN
         /\ s \in Seq(C) /\ Len(s) >= 1
         /\ s[1] # Blank /\ s[Len(s)] # Blank /\ s[Len(s)] # Star
         /\ Unquoted(s) = n
         /\ s \in ReadThrough(C, Comma, {Quote}) /\ s \in ReadThrough(C, Dot, {Quote})
<1>1. CASE IsSimple(n)
  <2>1. SqlIdentifier(n) = n
    BY <1>1 DEF SqlIdentifier
  <2>2. Len(n) >= 1 /\ \A i \in 1 .. Len(n) : n[i] \notin Special
    BY <1>1 DEF IsSimple
  <2>3. \A i \in 1 .. Len(n) : n[i] # Quote /\ n[i] # Blank /\ n[i] # Comma /\ n[i] # Dot /\ n[i] # Star
    BY <2>2 DEF Special
  <2>4. 1 \in 1 .. Len(n) /\ Len(n) \in 1 .. Len(n)
    BY <2>2
  <2>5. Unquoted(n) = n
    BY <2>3, <2>4 DEF Unquoted
  <2>6. \A i \in 1 .. Len(n) : n[i] \notin {Quote}
    BY <2>3
  <2>7. n \in ReadThrough(C, Comma, {Quote}) /\ n \in ReadThrough(C, Dot, {Quote})
    BY <2>3, <2>6, ReadThroughPlain
  <2> QED
    BY <2>1, <2>2, <2>3, <2>4, <2>5, <2>7
<1>2. CASE ~IsSimple(n)
  <2>1. PICK s : s = Wrapped(Doubled(n))
    OBVIOUS
  <2>2. SqlIdentifier(n) = s
    BY <1>2, <2>1 DEF SqlIdentifier
  <2>3. s \in Seq(C) /\ Len(s) >= 2 /\ s[1] = Quote /\ s[Len(s)] = Quote /\ Unquoted(s) = n
    BY <2>1, QuotedName
  <2>4. s \in ReadThrough(C, Comma, {Quote}) /\ s \in ReadThrough(C, Dot, {Quote})
    BY <2>1, ReadThroughQuoted, MarksDiffer
  <2>5. s[1] # Blank /\ s[Len(s)] # Blank /\ s[Len(s)] # Star
    BY <2>3, MarksDiffer
  <2>6. Len(s) >= 1
    BY <2>3
  <2> QED
    BY <2>2, <2>3, <2>4, <2>5, <2>6
<1> QED
  BY <1>1, <1>2

-----------------------------------------------------------------------------
(* Blanks around a text.                                                    *)

AllBlank(s) == \A i \in 1 .. Len(s) : s[i] = Blank
Solid(s) == Len(s) >= 1 /\ s[1] # Blank /\ s[Len(s)] # Blank

LEMMA StripBlank ==
  ASSUME NEW C, NEW s \in Seq(C), AllBlank(s)
  PROVE  Strip(s) = <<>>
  BY DEF Strip, AllBlank

\* The part of a text from its first to its last character that is not blank.
LEMMA StripIs ==
  ASSUME NEW C, NEW s \in Seq(C), NEW l \in 1 .. Len(s), NEW h \in 1 .. Len(s),
         s[l] # Blank, s[h] # Blank, \A i \in 1 .. Len(s) : s[i] # Blank => l <= i /\ i <= h
  PROVE  Strip(s) = SubSeq(s, l, h)
<1> DEFINE solid == {i \in DOMAIN s : s[i] # Blank}
<1>1. solid # {} /\ solid \subseteq Nat /\ l \in solid /\ h \in solid
      /\ \A i \in solid : l <= i /\ i <= h
  OBVIOUS
<1>2. Strip(s) = SubSeq(s, Min(solid), Max(solid))
  BY <1>1 DEF Strip
<1> HIDE DEF solid
<1>3. Min(solid) = l
  <2>1. Min(solid) \in solid /\ \A i \in solid : Min(solid) <= i
    BY <1>1, Zenon DEF Min
  <2>2. PICK m \in Nat : m = Min(solid) /\ m <= l /\ l <= m
    BY <1>1, <2>1
  <2> QED
    BY <2>2
<1>4. Max(solid) = h
  <2>0. \A i \in solid : h >= i
    BY <1>1
  <2>1. Max(solid) \in solid /\ \A i \in solid : Max(solid) >= i
    BY <1>1, <2>0, Zenon DEF Max
  <2>2. PICK m \in Nat : m = Max(solid) /\ m <= h /\ h <= m
    BY <1>1, <2>1
  <2> QED
    BY <2>2
<1> QED
  BY <1>2, <1>3, <1>4

LEMMA StripPadded ==
  ASSUME NEW C, NEW a \in Seq(C), AllBlank(a), NEW t \in Seq(C), Solid(t),
         NEW b \in Seq(C), AllBlank(b)
  PROVE  Strip((a \o t) \o b) = t
<1>1. PICK w \in Seq(C) : w = (a \o t) \o b
  <2>1. (a \o t) \o b \in Seq(C)
    OBVIOUS
  <2> QED
    BY <2>1, Zenon
<1>2. /\ Len(w) = Len(a) + Len(t) + Len(b)
      /\ \A i \in 1 .. Len(a) : w[i] = a[i]
      /\ \A i \in 1 .. Len(t) : w[Len(a) + i] = t[i]
      /\ \A i \in 1 .. Len(b) : w[Len(a) + Len(t) + i] = b[i]
  BY <1>1
<1>3. Len(a) \in Nat /\ Len(t) \in Nat /\ Len(b) \in Nat /\ Len(t) >= 1
  BY DEF Solid
<1> DEFINE l == Len(a) + 1
           h == Len(a) + Len(t)
<1>4. l \in 1 .. Len(w) /\ h \in 1 .. Len(w)
  BY <1>2, <1>3
<1>5. w[l] # Blank /\ w[h] # Blank
  <2>1. 1 \in 1 .. Len(t) /\ Len(t) \in 1 .. Len(t)
    BY <1>3
  <2>2. w[l] = t[1] /\ w[h] = t[Len(t)]
    BY <1>2, <2>1
  <2> QED
    BY <2>2 DEF Solid
<1>6. ASSUME NEW i \in 1 .. Len(w), w[i] # Blank PROVE l <= i /\ i <= h
  <2>1. ~(i <= Len(a))
    <3>1. i <= Len(a) => i \in 1 .. Len(a)
      BY <1>3
    <3> QED
      BY <1>2, <1>6, <3>1 DEF AllBlank
  <2>2. ~(i > h)
    <3>1. i > h => i - h \in 1 .. Len(b) /\ i = Len(a) + Len(t) + (i - h)
      BY <1>2, <1>3
    <3> QED
      BY <1>2, <1>6, <3>1 DEF AllBlank
  <2> QED
    BY <1>3, <2>1, <2>2
<1>7. SubSeq(w, l, h) = t
  <2>1. Len(w) \in Nat /\ h - l + 1 = Len(t) /\ l >= 1 /\ h <= Len(w)
    BY <1>2, <1>3
  <2>2. PICK v : v = SubSeq(w, l, h)
    OBVIOUS
  <2>3. v \in Seq(C) /\ Len(v) = Len(t) /\ \A i \in 1 .. Len(t) : v[i] = w[l + i - 1]
    BY <1>3, <1>4, <2>1, <2>2
  <2>4. ASSUME NEW i \in 1 .. Len(t) PROVE v[i] = t[i]
    <3>1. l + i - 1 = Len(a) + i
      BY <1>3
    <3> QED
      BY <1>2, <2>3, <3>1
  <2> HIDE DEF l, h
  <2>5. v = t
    BY <2>3, <2>4
  <2> QED
    BY <2>2, <2>5
<1> HIDE DEF l, h
<1>8. Strip(w) = SubSeq(w, l, h)
  BY <1>4, <1>5, <1>6, StripIs
<1> QED
  BY <1>1, <1>7, <1>8

LEMMA StripSolid ==
  ASSUME NEW C, NEW t \in Seq(C), Solid(t)
  PROVE  Strip(t) = t
<1>1. 1 \in 1 .. Len(t) /\ Len(t) \in 1 .. Len(t) /\ t[1] # Blank /\ t[Len(t)] # Blank
      /\ \A i \in 1 .. Len(t) : 1 <= i /\ i <= Len(t)
  BY DEF Solid
<1>2. Strip(t) = SubSeq(t, 1, Len(t))
  BY <1>1, StripIs
<1>3. SubSeq(t, 1, Len(t)) = t
  OBVIOUS
<1> QED
  BY <1>2, <1>3

\* A text with one character that is not blank.
\* The only character of s that is not a blank is a c.
Single(C, s, c) == \E a, b \in Seq(C) : AllBlank(a) /\ AllBlank(b) /\ s = Append(a, c) \o b

LEMMA StripOne ==
  ASSUME NEW C, NEW c \in C, NEW s \in Seq(C), Strip(s) = <<c>>
  PROVE  Single(C, s, c)
<1> DEFINE solid == {i \in DOMAIN s : s[i] # Blank}
<1>2. solid # {}
  <2>1. <<>> # <<c>>
    OBVIOUS
  <2> QED
    BY <2>1 DEF Strip
<1>3. Len(s) \in Nat /\ solid \subseteq 1 .. Len(s) /\ solid \subseteq 0 .. Len(s) /\ solid \subseteq Nat
  OBVIOUS
<1>4. \A i \in 1 .. Len(s) : i \in solid <=> s[i] # Blank
  OBVIOUS
<1> HIDE DEF solid
<1>5. PICK l \in solid : \A i \in solid : l <= i
  BY <1>2, <1>3, LeastNumber
<1>6. PICK h \in solid : \A i \in solid : i <= h
  BY <1>2, <1>3, GreatestNumber
<1>7. l \in 1 .. Len(s) /\ h \in 1 .. Len(s) /\ l <= h
  BY <1>3, <1>5, <1>6
<1>8. SubSeq(s, l, h) = <<c>>
  <2>1. \A i \in 1 .. Len(s) : s[i] # Blank => l <= i /\ i <= h
    BY <1>4, <1>5, <1>6
  <2>2. s[l] # Blank /\ s[h] # Blank
    BY <1>4, <1>7
  <2> QED
    BY <1>7, <2>1, <2>2, StripIs
<1>9. l = h /\ s[l] = c
  <2>1. PICK v : v = SubSeq(s, l, h)
    OBVIOUS
  <2>2. Len(v) = h - l + 1 /\ v[1] = s[l]
    BY <1>3, <1>7, <2>1
  <2>3. Len(v) = 1 /\ v[1] = c
    BY <1>8, <2>1
  <2>4. l \in Int /\ h \in Int
    BY <1>3, <1>7
  <2>5. h - l + 1 = 1 /\ s[l] = c
    BY <2>2, <2>3
  <2> QED
    BY <2>4, <2>5
<1>10. \A i \in 1 .. Len(s) : i # l => s[i] = Blank
  <2>1. ASSUME NEW i \in 1 .. Len(s), s[i] # Blank PROVE i = l
    <3>1. i \in solid
      BY <1>4, <2>1
    <3>2. l <= i /\ i <= l
      BY <1>5, <1>6, <1>9, <3>1
    <3> QED
      BY <1>7, <3>2
  <2> QED
    BY <2>1
<1>11. PICK a : a = SubSeq(s, 1, l - 1)
  OBVIOUS
<1>12. PICK b : b = SubSeq(s, l + 1, Len(s))
  OBVIOUS
<1>13. a \in Seq(C) /\ Len(a) = l - 1 /\ \A i \in 1 .. l - 1 : a[i] = s[i]
  BY <1>3, <1>7, <1>11
<1>14. b \in Seq(C) /\ Len(b) = Len(s) - l /\ \A i \in 1 .. Len(s) - l : b[i] = s[l + i]
  BY <1>3, <1>7, <1>12
<1>15. AllBlank(a) /\ AllBlank(b)
  <2>1. ASSUME NEW i \in 1 .. l - 1 PROVE a[i] = Blank
    <3>1. i \in 1 .. Len(s) /\ i # l
      BY <1>7
    <3> QED
      BY <1>10, <1>13, <3>1
  <2>2. ASSUME NEW i \in 1 .. Len(s) - l PROVE b[i] = Blank
    <3>1. l + i \in 1 .. Len(s) /\ l + i # l
      BY <1>3, <1>7
    <3> QED
      BY <1>10, <1>14, <3>1
  <2> QED
    BY <1>13, <1>14, <2>1, <2>2 DEF AllBlank
<1>16. PICK d : d = Append(a, c)
  OBVIOUS
<1>17. d \in Seq(C) /\ Len(d) = l /\ d[l] = c /\ \A i \in 1 .. l - 1 : d[i] = s[i]
  BY <1>7, <1>13, <1>16
<1>18. PICK w : w = d \o b
  OBVIOUS
<1>19. w \in Seq(C) /\ Len(w) = Len(s) /\ (\A i \in 1 .. l : w[i] = d[i])
       /\ \A i \in 1 .. Len(s) - l : w[l + i] = b[i]
  <2>1. d \in Seq(C) /\ b \in Seq(C)
    BY <1>14, <1>17
  <2>2. w \in Seq(C) /\ Len(w) = Len(d) + Len(b) /\ (\A i \in 1 .. Len(d) : w[i] = d[i])
        /\ \A i \in 1 .. Len(b) : w[Len(d) + i] = b[i]
    BY <1>18, <2>1
  <2>3. l + (Len(s) - l) = Len(s)
    BY <1>3, <1>7
  <2> QED
    BY <1>14, <1>17, <2>2, <2>3
<1>20. ASSUME NEW i \in 1 .. Len(s) PROVE w[i] = s[i]
  <2>1. CASE i < l
    <3>1. i \in 1 .. l - 1 /\ i \in 1 .. l
      BY <1>7, <2>1
    <3> QED
      BY <1>17, <1>19, <3>1
  <2>2. CASE i = l
    BY <1>7, <1>9, <1>17, <1>19, <2>2
  <2>3. CASE i > l
    <3>1. i - l \in 1 .. Len(s) - l /\ l + (i - l) = i
      BY <1>3, <1>7, <2>3
    <3> QED
      BY <1>14, <1>19, <3>1
  <2> QED
    BY <1>7, <2>1, <2>2, <2>3
<1>21. w = s
  BY <1>19, <1>20
<1> QED
  BY <1>13, <1>14, <1>15, <1>16, <1>18, <1>21 DEF Single

-----------------------------------------------------------------------------
(* Entries as they are written and read.                                    *)

LEMMA FromStart ==
  ASSUME NEW C, NEW delim, NEW quotes, NEW t \in ReadThrough(C, delim, quotes)
  PROVE  /\ t \in Seq(C)
         /\ ScanFrom(C, delim, quotes, ScanStart, t)
               = [parts |-> <<>>, buf |-> t, quoted |-> FALSE]
<1>1. t \in Seq(C) /\ <<>> \o t = t
  BY DEF ReadThrough
<1>2. ~ScanStart.quoted
  BY DEF ScanStart
<1>3. ScanFrom(C, delim, quotes, ScanStart, t) = Plus(ScanStart, t)
  BY <1>2, ScanStartType DEF ReadThrough
<1>4. Plus(ScanStart, t) = [parts |-> <<>>, buf |-> <<>> \o t, quoted |-> FALSE]
  <2>1. ScanStart.parts = <<>> /\ ScanStart.buf = <<>> /\ ScanStart \in ScanState(C)
    BY ScanStartType DEF ScanStart
  <2>2. PICK x \in ScanState(C) : x = Plus(ScanStart, t)
    BY <1>1, <2>1, PlusType
  <2>3. x.parts = ScanStart.parts /\ x.buf = ScanStart.buf \o t /\ x.quoted = ScanStart.quoted
    BY <1>1, <2>1, <2>2, PlusType
  <2>4. x.parts = <<>> /\ x.buf = <<>> \o t /\ ~x.quoted
    BY <1>2, <2>1, <2>3
  <2> QED
    BY <2>2, <2>4, StateIs
<1> QED
  BY <1>1, <1>3, <1>4

LEMMA OnePiece ==
  ASSUME NEW C, NEW delim, NEW quotes, NEW t \in ReadThrough(C, delim, quotes)
  PROVE  Pieces(Scanned(t, delim, quotes)) = <<t>>
<1>1. Scanned(t, delim, quotes) = [parts |-> <<>>, buf |-> t, quoted |-> FALSE]
  BY FromStart, ScannedIs
<1>2. Append(<<>>, t) = <<t>>
  OBVIOUS
<1> QED
  BY <1>1, <1>2 DEF Pieces

LEMMA TwoPieces ==
  ASSUME NEW C, NEW delim \in C, NEW quotes,
         NEW t \in ReadThrough(C, delim, quotes), NEW u \in ReadThrough(C, delim, quotes)
  PROVE  Pieces(Scanned((t \o <<delim>>) \o u, delim, quotes)) = <<t, u>>
<1>1. t \in Seq(C) /\ u \in Seq(C)
  BY DEF ReadThrough
<1>2. PICK q \in Seq(C) : q = <<delim>>
  BY Singleton
<1>3. PICK v \in Seq(C) : v = t \o q
  BY <1>1, ConcatType
<1>4. PICK w \in Seq(C) : w = v \o u
  BY <1>1, ConcatType
<1>5. PICK x : x = [parts |-> <<>>, buf |-> t, quoted |-> FALSE]
  OBVIOUS
<1>6. x \in ScanState(C) /\ ScanFrom(C, delim, quotes, ScanStart, t) = x
  <2>1. ScanFrom(C, delim, quotes, ScanStart, t) = x
    BY <1>5, FromStart
  <2>2. ScanFrom(C, delim, quotes, ScanStart, t) \in ScanState(C)
    BY <1>1, ScanStartType, ScanRest
  <2> QED
    BY <2>1, <2>2
<1>7. PICK y : y = [parts |-> <<t>>, buf |-> <<>>, quoted |-> FALSE]
  OBVIOUS
<1>8. ScanStep(x, delim, delim, quotes) = y
  <2>1. Append(<<>>, t) = <<t>>
    OBVIOUS
  <2>2. PICK e : e = <<>>
    OBVIOUS
  <2>3. x = [parts |-> e, buf |-> t, quoted |-> FALSE]
    BY <1>5, <2>2
  <2>4. ScanStep(x, delim, delim, quotes) = [parts |-> Append(e, t), buf |-> e, quoted |-> FALSE]
    BY <2>2, <2>3 DEF ScanStep
  <2> QED
    BY <1>7, <2>1, <2>2, <2>4
<1>9. y \in ScanState(C)
  BY <1>6, <1>8, ScanStepType
<1>10. ScanFrom(C, delim, quotes, x, q) = y
  BY <1>2, <1>6, <1>8, ScanOne
<1>11. ScanFrom(C, delim, quotes, ScanStart, v) = y
  <2>1. ScanFrom(C, delim, quotes, ScanStart, t \o q)
          = ScanFrom(C, delim, quotes, ScanFrom(C, delim, quotes, ScanStart, t), q)
    BY <1>1, ScanStartType, ScanConcat
  <2> QED
    BY <1>3, <1>6, <1>10, <2>1
<1>12. ScanFrom(C, delim, quotes, ScanStart, v \o u) = ScanFrom(C, delim, quotes, y, u)
  <2>1. ScanFrom(C, delim, quotes, ScanStart, v \o u)
          = ScanFrom(C, delim, quotes, ScanFrom(C, delim, quotes, ScanStart, v), u)
    BY <1>1, ScanStartType, ScanConcat
  <2> QED
    BY <1>11, <2>1
<1>13. ScanFrom(C, delim, quotes, y, u) = Plus(y, u)
  BY <1>7, <1>9 DEF ReadThrough
<1>14. Plus(y, u) = [parts |-> <<t>>, buf |-> u, quoted |-> FALSE]
  <2>1. <<>> \o u = u /\ y.parts = <<t>> /\ y.buf = <<>> /\ ~y.quoted
    BY <1>1, <1>7
  <2>2. PICK z \in ScanState(C) : z = Plus(y, u)
    BY <1>1, <1>9, PlusType
  <2>3. z.parts = y.parts /\ z.buf = y.buf \o u /\ z.quoted = y.quoted
    BY <1>1, <1>9, <2>2, PlusType
  <2>4. z.parts = <<t>> /\ z.buf = u /\ ~z.quoted
    BY <2>1, <2>3
  <2> QED
    BY <2>2, <2>4, StateIs
<1>15. Scanned(w, delim, quotes) = [parts |-> <<t>>, buf |-> u, quoted |-> FALSE]
  BY <1>4, <1>12, <1>13, <1>14, ScannedIs
<1>16. Append(<<t>>, u) = <<t, u>>
  <2>1. PICK z \in Seq(Seq(C)) : z = <<t>> /\ Len(z) = 1 /\ z[1] = t
    BY <1>1, Singleton
  <2>2. PICK p : p = Append(z, u)
    OBVIOUS
  <2>3. p \in Seq(Seq(C)) /\ Len(p) = 2 /\ p[1] = t /\ p[2] = u
    BY <1>1, <2>1, <2>2
  <2>4. p = <<p[1], p[2]>>
    BY <2>3, CoupleIs
  <2> QED
    BY <2>1, <2>2, <2>3, <2>4
<1>17. Pieces(Scanned(w, delim, quotes)) = <<t, u>>
  BY <1>15, <1>16 DEF Pieces
<1> QED
  BY <1>2, <1>3, <1>4, <1>17

\* What the loop of _split_scope_parts makes of a part.
AsTable(part, t) == ~IsWildcard(part) /\ IsTable(part) /\ TableOf(part) = t
AsSchema(part, name) == IsWildcard(part) /\ SchemaOf(part) = name
AsNothing(part) == ~IsWildcard(part) /\ ~IsTable(part)

Entries(C) == [form : {"table", "schema", "all", "bare"}, table : Seq(C) \X Seq(C)]

\* The entry is one part and is read as it is meant.
ReadsAs(part, e) ==
    /\ e.form = "table" => AsTable(part, e.table)
    /\ e.form = "schema" => AsSchema(part, e.table[1])
    /\ e.form \in {"all", "bare"} => AsNothing(part)
    /\ part = <<Star>> <=> e.form = "all"

OnePart(C, quotes) == {s \in ReadThrough(C, Comma, quotes) : Solid(s)}

LEMMA TableForm ==
  ASSUME NEW C, Special \subseteq C, NEW a \in Seq(C), NEW b \in Seq(C)
  PROVE  LET part == SqlIdentifier(a) \o <<Dot>> \o SqlIdentifier(b)
         IN part \in OnePart(C, {Quote}) /\ AsTable(part, <<a, b>>) /\ Len(part) >= 2
<1>0. Quote \in C /\ Dot \in C
  BY DEF Special
<1>1. PICK s \in Seq(C) : s = SqlIdentifier(a)
  BY <1>0, WrittenName
<1>2. PICK t \in Seq(C) : t = SqlIdentifier(b)
  BY <1>0, WrittenName
<1>3. /\ Len(s) >= 1 /\ s[1] # Blank /\ s[Len(s)] # Blank /\ Unquoted(s) = a
      /\ s \in ReadThrough(C, Comma, {Quote}) /\ s \in ReadThrough(C, Dot, {Quote})
  BY <1>0, <1>1, WrittenName
<1>4. /\ Len(t) >= 1 /\ t[1] # Blank /\ t[Len(t)] # Blank /\ t[Len(t)] # Star /\ Unquoted(t) = b
      /\ t \in ReadThrough(C, Comma, {Quote}) /\ t \in ReadThrough(C, Dot, {Quote})
  BY <1>0, <1>2, WrittenName
<1>5. PICK q \in Seq(C) : q = <<Dot>> /\ Len(q) = 1 /\ q[1] = Dot
  BY <1>0, Singleton
<1>6. q \in ReadThrough(C, Comma, {Quote})
  <2>0. \A i \in 1 .. Len(q) : q[i] = Dot
    BY <1>5
  <2>1. \A i \in 1 .. Len(q) : q[i] # Comma /\ q[i] \notin {Quote}
    BY <2>0, MarksDiffer
  <2> QED
    BY <2>1, ReadThroughPlain
<1>7. PICK v \in Seq(C) : v = s \o q
  BY ConcatType
<1>8. PICK part \in Seq(C) : part = v \o t
  BY ConcatType
<1>9. part \in ReadThrough(C, Comma, {Quote})
  <2>1. v \in ReadThrough(C, Comma, {Quote})
    BY <1>3, <1>6, <1>7, ReadThroughConcat
  <2> QED
    BY <1>4, <1>8, <2>1, ReadThroughConcat
<1>10. Len(part) = Len(s) + 1 + Len(t) /\ part[1] = s[1] /\ part[Len(part)] = t[Len(t)]
  <2>1. Len(v) = Len(s) + 1 /\ v[1] = s[1]
    <3>1. Len(v) = Len(s) + Len(q) /\ \A i \in 1 .. Len(s) : v[i] = s[i]
      BY <1>7
    <3>2. 1 \in 1 .. Len(s)
      BY <1>3
    <3> QED
      BY <1>5, <3>1, <3>2
  <2>2. Len(part) = Len(v) + Len(t) /\ part[1] = v[1] /\ part[Len(v) + Len(t)] = t[Len(t)]
    <3>1. Len(part) = Len(v) + Len(t) /\ (\A i \in 1 .. Len(v) : part[i] = v[i])
          /\ \A i \in 1 .. Len(t) : part[Len(v) + i] = t[i]
      BY <1>8
    <3>2. 1 \in 1 .. Len(v) /\ Len(t) \in 1 .. Len(t)
      BY <1>4, <2>1
    <3> QED
      BY <3>1, <3>2
  <2> QED
    BY <2>1, <2>2
<1>11. Solid(part) /\ ~IsWildcard(part) /\ Len(part) >= 2
  <2>1. Len(part) >= 2
    BY <1>3, <1>4, <1>10
  <2>2. part[1] # Blank /\ part[Len(part)] # Blank /\ part[Len(part)] # Star
    BY <1>3, <1>4, <1>10
  <2> QED
    BY <2>1, <2>2 DEF Solid, IsWildcard
<1>12. SplitTopLevel(part, Dot) = <<s, t>>
  <2>1. Pieces(Scanned((s \o <<Dot>>) \o t, Dot, {Quote})) = <<s, t>>
    BY <1>0, <1>3, <1>4, TwoPieces
  <2> QED
    BY <1>5, <1>7, <1>8, <2>1 DEF SplitTopLevel
<1>13. Strip(s) = s /\ Strip(t) = t
  BY <1>3, <1>4, StripSolid DEF Solid
<1>14. Names(part) = <<s, t>>
  <2>1. PICK cols : cols = <<s, t>>
    OBVIOUS
  <2>2. DOMAIN cols = {1, 2} /\ Strip(cols[1]) = s /\ Strip(cols[2]) = t
    BY <1>13, <2>1
  <2>3. [k \in DOMAIN cols |-> Strip(cols[k])] = <<s, t>>
    BY <2>2
  <2> QED
    BY <1>12, <2>1, <2>3 DEF Names
<1>15. s # <<>> /\ t # <<>>
  <2>1. Len(s) # 0 /\ Len(t) # 0
    BY <1>3, <1>4
  <2> QED
    BY <2>1
<1>16. IsTable(part) /\ TableOf(part) = <<a, b>>
  <2>1. PICK n \in Seq(Seq(C)) : n = <<s, t>> /\ Len(n) = 2 /\ n[1] = s /\ n[2] = t
    BY Couple
  <2>2. Names(part) = n
    BY <1>14, <2>1
  <2> QED
    BY <1>3, <1>4, <1>15, <2>1, <2>2 DEF IsTable, TableOf
<1> QED
  BY <1>1, <1>2, <1>5, <1>7, <1>8, <1>9, <1>11, <1>16 DEF OnePart, AsTable

LEMMA SchemaForm ==
  ASSUME NEW C, Special \subseteq C, NEW a \in Seq(C)
  PROVE  LET part == SqlIdentifier(a) \o <<Dot, Star>>
         IN part \in OnePart(C, {Quote}) /\ AsSchema(part, a) /\ Len(part) >= 2
<1>0. Quote \in C /\ Dot \in C /\ Star \in C
  BY DEF Special
<1>1. PICK s \in Seq(C) : s = SqlIdentifier(a)
  BY <1>0, WrittenName
<1>2. /\ Len(s) >= 1 /\ s[1] # Blank /\ s[Len(s)] # Blank /\ Unquoted(s) = a
      /\ s \in ReadThrough(C, Comma, {Quote})
  BY <1>0, <1>1, WrittenName
<1>3. PICK t \in Seq(C) : t = <<Dot, Star>> /\ Len(t) = 2 /\ t[1] = Dot /\ t[2] = Star
  <2>1. <<Dot, Star>> \in Seq(C) /\ Len(<<Dot, Star>>) = 2 /\ <<Dot, Star>>[1] = Dot /\ <<Dot, Star>>[2] = Star
    BY <1>0
  <2> QED
    BY <2>1, Zenon
<1>4. t \in ReadThrough(C, Comma, {Quote})
  <2>0. \A i \in 1 .. Len(t) : t[i] = Dot \/ t[i] = Star
    BY <1>3
  <2>1. \A i \in 1 .. Len(t) : t[i] # Comma /\ t[i] \notin {Quote}
    BY <2>0, MarksDiffer
  <2> QED
    BY <2>1, ReadThroughPlain
<1>5. PICK part \in Seq(C) : part = s \o t
  BY ConcatType
<1>6. part \in ReadThrough(C, Comma, {Quote})
  BY <1>2, <1>4, <1>5, ReadThroughConcat
<1>7. /\ Len(part) = Len(s) + 2 /\ part[1] = s[1]
      /\ part[Len(s) + 1] = Dot /\ part[Len(s) + 2] = Star
      /\ \A i \in 1 .. Len(s) : part[i] = s[i]
  <2>1. Len(part) = Len(s) + Len(t) /\ (\A i \in 1 .. Len(s) : part[i] = s[i])
        /\ \A i \in 1 .. Len(t) : part[Len(s) + i] = t[i]
    BY <1>5
  <2>2. 1 \in 1 .. Len(s) /\ 1 \in 1 .. Len(t) /\ 2 \in 1 .. Len(t)
    BY <1>2, <1>3
  <2> QED
    BY <1>3, <2>1, <2>2
<1>8. Solid(part) /\ IsWildcard(part) /\ Len(part) >= 2
  <2>1. Len(part) - 1 = Len(s) + 1
    BY <1>7
  <2>2. Len(part) >= 2
    BY <1>2, <1>7
  <2>3. part[1] # Blank /\ part[Len(part)] # Blank /\ part[Len(part) - 1] = Dot /\ part[Len(part)] = Star
    BY <1>2, <1>7, <2>1, MarksDiffer
  <2> QED
    BY <2>2, <2>3 DEF Solid, IsWildcard
<1>9. SubSeq(part, 1, Len(part) - 2) = s
  <2>1. PICK v : v = SubSeq(part, 1, Len(s))
    OBVIOUS
  <2>0. Len(s) \in Nat /\ Len(s) <= Len(part)
    BY <1>7
  <2>2. v \in Seq(C) /\ Len(v) = Len(s) /\ \A i \in 1 .. Len(s) : v[i] = part[i]
    BY <2>0, <2>1
  <2>3. v = s
    BY <1>7, <2>2
  <2>4. Len(part) - 2 = Len(s)
    BY <1>7
  <2> QED
    BY <2>1, <2>3, <2>4
<1>10. Strip(s) = s
  BY <1>2, StripSolid DEF Solid
<1>11. SchemaOf(part) = a
  BY <1>2, <1>9, <1>10 DEF SchemaOf
<1> QED
  BY <1>1, <1>3, <1>5, <1>6, <1>8, <1>11 DEF OnePart, AsSchema

\* A text with no dot outside quotes that does not end like a wildcard is nothing.
LEMMA NoDot ==
  ASSUME NEW C, NEW s \in ReadThrough(C, Dot, {Quote}), Len(s) = 1 \/ s[Len(s)] # Star
  PROVE  AsNothing(s)
<1>1. SplitTopLevel(s, Dot) = <<s>>
  BY OnePiece DEF SplitTopLevel
<1>2. PICK cols : cols = <<s>>
  OBVIOUS
<1>3. PICK n : n = [k \in DOMAIN cols |-> Strip(cols[k])]
  OBVIOUS
<1>4. n = <<Strip(s)>>
  BY <1>2, <1>3
<1>5. Len(n) = 1
  BY <1>4
<1>6. Names(s) = n
  BY <1>1, <1>2, <1>3 DEF Names
<1>7. ~IsTable(s)
  BY <1>5, <1>6 DEF IsTable
<1>8. ~IsWildcard(s)
  BY DEF IsWildcard
<1> QED
  BY <1>7, <1>8 DEF AsNothing

LEMMA FormIsRead ==
  ASSUME NEW C, Special \subseteq C, NEW e \in Entries(C)
  PROVE  Form(e) \in OnePart(C, {Quote}) /\ ReadsAs(Form(e), e)
<1>0. Quote \in C /\ Star \in C
  BY DEF Special
<1>1. e.form \in {"table", "schema", "all", "bare"} /\ e.table[1] \in Seq(C) /\ e.table[2] \in Seq(C)
      /\ e.table = <<e.table[1], e.table[2]>>
  BY DEF Entries
<1>2. Len(<<Star>>) = 1
  OBVIOUS
<1>3. CASE e.form = "table"
  <2>1. PICK p : p = SqlIdentifier(e.table[1]) \o <<Dot>> \o SqlIdentifier(e.table[2])
    OBVIOUS
  <2>2. Form(e) = p
    BY <1>3, <2>1 DEF Form
  <2>3. p \in OnePart(C, {Quote}) /\ AsTable(p, e.table) /\ Len(p) >= 2
    BY <1>1, <2>1, TableForm
  <2>4. p # <<Star>>
    <3>0. Len(p) >= 2 /\ p \in Seq(C)
      BY <2>3 DEF OnePart, ReadThrough
    <3>1. Len(p) # 1
      <4>1. PICK n \in Nat : n = Len(p)
        BY <3>0
      <4>2. n # 1
        BY <3>0, <4>1
      <4> QED
        BY <4>1, <4>2
    <3> QED
      BY <1>2, <3>1
  <2> QED
    BY <1>3, <2>2, <2>3, <2>4 DEF ReadsAs
<1>4. CASE e.form = "schema"
  <2>1. PICK p : p = SqlIdentifier(e.table[1]) \o <<Dot, Star>>
    OBVIOUS
  <2>2. Form(e) = p
    BY <1>4, <2>1 DEF Form
  <2>3. p \in OnePart(C, {Quote}) /\ AsSchema(p, e.table[1]) /\ Len(p) >= 2
    BY <1>1, <2>1, SchemaForm
  <2>4. p # <<Star>>
    <3>0. Len(p) >= 2 /\ p \in Seq(C)
      BY <2>3 DEF OnePart, ReadThrough
    <3>1. Len(p) # 1
      <4>1. PICK n \in Nat : n = Len(p)
        BY <3>0
      <4>2. n # 1
        BY <3>0, <4>1
      <4> QED
        BY <4>1, <4>2
    <3> QED
      BY <1>2, <3>1
  <2> QED
    BY <1>4, <2>2, <2>3, <2>4 DEF ReadsAs
<1>5. CASE e.form = "all"
  <2>1. PICK p \in Seq(C) : p = <<Star>> /\ Len(p) = 1 /\ p[1] = Star
    BY <1>0, Singleton
  <2>2. Form(e) = p
    BY <1>5, <2>1 DEF Form
  <2>0. \A i \in 1 .. Len(p) : p[i] = Star
    BY <2>1
  <2>3. \A i \in 1 .. Len(p) : p[i] # Comma /\ p[i] # Dot /\ p[i] \notin {Quote}
    BY <2>0, MarksDiffer
  <2>4. p \in ReadThrough(C, Comma, {Quote}) /\ p \in ReadThrough(C, Dot, {Quote})
    BY <2>3, ReadThroughPlain
  <2>5. Solid(p)
    BY <2>1, MarksDiffer DEF Solid
  <2>6. AsNothing(p)
    BY <2>1, <2>4, NoDot
  <2> QED
    BY <1>5, <2>1, <2>2, <2>4, <2>5, <2>6 DEF ReadsAs, OnePart
<1>6. CASE e.form = "bare"
  <2>1. PICK p \in Seq(C) : p = SqlIdentifier(e.table[1])
    BY <1>0, <1>1, WrittenName
  <2>2. Form(e) = p
    BY <1>6, <2>1 DEF Form
  <2>3. /\ Len(p) >= 1 /\ p[1] # Blank /\ p[Len(p)] # Blank /\ p[Len(p)] # Star
        /\ p \in ReadThrough(C, Comma, {Quote}) /\ p \in ReadThrough(C, Dot, {Quote})
    BY <1>0, <1>1, <2>1, WrittenName
  <2>4. AsNothing(p)
    BY <2>3, NoDot
  <2>5. p # <<Star>>
    <3>1. PICK q \in Seq(C) : q = <<Star>> /\ Len(q) = 1 /\ q[1] = Star
      BY <1>0, Singleton
    <3>2. q[Len(q)] = Star
      BY <3>1
    <3> QED
      BY <2>3, <3>1, <3>2
  <2> QED
    BY <1>6, <2>2, <2>3, <2>4, <2>5 DEF ReadsAs, OnePart, Solid
<1> QED
  BY <1>1, <1>3, <1>4, <1>5, <1>6

-----------------------------------------------------------------------------
(* Scopes as they are written.                                              *)

\* The characters of names, and those that mean something.
Charset(C) == Special \subseteq C /\ Tables \subseteq Seq(C) \X Seq(C)

LEMMA CharsetExists == \E C : Charset(C)
<1> DEFINE C == STRING \cup Special
<1>1. STRING \subseteq C /\ Special \subseteq C
  BY Zenon
<1>2. Seq(STRING) \subseteq Seq(C)
  BY <1>1, SequencesOfMore, Zenon
<1>3. PICK S : S = Seq(STRING)
  OBVIOUS
<1>4. Tables \subseteq S \X S
  BY <1>3, TablesAssumption, Zenon
<1>5. S \subseteq Seq(C)
  BY <1>2, <1>3, Zenon
<1> HIDE DEF C
<1>6. Tables \subseteq Seq(C) \X Seq(C)
  BY <1>4, <1>5
<1> QED
  BY <1>1, <1>6, Zenon DEF Charset

LEMMA EntryForm ==
  ASSUME NEW C, Charset(C), NEW e \in Entry
  PROVE  /\ Form(e) \in OnePart(C, {Quote}) /\ Form(e) \in Seq(C)
         /\ Form(e) \in ReadThrough(C, Comma, {Quote}) /\ Solid(Form(e))
         /\ ReadsAs(Form(e), e)
<1>1. e \in Entries(C) /\ Special \subseteq C
  BY DEF Charset, Entry, Entries
<1>2. Form(e) \in OnePart(C, {Quote}) /\ ReadsAs(Form(e), e)
  BY <1>1, FormIsRead
<1> QED
  BY <1>2 DEF OnePart, ReadThrough

\* Every entry is one part for a tokenizer with these quotes, and blanks are no quotes.
Separable(C, quotes) == Blank \notin quotes /\ \A e \in Entry : Form(e) \in OnePart(C, quotes)

LEMMA EntriesSeparable ==
  ASSUME NEW C, Charset(C)
  PROVE  Separable(C, {Quote})
<1>1. \A e \in Entry : Form(e) \in OnePart(C, {Quote})
  BY EntryForm
<1> QED
  BY <1>1, MarksDiffer DEF Separable

LEMMA SeparatorIs ==
  ASSUME NEW C, Charset(C)
  PROVE  /\ Separator \in Seq(C) /\ Comma \in C
         /\ \E a, b \in Seq(C) : AllBlank(a) /\ AllBlank(b) /\ Separator = Append(a, Comma) \o b
<1>1. Comma \in C /\ Blank \in C
  BY DEF Charset, Special
<1>2. {Blank, Comma} \subseteq C
  BY <1>1
<1>3. Separator \in Seq(C)
  BY <1>2, SeparatorAssumption, SequencesOfMore
<1>4. Strip(Separator) = <<Comma>>
  BY SeparatorAssumption
<1>5. PICK t \in Seq(C) : t = Separator
  BY <1>3
<1>6. Strip(t) = <<Comma>>
  BY <1>4, <1>5
<1>7. Single(C, t, Comma)
  BY <1>1, <1>6, StripOne
<1> QED
  BY <1>1, <1>3, <1>5, <1>7 DEF Single

LEMMA BlankRead ==
  ASSUME NEW C, NEW quotes, Blank \notin quotes, NEW a \in Seq(C), AllBlank(a)
  PROVE  a \in ReadThrough(C, Comma, quotes)
<1>1. \A i \in 1 .. Len(a) : a[i] # Comma /\ a[i] \notin quotes
  BY MarksDiffer DEF AllBlank
<1> QED
  BY <1>1, ReadThroughPlain

\* z is the state after t, from st: nothing was split.
Passed(C, quotes, st, t, z) ==
    /\ z \in ScanState(C) /\ z = ScanFrom(C, Comma, quotes, st, t)
    /\ ~z.quoted /\ z.parts = st.parts /\ z.buf = st.buf \o t

LEMMA ReadOn ==
  ASSUME NEW C, NEW quotes, NEW st \in ScanState(C), ~st.quoted,
         NEW t \in ReadThrough(C, Comma, quotes)
  PROVE  Passed(C, quotes, st, t, ScanFrom(C, Comma, quotes, st, t))
<1>1. t \in Seq(C) /\ ScanFrom(C, Comma, quotes, st, t) = Plus(st, t)
  BY DEF ReadThrough
<1>2. Plus(st, t) \in ScanState(C) /\ Plus(st, t).quoted = st.quoted
      /\ Plus(st, t).buf = st.buf \o t /\ Plus(st, t).parts = st.parts
  BY <1>1, PlusType
<1> QED
  BY <1>1, <1>2 DEF Passed

\* z is a state after st in which f has become a part and g is begun.
Entered(C, st, f, g, z) ==
    /\ z \in ScanState(C) /\ ~z.quoted
    /\ \E p \in Seq(C) : z.parts = Append(st.parts, p) /\ Strip(p) = f
    /\ \E y \in Seq(C) : AllBlank(y) /\ z.buf = y \o g

LEMMA NextEntry ==
  ASSUME NEW C, Charset(C), NEW quotes, Blank \notin quotes,
         NEW st \in ScanState(C), ~st.quoted,
         NEW x \in Seq(C), AllBlank(x), NEW f \in OnePart(C, quotes), st.buf = x \o f,
         NEW g \in OnePart(C, quotes)
  PROVE  Entered(C, st, f, g, ScanFrom(C, Comma, quotes, st, Separator \o g))
<1> DEFINE From(s, t) == ScanFrom(C, Comma, quotes, s, t)
<1>1. Separator \in Seq(C) /\ Comma \in C
  BY SeparatorIs
<1>2. PICK a \in Seq(C), b \in Seq(C) :
        AllBlank(a) /\ AllBlank(b) /\ Separator = Append(a, Comma) \o b
  BY SeparatorIs
<1>3. f \in Seq(C) /\ Solid(f) /\ g \in Seq(C) /\ g \in ReadThrough(C, Comma, quotes)
  BY DEF OnePart, ReadThrough
<1>4. PICK v \in Seq(C) : v = Append(a, Comma)
  <2>1. Append(a, Comma) \in Seq(C)
    BY <1>1
  <2> QED
    BY <2>1
<1>5. Separator = v \o b
  BY <1>2, <1>4
<1>6. PICK s1 \in ScanState(C) :
        s1 = From(st, a) /\ ~s1.quoted /\ s1.parts = st.parts /\ s1.buf = st.buf \o a
  <2>1. a \in ReadThrough(C, Comma, quotes)
    BY <1>2, BlankRead
  <2>2. Passed(C, quotes, st, a, From(st, a))
    BY <2>1, ReadOn
  <2> QED
    BY <2>2 DEF Passed
<1>7. PICK s2 \in ScanState(C) : s2 = From(st, v)
  BY ScanRest
<1>8. s2 = ScanStep(s1, Comma, Comma, quotes)
  <2>1. From(st, Append(a, Comma)) = ScanStep(From(st, a), Comma, Comma, quotes)
    BY <1>1, ScanAppend
  <2> QED
    BY <1>4, <1>6, <1>7, <2>1
<1>9. ~s2.quoted /\ s2.parts = Append(s1.parts, s1.buf) /\ s2.buf = <<>>
  BY <1>6, <1>8 DEF ScanStep, ScanState
<1>10. PICK s3 \in ScanState(C) :
        s3 = From(s2, b) /\ ~s3.quoted /\ s3.parts = s2.parts /\ s3.buf = s2.buf \o b
  <2>1. b \in ReadThrough(C, Comma, quotes)
    BY <1>2, BlankRead
  <2>2. Passed(C, quotes, s2, b, From(s2, b))
    BY <1>9, <2>1, ReadOn
  <2> QED
    BY <2>2 DEF Passed
<1>11. PICK s4 \in ScanState(C) :
        s4 = From(s3, g) /\ ~s4.quoted /\ s4.parts = s3.parts /\ s4.buf = s3.buf \o g
  <2>1. Passed(C, quotes, s3, g, From(s3, g))
    BY <1>3, <1>10, ReadOn
  <2> QED
    BY <2>1 DEF Passed
<1>12. s4 = From(st, Separator \o g)
  <2>1. From(st, v \o b) = From(From(st, v), b)
    BY ScanConcat
  <2>2. From(st, Separator \o g) = From(From(st, Separator), g)
    BY <1>1, <1>3, ScanConcat
  <2> QED
    BY <1>5, <1>7, <1>10, <1>11, <2>1, <2>2
<1>13. s4.buf = b \o g
  <2>1. <<>> \o b = b
    OBVIOUS
  <2> QED
    BY <1>9, <1>10, <1>11, <2>1
<1>14. PICK p \in Seq(C) : p = (x \o f) \o a
  <2>1. PICK q \in Seq(C) : q = x \o f
    BY <1>3, ConcatType
  <2>2. PICK r \in Seq(C) : r = q \o a
    BY ConcatType
  <2> QED
    BY <2>1, <2>2
<1>15. Strip(p) = f
  BY <1>2, <1>3, <1>14, StripPadded
<1>16. s4.parts = Append(st.parts, p)
  BY <1>6, <1>9, <1>10, <1>11, <1>14
<1> QED
  BY <1>2, <1>11, <1>12, <1>13, <1>15, <1>16 DEF Entered

LEMMA WrittenEmpty == Written(<<>>) = <<>>
<1>1. PICK f : f = [i \in DOMAIN <<>> |-> Form(<<>>[i])]
  OBVIOUS
<1>2. f = <<>>
  BY <1>1
<1>3. PICK g : g = [i \in DOMAIN f |-> IF i = 1 THEN f[i] ELSE Separator \o f[i]]
  OBVIOUS
<1>4. g = <<>>
  BY <1>2, <1>3
<1> QED
  BY <1>1, <1>3, <1>4, FlattenEmpty DEF Written, Join

Chunk(s, e) == IF s = <<>> THEN Form(e) ELSE Separator \o Form(e)

LEMMA WrittenAppend ==
  ASSUME NEW C, Charset(C), NEW s \in Seq(Entry), NEW e \in Entry
  PROVE  /\ Written(s) \in Seq(C) /\ Chunk(s, e) \in Seq(C)
         /\ Written(Append(s, e)) = Written(s) \o Chunk(s, e)
<1> DEFINE At(u, i) == IF i = 1 THEN Form(u[i]) ELSE Separator \o Form(u[i])
           Map(u) == [i \in DOMAIN u |-> At(u, i)]
<1>1. ASSUME NEW u
      PROVE  Written(u) = FlattenSeq(Map(u))
  <2>1. PICK f : f = [i \in DOMAIN u |-> Form(u[i])]
    OBVIOUS
  <2>2. DOMAIN f = DOMAIN u /\ \A i \in DOMAIN u : f[i] = Form(u[i])
    BY <2>1
  <2>3. [i \in DOMAIN f |-> IF i = 1 THEN f[i] ELSE Separator \o f[i]] = Map(u)
    BY <2>2
  <2> QED
    BY <2>1, <2>3 DEF Written, Join
<1>2. PICK m \in Seq(Entry) : m = Append(s, e)
  <2>1. Append(s, e) \in Seq(Entry)
    OBVIOUS
  <2> QED
    BY <2>1
<1>3. /\ DOMAIN m = 1 .. Len(s) + 1 /\ DOMAIN s = 1 .. Len(s) /\ Len(s) \in Nat
      /\ m[Len(s) + 1] = e /\ \A i \in 1 .. Len(s) : m[i] = s[i] /\ s[i] \in Entry
  BY <1>2
<1>4. \A x \in Entry : Form(x) \in Seq(C) /\ Separator \o Form(x) \in Seq(C)
  <2>1. \A x \in Entry : Form(x) \in Seq(C)
    BY EntryForm
  <2>2. Separator \in Seq(C)
    BY SeparatorIs
  <2> QED
    BY <2>1, <2>2
<1>5. Map(s) \in Seq(Seq(C)) /\ Len(Map(s)) = Len(s)
  <2>1. \A i \in 1 .. Len(s) : At(s, i) \in Seq(C)
    BY <1>3, <1>4
  <2> HIDE DEF At
  <2> QED
    BY <1>3, <2>1
<1>6. At(m, Len(s) + 1) = Chunk(s, e) /\ Chunk(s, e) \in Seq(C)
  <2>1. Len(s) + 1 = 1 <=> s = <<>>
    BY <1>3
  <2> QED
    BY <1>3, <1>4, <2>1 DEF Chunk
<1>7. \A i \in 1 .. Len(s) : At(m, i) = At(s, i)
  BY <1>3
<1> HIDE DEF At
<1>8. Map(m) = Append(Map(s), Chunk(s, e))
  <2>1. PICK a : a = Map(s)
    OBVIOUS
  <2>2. a \in Seq(Seq(C)) /\ Len(a) = Len(s) /\ \A i \in 1 .. Len(s) : a[i] = At(s, i)
    BY <1>3, <1>5, <2>1
  <2>3. PICK b : b = Append(a, Chunk(s, e))
    OBVIOUS
  <2>4. /\ b \in Seq(Seq(C)) /\ DOMAIN b = 1 .. Len(s) + 1 /\ b[Len(s) + 1] = Chunk(s, e)
        /\ \A i \in 1 .. Len(s) : b[i] = a[i]
    BY <1>6, <2>2, <2>3
  <2>5. ASSUME NEW i \in 1 .. Len(s) + 1 PROVE b[i] = At(m, i)
    <3>1. i \in 1 .. Len(s) \/ i = Len(s) + 1
      BY <1>3
    <3> QED
      BY <1>6, <1>7, <2>2, <2>4, <3>1
  <2>6. b = [i \in 1 .. Len(s) + 1 |-> At(m, i)]
    BY <2>4, <2>5
  <2> QED
    BY <1>3, <2>1, <2>3, <2>6
<1>9. /\ FlattenSeq(Map(s)) \in Seq(C)
      /\ FlattenSeq(Append(Map(s), Chunk(s, e))) = FlattenSeq(Map(s)) \o Chunk(s, e)
  <2> HIDE DEF Map
  <2> QED
    BY <1>5, <1>6, FlattenAppend
<1>10. Written(s) = FlattenSeq(Map(s)) /\ Written(m) = FlattenSeq(Map(m))
  BY <1>1
<1> HIDE DEF Map
<1> QED
  BY <1>2, <1>6, <1>8, <1>9, <1>10

-----------------------------------------------------------------------------
(* The parts of a scope are its entries.                                    *)

\* The tokenizer after the text of Append(s, e).
Told(C, st, s, e) ==
    /\ st \in ScanState(C) /\ ~st.quoted
    /\ Len(st.parts) = Len(s) /\ \A i \in 1 .. Len(s) : Strip(st.parts[i]) = Form(s[i])
    /\ \E x \in Seq(C) : AllBlank(x) /\ st.buf = x \o Form(e)

ScanWritten(C, quotes, s) == ScanFrom(C, Comma, quotes, ScanStart, Written(s))

LEMMA ToldFirst ==
  ASSUME NEW C, Charset(C), NEW quotes, Separable(C, quotes), NEW e \in Entry
  PROVE  Told(C, ScanWritten(C, quotes, Append(<<>>, e)), <<>>, e)
<1>1. PICK s \in Seq(Entry) : s = <<>>
  <2>1. <<>> \in Seq(Entry)
    OBVIOUS
  <2> QED
    BY <2>1
<1>2. PICK f \in Seq(C) : f = Form(e) /\ f \in ReadThrough(C, Comma, quotes)
  BY DEF Separable, OnePart, ReadThrough
<1>3. Written(Append(s, e)) = f
  <2>1. Written(Append(s, e)) = Written(s) \o Chunk(s, e)
    BY WrittenAppend
  <2>2. Written(s) = <<>> /\ Chunk(s, e) = f
    BY <1>1, <1>2, WrittenEmpty DEF Chunk
  <2>3. <<>> \o f = f
    OBVIOUS
  <2> QED
    BY <2>1, <2>2, <2>3
<1>4. PICK st \in ScanState(C) : st = ScanStart /\ st.parts = s /\ st.buf = s /\ ~st.quoted
  BY <1>1, ScanStartType DEF ScanStart
<1>5. PICK z \in ScanState(C) :
        z = ScanFrom(C, Comma, quotes, st, f) /\ ~z.quoted /\ z.parts = st.parts /\ z.buf = st.buf \o f
  <2>1. Passed(C, quotes, st, f, ScanFrom(C, Comma, quotes, st, f))
    BY <1>2, <1>4, ReadOn
  <2> QED
    BY <2>1 DEF Passed
<1>6. z = ScanWritten(C, quotes, Append(s, e))
  BY <1>3, <1>4, <1>5 DEF ScanWritten
<1>7. Len(s) = 0 /\ s \in Seq(C) /\ AllBlank(s)
  BY <1>1 DEF AllBlank
<1>8. Told(C, z, s, e)
  <2>1. z.buf = s \o Form(e) /\ Len(z.parts) = Len(s)
    BY <1>2, <1>4, <1>5
  <2>2. \E x \in Seq(C) : AllBlank(x) /\ z.buf = x \o Form(e)
    BY <1>7, <2>1
  <2>3. \A i \in 1 .. Len(s) : Strip(z.parts[i]) = Form(s[i])
    BY <1>7
  <2> QED
    BY <1>5, <2>1, <2>2, <2>3 DEF Told
<1> QED
  BY <1>1, <1>6, <1>8

LEMMA ToldNext ==
  ASSUME NEW C, Charset(C), NEW quotes, Separable(C, quotes), NEW s \in Seq(Entry), NEW e \in Entry, NEW f \in Entry,
         Told(C, ScanWritten(C, quotes, Append(s, e)), s, e)
  PROVE  Told(C, ScanWritten(C, quotes, Append(Append(s, e), f)), Append(s, e), f)
<1>1. PICK u \in Seq(Entry) : u = Append(s, e)
  <2>1. Append(s, e) \in Seq(Entry)
    OBVIOUS
  <2> QED
    BY <2>1
<1>2. /\ Len(u) = Len(s) + 1 /\ u # <<>> /\ u[Len(s) + 1] = e
      /\ \A i \in 1 .. Len(s) : u[i] = s[i]
  BY <1>1
<1>3. PICK st \in ScanState(C) : st = ScanWritten(C, quotes, u)
  BY <1>1 DEF Told
<1>4. /\ ~st.quoted /\ Len(st.parts) = Len(s)
      /\ \A i \in 1 .. Len(s) : Strip(st.parts[i]) = Form(s[i])
      /\ \E x \in Seq(C) : AllBlank(x) /\ st.buf = x \o Form(e)
  BY <1>1, <1>3 DEF Told
<1>5. PICK x \in Seq(C) : AllBlank(x) /\ st.buf = x \o Form(e)
  BY <1>4
<1>6. Form(e) \in OnePart(C, quotes) /\ Form(f) \in OnePart(C, quotes) /\ Form(f) \in Seq(C)
  BY DEF Separable, OnePart, ReadThrough
<1>7. PICK z \in ScanState(C) : z = ScanFrom(C, Comma, quotes, st, Separator \o Form(f))
  <2>1. Separator \in Seq(C)
    BY SeparatorIs
  <2>2. Separator \o Form(f) \in Seq(C)
    BY <1>6, <2>1
  <2> QED
    BY <2>2, ScanRest
<1>8. /\ ~z.quoted
      /\ \E p \in Seq(C) : z.parts = Append(st.parts, p) /\ Strip(p) = Form(e)
      /\ \E y \in Seq(C) : AllBlank(y) /\ z.buf = y \o Form(f)
  <2>1. PICK d \in OnePart(C, quotes), g \in OnePart(C, quotes) : d = Form(e) /\ g = Form(f)
    BY <1>6
  <2>2. z = ScanFrom(C, Comma, quotes, st, Separator \o g) /\ st.buf = x \o d
    BY <1>5, <1>7, <2>1
  <2>3. Blank \notin quotes
    BY DEF Separable
  <2>4. Entered(C, st, d, g, ScanFrom(C, Comma, quotes, st, Separator \o g))
    BY <1>4, <1>5, <2>2, <2>3, NextEntry
  <2> QED
    BY <2>1, <2>2, <2>4 DEF Entered
<1>9. z = ScanWritten(C, quotes, Append(u, f))
  <2>1. Written(Append(u, f)) = Written(u) \o (Separator \o Form(f))
    BY <1>2, WrittenAppend DEF Chunk
  <2>2. Written(u) \in Seq(C) /\ Separator \o Form(f) \in Seq(C)
    BY <1>2, WrittenAppend DEF Chunk
  <2>3. PICK g \in Seq(C) : g = Separator \o Form(f)
    BY <2>2
  <2>4. ScanFrom(C, Comma, quotes, ScanStart, Written(u) \o g)
          = ScanFrom(C, Comma, quotes, ScanFrom(C, Comma, quotes, ScanStart, Written(u)), g)
    BY <2>2, ScanStartType, ScanConcat
  <2> QED
    BY <1>3, <1>7, <2>1, <2>3, <2>4 DEF ScanWritten
<1>10. PICK p \in Seq(C) : z.parts = Append(st.parts, p) /\ Strip(p) = Form(e)
  BY <1>8
<1>11. Len(z.parts) = Len(u) /\ \A i \in 1 .. Len(u) : Strip(z.parts[i]) = Form(u[i])
  <2>1. st.parts \in Seq(Seq(C)) /\ Len(s) \in Nat
    BY DEF ScanState
  <2>2. Len(z.parts) = Len(s) + 1 /\ z.parts[Len(s) + 1] = p
        /\ \A i \in 1 .. Len(s) : z.parts[i] = st.parts[i]
    BY <1>4, <1>10, <2>1
  <2>3. \A i \in 1 .. Len(u) : i \in 1 .. Len(s) \/ i = Len(s) + 1
    BY <1>2, <2>1
  <2> QED
    BY <1>2, <1>4, <1>10, <2>2, <2>3
<1>12. Told(C, z, u, f)
  BY <1>8, <1>11 DEF Told
<1> QED
  BY <1>1, <1>9, <1>12

LEMMA ScopesAreTold ==
  ASSUME NEW C, Charset(C), NEW quotes, Separable(C, quotes)
  PROVE  \A s \in Seq(Entry), e \in Entry : Told(C, ScanWritten(C, quotes, Append(s, e)), s, e)
<1> DEFINE P == {s \in Seq(Entry) : \A e \in Entry : Told(C, ScanWritten(C, quotes, Append(s, e)), s, e)}
<1>1. <<>> \in P
  <2>1. <<>> \in Seq(Entry)
    OBVIOUS
  <2> QED
    BY <2>1, ToldFirst
<1>2. ASSUME NEW s \in Seq(Entry), NEW e \in Entry, s \in P PROVE Append(s, e) \in P
  <2>1. Append(s, e) \in Seq(Entry)
    OBVIOUS
  <2>2. Told(C, ScanWritten(C, quotes, Append(s, e)), s, e)
    BY <1>2
  <2>3. \A f \in Entry : Told(C, ScanWritten(C, quotes, Append(Append(s, e), f)), Append(s, e), f)
    BY <2>2, ToldNext
  <2> QED
    BY <2>1, <2>3
<1>3. \A s \in Seq(Entry) : s \in P
  <2> HIDE DEF P
  <2> QED
    BY <1>1, <1>2, SequenceInduction
<1> QED
  BY <1>3

LEMMA PartsAreEntries ==
  ASSUME NEW C, Charset(C), NEW quotes, Separable(C, quotes), NEW s \in Seq(Entry), s # <<>>
  PROVE  LET parts == Pieces(Scanned(Written(s), Comma, quotes)) IN
         /\ Written(s) \in Seq(C) /\ parts \in Seq(Seq(C)) /\ Len(parts) = Len(s)
         /\ \A i \in 1 .. Len(s) : Strip(parts[i]) = Form(s[i])
<1>1. PICK t \in Seq(Entry), e \in Entry : s = Append(t, e) /\ Len(s) = Len(t) + 1
  BY SnocOf
<1>2. PICK st \in ScanState(C) : st = ScanWritten(C, quotes, s)
  BY <1>1, ScopesAreTold DEF Told
<1>3. Told(C, st, t, e)
  BY <1>1, <1>2, ScopesAreTold
<1>4. PICK x \in Seq(C) : AllBlank(x) /\ st.buf = x \o Form(e)
  BY <1>3 DEF Told
<1>5. Written(s) \in Seq(C)
  BY WrittenAppend
<1>6. Pieces(Scanned(Written(s), Comma, quotes)) = Append(st.parts, st.buf)
  BY <1>2, <1>5, ScannedIs DEF ScanWritten, Pieces
<1>7. Strip(st.buf) = Form(e)
  <2>1. PICK f \in Seq(C) : f = Form(e) /\ Solid(f)
    BY DEF Separable, OnePart, ReadThrough
  <2>2. PICK b \in Seq(C) : b = <<>>
    <3>1. <<>> \in Seq(C)
      OBVIOUS
    <3> QED
      BY <3>1
  <2>3. AllBlank(b)
    BY <2>2 DEF AllBlank
  <2>4. PICK w \in Seq(C) : w = x \o f
    BY ConcatType
  <2>5. w \o b = w
    BY <2>2
  <2>6. Strip((x \o f) \o b) = f
    BY <1>4, <2>1, <2>3, StripPadded
  <2> QED
    BY <1>4, <2>1, <2>4, <2>5, <2>6
<1>8. PICK q : q = Append(st.parts, st.buf)
  OBVIOUS
<1>9. /\ q \in Seq(Seq(C)) /\ Len(q) = Len(t) + 1 /\ q[Len(t) + 1] = st.buf
      /\ \A i \in 1 .. Len(t) : q[i] = st.parts[i]
  <2>1. Len(st.parts) = Len(t) /\ st.parts \in Seq(Seq(C)) /\ st.buf \in Seq(C)
    BY <1>3 DEF Told, ScanState
  <2> QED
    BY <1>8, <2>1
<1>10. ASSUME NEW i \in 1 .. Len(s) PROVE Strip(q[i]) = Form(s[i])
  <2>1. i \in 1 .. Len(t) \/ i = Len(t) + 1
    BY <1>1
  <2>2. \A j \in 1 .. Len(t) : s[j] = t[j]
    BY <1>1
  <2>3. s[Len(t) + 1] = e
    BY <1>1
  <2> QED
    BY <1>3, <1>7, <1>9, <2>1, <2>2, <2>3 DEF Told
<1> QED
  BY <1>1, <1>5, <1>6, <1>8, <1>9, <1>10

\* A scope is "*" if that is all it says.
LEMMA StarIs ==
  ASSUME NEW C, Charset(C), NEW s \in Seq(Entry)
  PROVE  Strip(Written(s)) = <<Star>> <=> Len(s) = 1 /\ s[1].form = "all"
<1>1. CASE s = <<>>
  <2>1. PICK q \in Seq(C) : q = <<>>
    <3>1. <<>> \in Seq(C)
      OBVIOUS
    <3> QED
      BY <3>1
  <2>2. Strip(q) = q
    <3>1. AllBlank(q)
      BY <2>1 DEF AllBlank
    <3> QED
      BY <2>1, <3>1, StripBlank
  <2>3. q # <<Star>> /\ Len(s) = 0
    BY <1>1, <2>1
  <2>4. Written(s) = q
    BY <1>1, <2>1, WrittenEmpty
  <2> QED
    BY <2>2, <2>3, <2>4
<1>2. CASE Len(s) = 1
  <2>1. PICK t \in Seq(Entry), e \in Entry : s = Append(t, e) /\ Len(s) = Len(t) + 1
    <3>1. s # <<>>
      BY <1>2
    <3> QED
      BY <3>1, SnocOf
  <2>2. t = <<>>
    BY <1>2, <2>1
  <2>3. s[1] = e
    BY <2>1, <2>2
  <2>4. PICK f \in Seq(C) : f = Form(e) /\ Solid(f) /\ (f = <<Star>> <=> e.form = "all")
    BY EntryForm DEF ReadsAs
  <2>5. Written(s) = f
    <3>1. Written(s) = Written(t) \o Chunk(t, e)
      BY <2>1, WrittenAppend
    <3>2. Written(t) = <<>> /\ Chunk(t, e) = f
      BY <2>2, <2>4, WrittenEmpty DEF Chunk
    <3>3. <<>> \o f = f
      OBVIOUS
    <3> QED
      BY <3>1, <3>2, <3>3
  <2>6. Strip(f) = f
    BY <2>4, StripSolid
  <2> QED
    BY <1>2, <2>3, <2>4, <2>5, <2>6
<1>3. CASE Len(s) > 1
  <2>1. Len(Parts(Written(s))) = Len(s) /\ Written(s) \in Seq(C)
    <3>1. s # <<>>
      BY <1>3
    <3> QED
      BY <3>1, EntriesSeparable, PartsAreEntries DEF Parts, SplitTopLevel
  <2>2. ASSUME Strip(Written(s)) = <<Star>> PROVE FALSE
    <3>0. Star \in C
      BY DEF Charset, Special
    <3>1. PICK w \in Seq(C) : w = Written(s)
      BY <2>1
    <3>2. Single(C, w, Star)
      BY <2>2, <3>0, <3>1, StripOne
    <3>3. PICK a \in Seq(C), b \in Seq(C) : AllBlank(a) /\ AllBlank(b) /\ w = Append(a, Star) \o b
      BY <3>2 DEF Single
    <3>4. PICK q \in Seq(C) : q = <<Star>> /\ Len(q) = 1 /\ q[1] = Star
      BY <3>0, Singleton
    <3>5. q \in ReadThrough(C, Comma, {Quote})
      <4>1. \A i \in 1 .. Len(q) : q[i] = Star
        BY <3>4
      <4>2. \A i \in 1 .. Len(q) : q[i] # Comma /\ q[i] \notin {Quote}
        BY <4>1, MarksDiffer
      <4> QED
        BY <4>2, ReadThroughPlain
    <3>6. a \in ReadThrough(C, Comma, {Quote}) /\ b \in ReadThrough(C, Comma, {Quote})
      BY <3>3, MarksDiffer, BlankRead
    <3>7. w = (a \o q) \o b
      <4>1. Append(a, Star) = a \o <<Star>>
        BY <3>0
      <4> QED
        BY <3>3, <3>4, <4>1
    <3>8. w \in ReadThrough(C, Comma, {Quote})
      <4>1. a \o q \in ReadThrough(C, Comma, {Quote})
        BY <3>5, <3>6, ReadThroughConcat
      <4> QED
        BY <3>6, <3>7, <4>1, ReadThroughConcat
    <3>9. Parts(w) = <<w>>
      BY <3>8, OnePiece DEF Parts, SplitTopLevel
    <3>10. PICK n \in Nat : n = Len(s)
      OBVIOUS
    <3>11. Len(<<w>>) = 1
      OBVIOUS
    <3>12. n = 1
      BY <2>1, <3>1, <3>9, <3>10, <3>11
    <3> QED
      BY <1>3, <3>10, <3>12
  <2>3. ~(Len(s) = 1)
    BY <1>3
  <2> QED
    BY <2>2, <2>3
<1>4. s = <<>> \/ Len(s) = 1 \/ Len(s) > 1
  <2>1. Len(s) \in Nat /\ (Len(s) = 0 => s = <<>>)
    OBVIOUS
  <2> QED
    BY <2>1
<1> QED
  BY <1>1, <1>2, <1>3, <1>4

-----------------------------------------------------------------------------
(* The loop over the parts.                                                 *)

ReadState(C) == [wildcards : Seq(Seq(C)), explicit : Seq(Tables), ok : BOOLEAN]
ReadStart == [wildcards |-> <<>>, explicit |-> <<>>, ok |-> TRUE]

ReadStep(st, part) ==
    IF part = <<>> THEN st
    ELSE IF IsWildcard(part) THEN [st EXCEPT !.wildcards = Append(@, SchemaOf(part))]
    ELSE IF IsTable(part) THEN [st EXCEPT !.explicit = Append(@, TableOf(part))]
    ELSE [st EXCEPT !.ok = FALSE]

\* What a part of a scope may be.
PartsOf == {<<>>} \cup {Form(e) : e \in Entry}

ReadLoop(C) == [p \in ReadState(C) \X PartsOf |-> ReadStep(p[1], p[2])]

ReadAll(C, parts) == Iterated(ReadState(C), ReadStart, ReadLoop(C), parts)

\* What one entry adds.
Adds(st, e) ==
    CASE e.form = "table" -> [st EXCEPT !.explicit = Append(@, e.table)]
      [] e.form = "schema" -> [st EXCEPT !.wildcards = Append(@, e.table[1])]
      [] OTHER -> [st EXCEPT !.ok = FALSE]

LEMMA ReadEntry ==
  ASSUME NEW C, Charset(C), NEW st \in ReadState(C), NEW e \in Entry
  PROVE  ReadStep(st, Form(e)) = Adds(st, e) /\ Adds(st, e) \in ReadState(C)
<1>1. PICK p \in Seq(C) : p = Form(e) /\ ReadsAs(p, e) /\ Len(p) >= 1
  BY EntryForm DEF Solid
<1>2. p # <<>>
  BY <1>1
<1>3. e.form \in {"table", "schema", "all", "bare"} /\ e.table \in Tables
  BY DEF Entry
<1>4. e.table[1] \in Seq(C)
  BY <1>3 DEF Charset
<1>5. ReadStep(st, p) = Adds(st, e)
  <2>1. CASE e.form = "table"
    BY <1>1, <1>2, <2>1 DEF ReadStep, Adds, ReadsAs, AsTable
  <2>2. CASE e.form = "schema"
    BY <1>1, <1>2, <2>2 DEF ReadStep, Adds, ReadsAs, AsSchema
  <2>3. CASE e.form \in {"all", "bare"}
    BY <1>1, <1>2, <2>3 DEF ReadStep, Adds, ReadsAs, AsNothing
  <2> QED
    BY <1>3, <2>1, <2>2, <2>3
<1>6. Append(st.explicit, e.table) \in Seq(Tables) /\ Append(st.wildcards, e.table[1]) \in Seq(Seq(C))
  BY <1>3, <1>4 DEF ReadState
<1>7. Adds(st, e) \in ReadState(C)
  BY <1>6 DEF Adds, ReadState
<1> QED
  BY <1>1, <1>5, <1>7

LEMMA ReadStepType ==
  ASSUME NEW C, Charset(C), NEW st \in ReadState(C), NEW p \in PartsOf
  PROVE  ReadStep(st, p) \in ReadState(C) /\ ReadLoop(C)[<<st, p>>] = ReadStep(st, p)
<1>1. ReadStep(st, p) \in ReadState(C)
  <2>1. CASE p = <<>>
    BY <2>1 DEF ReadStep
  <2>2. CASE \E e \in Entry : p = Form(e)
    BY <2>2, ReadEntry
  <2> QED
    BY <2>1, <2>2 DEF PartsOf
<1> QED
  BY <1>1 DEF ReadLoop

LEMMA ReadIsLoop ==
  ASSUME NEW C, Charset(C)
  PROVE  /\ ReadStart \in ReadState(C)
         /\ IsLoop(ReadState(C), PartsOf, ReadStart, ReadLoop(C))
<1>1. <<>> \in Seq(Seq(C)) /\ <<>> \in Seq(Tables)
  OBVIOUS
<1>2. ReadStart \in ReadState(C)
  BY <1>1 DEF ReadStart, ReadState
<1>3. \A p \in ReadState(C) \X PartsOf : ReadStep(p[1], p[2]) \in ReadState(C)
  BY ReadStepType
<1> QED
  BY <1>2, <1>3 DEF IsLoop, ReadLoop

ReadsOn(f, raw) ==
    f = [i \in 0 .. Len(raw) |->
           IF i = 0 THEN [wildcards |-> <<>>, explicit |-> <<>>, ok |-> TRUE]
           ELSE IF Strip(raw[i]) = <<>> THEN f[i - 1]
           ELSE IF IsWildcard(Strip(raw[i]))
           THEN [f[i - 1] EXCEPT !.wildcards = Append(@, SchemaOf(Strip(raw[i])))]
           ELSE IF IsTable(Strip(raw[i]))
           THEN [f[i - 1] EXCEPT !.explicit = Append(@, TableOf(Strip(raw[i])))]
           ELSE [f[i - 1] EXCEPT !.ok = FALSE]]

LEMMA ReadingIs ==
  ASSUME NEW C, Charset(C), NEW text, NEW s \in Seq(PartsOf),
         Len(Parts(text)) = Len(s), \A i \in 1 .. Len(s) : Strip(Parts(text)[i]) = s[i]
  PROVE  Reading(text) = ReadAll(C, s)
<1>1. PICK L : L = ReadLoop(C)
  OBVIOUS
<1>2. IsLoop(ReadState(C), PartsOf, ReadStart, L)
  BY <1>1, ReadIsLoop
<1>3. PICK r : Run(r, ReadState(C), ReadStart, L, s)
  BY <1>2, RunExists
<1>4. PICK raw : raw = Parts(text)
  OBVIOUS
<1>5. Len(raw) = Len(s) /\ \A i \in 1 .. Len(s) : Strip(raw[i]) = s[i]
  BY <1>4
<1>6. \A f : ReadsOn(f, raw)
         <=> f = [i \in 0 .. Len(s) |-> IF i = 0 THEN ReadStart ELSE ReadStep(f[i - 1], Strip(raw[i]))]
  BY <1>5 DEF ReadsOn, ReadStep, ReadStart
<1>7. ReadsOn(r, raw)
  <2>1. r \in [0 .. Len(s) -> ReadState(C)] /\ r[0] = ReadStart
    BY <1>3 DEF Run
  <2>2. ASSUME NEW i \in 1 .. Len(s)
        PROVE  r[i] = ReadStep(r[i - 1], Strip(raw[i]))
    <3>1. r[i] = L[<<r[i - 1], s[i]>>]
      BY <1>3 DEF Run
    <3>2. r[i - 1] \in ReadState(C) /\ s[i] \in PartsOf
      BY <2>1
    <3> QED
      BY <1>1, <1>5, <3>1, <3>2, ReadStepType
  <2>3. r = [i \in 0 .. Len(s) |->
               IF i = 0 THEN ReadStart ELSE ReadStep(r[i - 1], Strip(raw[i]))]
    BY <2>1, <2>2
  <2> QED
    BY <1>6, <2>3
<1> DEFINE f == CHOOSE f : ReadsOn(f, raw)
<1>8. ReadsOn(f, raw)
  BY <1>7
<1>9. Reading(text) = f[Len(raw)]
  <2>1. Reading(text) = (CHOOSE g : ReadsOn(g, Parts(text)))[Len(Parts(text))]
    BY Zenon DEF Reading, ReadsOn
  <2> QED
    BY <1>4, <2>1, Zenon
<1> HIDE DEF f
<1>10. Follows(f, ReadState(C), ReadStart, L, s)
  <2>1. f = [i \in 0 .. Len(s) |->
               IF i = 0 THEN ReadStart ELSE ReadStep(f[i - 1], Strip(raw[i]))]
    BY <1>6, <1>8
  <2>2. f[0] = ReadStart
    BY <2>1
  <2>3. ASSUME NEW i \in 1 .. Len(s), f[i - 1] \in ReadState(C)
        PROVE  f[i] = L[<<f[i - 1], s[i]>>]
    <3>1. f[i] = ReadStep(f[i - 1], s[i]) /\ s[i] \in PartsOf
      BY <1>5, <2>1
    <3> QED
      BY <1>1, <2>3, <3>1, ReadStepType
  <2> QED
    BY <2>2, <2>3 DEF Follows
<1>11. f[Len(s)] = Iterated(ReadState(C), ReadStart, L, s)
  BY <1>2, <1>10, IteratedIs
<1> QED
  BY <1>1, <1>5, <1>9, <1>11 DEF ReadAll

Forms(s) == [i \in DOMAIN s |-> Form(s[i])]

\* What has been found when the entries of s are read.
Reads(C, st, s) ==
    /\ st \in ReadState(C)
    /\ st.ok <=> \A i \in 1 .. Len(s) : s[i].form \in {"table", "schema"}
    /\ \A t \in Tables : (\E k \in 1 .. Len(st.explicit) : st.explicit[k] = t)
          <=> \E i \in 1 .. Len(s) : s[i].form = "table" /\ s[i].table = t
    /\ \A n \in Seq(C) : (\E k \in 1 .. Len(st.wildcards) : st.wildcards[k] = n)
          <=> \E i \in 1 .. Len(s) : s[i].form = "schema" /\ s[i].table[1] = n

LEMMA FormsAppend ==
  ASSUME NEW C, Charset(C), NEW s \in Seq(Entry), NEW e \in Entry
  PROVE  /\ Forms(s) \in Seq(PartsOf) /\ Len(Forms(s)) = Len(s)
         /\ \A i \in 1 .. Len(s) : Forms(s)[i] = Form(s[i])
         /\ Forms(Append(s, e)) = Append(Forms(s), Form(e))
<1>1. PICK m \in Seq(Entry) : m = Append(s, e)
  <2>1. Append(s, e) \in Seq(Entry)
    OBVIOUS
  <2> QED
    BY <2>1
<1>2. /\ DOMAIN m = 1 .. Len(s) + 1 /\ DOMAIN s = 1 .. Len(s) /\ Len(s) \in Nat
      /\ m[Len(s) + 1] = e /\ \A i \in 1 .. Len(s) : m[i] = s[i] /\ s[i] \in Entry
  BY <1>1
<1>3. \A x \in Entry : Form(x) \in PartsOf
  BY DEF PartsOf
<1>4. PICK a : a = Forms(s)
  OBVIOUS
<1>5. a \in Seq(PartsOf) /\ Len(a) = Len(s) /\ \A i \in 1 .. Len(s) : a[i] = Form(s[i])
  <2>1. \A i \in 1 .. Len(s) : Form(s[i]) \in PartsOf
    BY <1>2, <1>3
  <2> QED
    BY <1>2, <1>4, <2>1 DEF Forms
<1>6. PICK b : b = Append(a, Form(e))
  OBVIOUS
<1>7. /\ b \in Seq(PartsOf) /\ DOMAIN b = 1 .. Len(s) + 1 /\ b[Len(s) + 1] = Form(e)
      /\ \A i \in 1 .. Len(s) : b[i] = a[i]
  BY <1>3, <1>5, <1>6
<1>8. ASSUME NEW i \in 1 .. Len(s) + 1 PROVE b[i] = Form(m[i])
  <2>1. i \in 1 .. Len(s) \/ i = Len(s) + 1
    BY <1>2
  <2> QED
    BY <1>2, <1>5, <1>7, <2>1
<1>9. b = [i \in 1 .. Len(s) + 1 |-> Form(m[i])]
  BY <1>7, <1>8
<1>10. Forms(m) = b
  BY <1>2, <1>9 DEF Forms
<1> QED
  BY <1>1, <1>4, <1>5, <1>6, <1>10

LEMMA ReadsAppend ==
  ASSUME NEW C, Charset(C), NEW s \in Seq(Entry), NEW e \in Entry,
         NEW st, Reads(C, st, s)
  PROVE  Reads(C, Adds(st, e), Append(s, e))
<1>1. PICK m \in Seq(Entry) : m = Append(s, e)
  <2>1. Append(s, e) \in Seq(Entry)
    OBVIOUS
  <2> QED
    BY <2>1
<1>2. /\ Len(m) = Len(s) + 1 /\ m[Len(s) + 1] = e /\ Len(s) \in Nat
      /\ \A i \in 1 .. Len(s) : m[i] = s[i]
  BY <1>1
<1>3. /\ \A k \in 1 .. Len(m) : k \in 1 .. Len(s) \/ k = Len(s) + 1
      /\ 1 .. Len(s) \subseteq 1 .. Len(m) /\ Len(s) + 1 \in 1 .. Len(m)
  BY <1>2
<1>4. PICK z \in ReadState(C) : z = Adds(st, e)
  BY ReadEntry DEF Reads
<1>5. e.form \in {"table", "schema", "all", "bare"} /\ e.table \in Tables /\ e.table[1] \in Seq(C)
  BY DEF Entry, Charset
<1>6. st.explicit \in Seq(Tables) /\ st.wildcards \in Seq(Seq(C)) /\ st.ok \in BOOLEAN
  BY DEF Reads, ReadState
<1>7. z.ok <=> st.ok /\ e.form \in {"table", "schema"}
  BY <1>4, <1>5 DEF Adds, Reads, ReadState
<1>8. z.explicit = IF e.form = "table" THEN Append(st.explicit, e.table) ELSE st.explicit
  BY <1>4, <1>5 DEF Adds, Reads, ReadState
<1>9. z.wildcards = IF e.form = "schema" THEN Append(st.wildcards, e.table[1]) ELSE st.wildcards
  BY <1>4, <1>5 DEF Adds, Reads, ReadState
<1>10. z.ok <=> \A i \in 1 .. Len(m) : m[i].form \in {"table", "schema"}
  BY <1>2, <1>3, <1>7 DEF Reads
<1>11. ASSUME NEW t \in Tables
       PROVE  (\E k \in 1 .. Len(z.explicit) : z.explicit[k] = t)
                 <=> \E i \in 1 .. Len(m) : m[i].form = "table" /\ m[i].table = t
  <2>1. (\E k \in 1 .. Len(z.explicit) : z.explicit[k] = t)
           <=> (\E k \in 1 .. Len(st.explicit) : st.explicit[k] = t) \/ (e.form = "table" /\ e.table = t)
    <3>1. CASE e.form = "table"
      <4>1. PICK o \in Seq(Tables) : o = st.explicit
        BY <1>6
      <4>2. PICK d \in Tables : d = e.table
        BY <1>5
      <4>3. PICK a : a = Append(o, d)
        OBVIOUS
      <4>4. (\E k \in 1 .. Len(a) : a[k] = t) <=> (\E k \in 1 .. Len(o) : o[k] = t) \/ t = d
        BY <4>3, AppendHas
      <4>5. z.explicit = a
        BY <1>8, <3>1, <4>1, <4>2, <4>3
      <4> QED
        BY <3>1, <4>1, <4>2, <4>4, <4>5
    <3>2. CASE e.form # "table"
      BY <1>8, <3>2
    <3> QED
      BY <3>1, <3>2
  <2>2. (\E i \in 1 .. Len(m) : m[i].form = "table" /\ m[i].table = t)
           <=> (\E i \in 1 .. Len(s) : s[i].form = "table" /\ s[i].table = t)
               \/ (e.form = "table" /\ e.table = t)
    BY <1>2, <1>3
  <2> QED
    BY <2>1, <2>2 DEF Reads
<1>12. ASSUME NEW n \in Seq(C)
       PROVE  (\E k \in 1 .. Len(z.wildcards) : z.wildcards[k] = n)
                 <=> \E i \in 1 .. Len(m) : m[i].form = "schema" /\ m[i].table[1] = n
  <2>1. (\E k \in 1 .. Len(z.wildcards) : z.wildcards[k] = n)
           <=> (\E k \in 1 .. Len(st.wildcards) : st.wildcards[k] = n)
               \/ (e.form = "schema" /\ e.table[1] = n)
    <3>1. CASE e.form = "schema"
      <4>1. PICK o, S : S = Seq(C) /\ o \in Seq(S) /\ o = st.wildcards
        BY <1>6
      <4>2. PICK d \in S : d = e.table[1]
        BY <1>5, <4>1
      <4>3. PICK a : a = Append(o, d)
        OBVIOUS
      <4>4. (\E k \in 1 .. Len(a) : a[k] = n) <=> (\E k \in 1 .. Len(o) : o[k] = n) \/ n = d
        <5>1. o \in Seq(S)
          BY <4>1
        <5>2. Has(Append(o, d), n) <=> Has(o, n) \/ n = d
          BY <5>1, AppendHasOne
        <5>3. Has(a, n) <=> Has(o, n) \/ n = d
          BY <4>3, <5>2
        <5> QED
          BY <5>3 DEF Has
      <4>5. z.wildcards = a
        BY <1>9, <3>1, <4>1, <4>2, <4>3
      <4> QED
        BY <3>1, <4>1, <4>2, <4>4, <4>5
    <3>2. CASE e.form # "schema"
      BY <1>9, <3>2
    <3> QED
      BY <3>1, <3>2
  <2>2. (\E i \in 1 .. Len(m) : m[i].form = "schema" /\ m[i].table[1] = n)
           <=> (\E i \in 1 .. Len(s) : s[i].form = "schema" /\ s[i].table[1] = n)
               \/ (e.form = "schema" /\ e.table[1] = n)
    BY <1>2, <1>3
  <2> QED
    BY <2>1, <2>2 DEF Reads
<1> QED
  BY <1>1, <1>4, <1>10, <1>11, <1>12 DEF Reads

LEMMA ReadAllReads ==
  ASSUME NEW C, Charset(C)
  PROVE  \A s \in Seq(Entry) : Reads(C, ReadAll(C, Forms(s)), s)
<1> DEFINE P == {s \in Seq(Entry) : Reads(C, ReadAll(C, Forms(s)), s)}
<1>0. PICK L : L = ReadLoop(C)
  OBVIOUS
<1>1. IsLoop(ReadState(C), PartsOf, ReadStart, L) /\ ReadStart \in ReadState(C)
  BY <1>0, ReadIsLoop
<1>2. <<>> \in P
  <2>1. PICK s \in Seq(Entry) : s = <<>>
    <3>1. <<>> \in Seq(Entry)
      OBVIOUS
    <3> QED
      BY <3>1
  <2>2. Forms(s) = <<>>
    BY <2>1 DEF Forms
  <2>3. ReadAll(C, Forms(s)) = ReadStart
    <3>1. Iterated(ReadState(C), ReadStart, L, <<>>) = ReadStart
      BY <1>1, IteratedEmpty
    <3> QED
      BY <1>0, <2>2, <3>1 DEF ReadAll
  <2>4. Reads(C, ReadStart, s)
    <3>1. PICK x \in ReadState(C) : x = ReadStart
      BY <1>1
    <3>2. x.ok /\ Len(x.wildcards) = 0 /\ Len(x.explicit) = 0 /\ Len(s) = 0
      BY <2>1, <3>1 DEF ReadStart
    <3>3. Reads(C, x, s)
      BY <3>2 DEF Reads
    <3> QED
      BY <3>1, <3>3
  <2> QED
    BY <2>1, <2>3, <2>4
<1>3. ASSUME NEW s \in Seq(Entry), NEW e \in Entry, s \in P PROVE Append(s, e) \in P
  <2>1. PICK st : st = ReadAll(C, Forms(s))
    OBVIOUS
  <2>2. Reads(C, st, s)
    BY <1>3, <2>1
  <2>3. ReadAll(C, Forms(Append(s, e))) = Adds(st, e)
    <3>1. PICK p \in PartsOf : p = Form(e)
      BY DEF PartsOf
    <3>2. Forms(s) \in Seq(PartsOf) /\ Forms(Append(s, e)) = Append(Forms(s), p)
      BY <3>1, FormsAppend
    <3>3. Iterated(ReadState(C), ReadStart, L, Append(Forms(s), p))
             = L[<<Iterated(ReadState(C), ReadStart, L, Forms(s)), p>>]
      BY <1>1, <3>2, IteratedAppend
    <3>4. st \in ReadState(C)
      BY <2>2 DEF Reads
    <3>5. L[<<st, p>>] = ReadStep(st, p)
      BY <1>0, <3>4, ReadStepType
    <3>6. ReadStep(st, Form(e)) = Adds(st, e)
      BY <3>4, ReadEntry
    <3> QED
      BY <1>0, <2>1, <3>1, <3>2, <3>3, <3>5, <3>6 DEF ReadAll
  <2>4. Reads(C, Adds(st, e), Append(s, e))
    BY <2>2, ReadsAppend
  <2>5. Append(s, e) \in Seq(Entry)
    OBVIOUS
  <2> QED
    BY <2>3, <2>4, <2>5
<1>4. \A s \in Seq(Entry) : s \in P
  <2> HIDE DEF P
  <2> QED
    BY <1>2, <1>3, SequenceInduction
<1> QED
  BY <1>4

\* What the builder reads in the text of a scope.
LEMMA ScopeIsRead ==
  ASSUME NEW C, Charset(C), NEW s \in Seq(Entry)
  PROVE  Reads(C, Reading(Written(s)), s)
<1>1. Reads(C, ReadAll(C, Forms(s)), s)
  BY ReadAllReads
<1>2. CASE s # <<>>
  <2>1. /\ Len(Parts(Written(s))) = Len(s)
        /\ \A i \in 1 .. Len(s) : Strip(Parts(Written(s))[i]) = Form(s[i])
    <3>1. PICK Q : Q = {Quote}
      OBVIOUS
    <3>2. Separable(C, Q)
      BY <3>1, EntriesSeparable
    <3>3. PICK parts : parts = Pieces(Scanned(Written(s), Comma, Q))
      OBVIOUS
    <3>4. Len(parts) = Len(s) /\ \A i \in 1 .. Len(s) : Strip(parts[i]) = Form(s[i])
      BY <1>2, <3>2, <3>3, PartsAreEntries
    <3>5. Parts(Written(s)) = parts
      BY <3>1, <3>3 DEF Parts, SplitTopLevel
    <3> QED
      BY <3>4, <3>5
  <2>2. PICK f \in Seq(PartsOf) : f = Forms(s)
    <3>1. PICK t \in Seq(Entry), e \in Entry : s = Append(t, e)
      BY <1>2, SnocOf
    <3> QED
      BY <3>1, FormsAppend
  <2>3. Len(f) = Len(s) /\ \A i \in 1 .. Len(s) : f[i] = Form(s[i])
    <3>1. PICK t \in Seq(Entry), e \in Entry : s = Append(t, e)
      BY <1>2, SnocOf
    <3> QED
      BY <2>2, <3>1, FormsAppend
  <2>4. Reading(Written(s)) = ReadAll(C, f)
    BY <2>1, <2>3, ReadingIs
  <2> QED
    BY <1>1, <2>2, <2>4
<1>3. CASE s = <<>>
  <2>1. PICK text \in Seq(C) : text = <<>>
    <3>1. <<>> \in Seq(C)
      OBVIOUS
    <3> QED
      BY <3>1
  <2>2. text \in ReadThrough(C, Comma, {Quote}) /\ AllBlank(text)
    <3>1. AllBlank(text)
      BY <2>1 DEF AllBlank
    <3> QED
      BY <3>1, MarksDiffer, BlankRead
  <2>3. Parts(text) = <<text>>
    BY <2>2, OnePiece DEF Parts, SplitTopLevel
  <2>4. text \in PartsOf
    BY <2>1 DEF PartsOf
  <2>5. PICK f \in Seq(PartsOf) : f = <<text>> /\ Len(f) = 1 /\ f[1] = text
    BY <2>4, Singleton
  <2>6. Strip(text) = text
    BY <2>1, <2>2, StripBlank
  <2>7. Len(Parts(text)) = Len(f) /\ \A i \in 1 .. Len(f) : Strip(Parts(text)[i]) = f[i]
    <3>1. \A i \in 1 .. Len(f) : i = 1
      BY <2>5
    <3> QED
      BY <2>3, <2>5, <2>6, <3>1
  <2>8. Reading(text) = ReadAll(C, f)
    BY <2>7, ReadingIs
  <2>9. ReadAll(C, f) = ReadAll(C, Forms(s))
    <3>1. PICK e \in Seq(PartsOf) : e = <<>>
      <4>1. <<>> \in Seq(PartsOf)
        OBVIOUS
      <4> QED
        BY <4>1
    <3>2. f = Append(e, text)
      BY <2>5, <3>1
    <3>3. PICK L : L = ReadLoop(C)
      OBVIOUS
    <3>4. IsLoop(ReadState(C), PartsOf, ReadStart, L) /\ ReadStart \in ReadState(C)
      BY <3>3, ReadIsLoop
    <3>5. Iterated(ReadState(C), ReadStart, L, Append(e, text))
             = L[<<Iterated(ReadState(C), ReadStart, L, e), text>>]
      BY <2>4, <3>4, IteratedAppend
    <3>6. Iterated(ReadState(C), ReadStart, L, e) = ReadStart
      <4>1. Iterated(ReadState(C), ReadStart, L, <<>>) = ReadStart
        BY <3>4, IteratedEmpty
      <4> QED
        BY <3>1, <4>1
    <3>7. L[<<ReadStart, text>>] = ReadStart
      <4>1. L[<<ReadStart, text>>] = ReadStep(ReadStart, text)
        BY <2>4, <3>3, <3>4, ReadStepType
      <4> QED
        BY <2>1, <4>1 DEF ReadStep
    <3>8. Forms(s) = e
      <4>1. Forms(<<>>) = <<>>
        BY DEF Forms
      <4> QED
        BY <1>3, <3>1, <4>1
    <3> QED
      BY <3>2, <3>3, <3>5, <3>6, <3>7, <3>8 DEF ReadAll
  <2>10. Written(s) = text
    BY <1>3, <2>1, WrittenEmpty
  <2> QED
    BY <1>1, <2>8, <2>9, <2>10
<1> QED
  BY <1>2, <1>3

-----------------------------------------------------------------------------
(* _dedupe_tables.                                                          *)

SeenStep(seen, t) == IF Contains(seen, t) THEN seen ELSE Append(seen, t)
SeenLoop(T) == [p \in Seq(T) \X T |-> SeenStep(p[1], p[2])]

LEMMA SeenStepType ==
  ASSUME NEW T, NEW seen \in Seq(T), NEW t \in T
  PROVE  SeenStep(seen, t) \in Seq(T) /\ SeenLoop(T)[<<seen, t>>] = SeenStep(seen, t)
<1>1. Append(seen, t) \in Seq(T)
  OBVIOUS
<1> QED
  BY <1>1 DEF SeenStep, SeenLoop

LEMMA SeenIsLoop ==
  ASSUME NEW T
  PROVE  IsLoop(Seq(T), T, <<>>, SeenLoop(T))
<1>1. \A p \in Seq(T) \X T : SeenStep(p[1], p[2]) \in Seq(T)
  BY SeenStepType
<1>2. <<>> \in Seq(T)
  OBVIOUS
<1> QED
  BY <1>1, <1>2 DEF IsLoop, SeenLoop

Sees(f, ts) ==
    f = [i \in 0 .. Len(ts) |->
           IF i = 0 THEN <<>>
           ELSE IF Contains(f[i - 1], ts[i]) THEN f[i - 1] ELSE Append(f[i - 1], ts[i])]

LEMMA DistinctIs ==
  ASSUME NEW T, NEW s \in Seq(T)
  PROVE  Distinct(s) = Iterated(Seq(T), <<>>, SeenLoop(T), s)
<1>1. PICK L, e : L = SeenLoop(T) /\ e = <<>>
  OBVIOUS
<1>2. IsLoop(Seq(T), T, e, L)
  BY <1>1, SeenIsLoop
<1>3. PICK r : Run(r, Seq(T), e, L, s)
  BY <1>2, RunExists
<1>4. \A f : Sees(f, s)
         <=> f = [i \in 0 .. Len(s) |-> IF i = 0 THEN e ELSE SeenStep(f[i - 1], s[i])]
  BY <1>1 DEF Sees, SeenStep
<1>5. Sees(r, s)
  <2>1. r \in [0 .. Len(s) -> Seq(T)] /\ r[0] = e
    BY <1>3 DEF Run
  <2>2. ASSUME NEW i \in 1 .. Len(s)
        PROVE  r[i] = SeenStep(r[i - 1], s[i])
    <3>1. r[i] = L[<<r[i - 1], s[i]>>]
      BY <1>3 DEF Run
    <3>2. r[i - 1] \in Seq(T) /\ s[i] \in T
      BY <2>1
    <3> QED
      BY <1>1, <3>1, <3>2, SeenStepType
  <2>3. r = [i \in 0 .. Len(s) |-> IF i = 0 THEN e ELSE SeenStep(r[i - 1], s[i])]
    BY <2>1, <2>2
  <2> QED
    BY <1>4, <2>3
<1> DEFINE f == CHOOSE f : Sees(f, s)
<1>6. Sees(f, s)
  BY <1>5
<1>7. Distinct(s) = f[Len(s)]
  BY DEF Distinct, Sees
<1> HIDE DEF f
<1>8. Follows(f, Seq(T), e, L, s)
  <2>1. f = [i \in 0 .. Len(s) |-> IF i = 0 THEN e ELSE SeenStep(f[i - 1], s[i])]
    BY <1>4, <1>6
  <2>2. f[0] = e
    BY <2>1
  <2>3. ASSUME NEW i \in 1 .. Len(s), f[i - 1] \in Seq(T)
        PROVE  f[i] = L[<<f[i - 1], s[i]>>]
    <3>1. f[i] = SeenStep(f[i - 1], s[i]) /\ s[i] \in T
      BY <2>1
    <3> QED
      BY <1>1, <2>3, <3>1, SeenStepType
  <2> QED
    BY <2>2, <2>3 DEF Follows
<1>9. f[Len(s)] = Iterated(Seq(T), e, L, s)
  BY <1>2, <1>8, IteratedIs
<1> QED
  BY <1>1, <1>7, <1>9

\* Each element stays once.
LEMMA DistinctHas ==
  ASSUME NEW T
  PROVE  \A s \in Seq(T) :
            /\ Distinct(s) \in Seq(T) /\ IsInjective(Distinct(s))
            /\ \A x : Has(Distinct(s), x) <=> Has(s, x)
<1> DEFINE Holds(s) ==
             /\ Distinct(s) \in Seq(T) /\ IsInjective(Distinct(s))
             /\ \A x : Has(Distinct(s), x) <=> Has(s, x)
           P == {s \in Seq(T) : Holds(s)}
<1>0. PICK L, e : L = SeenLoop(T) /\ e = <<>>
  OBVIOUS
<1>1. IsLoop(Seq(T), T, e, L) /\ e \in Seq(T)
  BY <1>0, SeenIsLoop DEF IsLoop
<1>2. <<>> \in P
  <2>1. Iterated(Seq(T), e, L, <<>>) = e
    BY <1>1, IteratedEmpty
  <2>2. Distinct(e) = e
    BY <1>0, <1>1, <2>1, DistinctIs
  <2>3. IsInjective(e)
    BY <1>0 DEF IsInjective
  <2>4. Holds(e)
    BY <1>1, <2>2, <2>3
  <2> HIDE DEF Holds
  <2> QED
    BY <1>0, <1>1, <2>4
<1>3. ASSUME NEW s \in Seq(T), NEW c \in T, s \in P PROVE Append(s, c) \in P
  <2>1. PICK d \in Seq(T) : d = Distinct(s) /\ IsInjective(d) /\ \A x : Has(d, x) <=> Has(s, x)
    BY <1>3
  <2>2. PICK a \in Seq(T) : a = Append(s, c)
    <3>1. Append(s, c) \in Seq(T)
      OBVIOUS
    <3> QED
      BY <3>1
  <2>3. Distinct(a) = SeenStep(d, c)
    <3>1. Iterated(Seq(T), e, L, Append(s, c)) = L[<<Iterated(Seq(T), e, L, s), c>>]
      BY <1>1, IteratedAppend
    <3>2. d = Iterated(Seq(T), e, L, s) /\ Distinct(a) = Iterated(Seq(T), e, L, a)
      BY <1>0, <2>1, DistinctIs
    <3>3. L[<<d, c>>] = SeenStep(d, c)
      BY <1>0, SeenStepType
    <3> QED
      BY <2>2, <3>1, <3>2, <3>3
  <2>4. \A x : Has(a, x) <=> Has(s, x) \/ x = c
    BY <2>2, AppendHasOne
  <2>5. CASE Contains(d, c)
    <3>1. Distinct(a) = d /\ Has(d, c)
      BY <2>3, <2>5 DEF SeenStep, Contains, Has
    <3>2. \A x : Has(d, x) <=> Has(a, x)
      BY <2>1, <2>4, <3>1
    <3> QED
      BY <2>1, <2>2, <3>1, <3>2
  <2>6. CASE ~Contains(d, c)
    <3>1. PICK b \in Seq(T) : b = Append(d, c)
      <4>1. Append(d, c) \in Seq(T)
        OBVIOUS
      <4> QED
        BY <4>1
    <3>2. Distinct(a) = b
      BY <2>3, <2>6, <3>1 DEF SeenStep
    <3>3. \A x : Has(b, x) <=> Has(d, x) \/ x = c
      BY <3>1, AppendHasOne
    <3>4. IsInjective(b)
      <4>1. /\ DOMAIN b = 1 .. Len(d) + 1 /\ b[Len(d) + 1] = c /\ Len(d) \in Nat
            /\ \A i \in 1 .. Len(d) : b[i] = d[i]
        BY <3>1
      <4>2. \A i \in 1 .. Len(d) : d[i] # c
        BY <2>6 DEF Contains
      <4>3. \A i \in 1 .. Len(d) + 1 : i \in 1 .. Len(d) \/ i = Len(d) + 1
        BY <4>1
      <4>4. \A i, j \in 1 .. Len(d) : d[i] = d[j] => i = j
        BY <2>1 DEF IsInjective
      <4> QED
        BY <4>1, <4>2, <4>3, <4>4 DEF IsInjective
    <3>5. \A x : Has(b, x) <=> Has(a, x)
      BY <2>1, <2>4, <3>3
    <3> QED
      BY <2>2, <3>2, <3>4, <3>5
  <2> HIDE DEF P
  <2> QED
    BY <2>5, <2>6
<1>4. \A s \in Seq(T) : s \in P
  <2> HIDE DEF P
  <2> QED
    BY <1>2, <1>3, SequenceInduction
<1> QED
  BY <1>4
-----------------------------------------------------------------------------
(* What a scope resolves to.                                                *)

LEMMA StepOfTables ==
  ASSUME exists \subseteq Tables
  PROVE  IsFiniteSet(exists)
  BY FS_Subset, TablesAssumption

LEMMA TablesInHas ==
  ASSUME exists \subseteq Tables, NEW N, NEW schemas \in Seq(N)
  PROVE  /\ TablesIn(schemas) \in Seq(Tables)
         /\ \A t \in Tables : Has(TablesIn(schemas), t) <=> t \in exists /\ Has(schemas, t[1])
<1> DEFINE Of(k) == {t \in exists : t[1] = schemas[k]}
           ss == [k \in DOMAIN schemas |-> SetToSeq(Of(k))]
<1>1. ASSUME NEW k \in 1 .. Len(schemas)
      PROVE  SetToSeq(Of(k)) \in Seq(Tables) /\ \A t : t \in Of(k) <=> Has(SetToSeq(Of(k)), t)
  <2>1. IsFiniteSet(Of(k)) /\ Of(k) \subseteq Tables
    <3>1. Of(k) \in SUBSET Tables
      OBVIOUS
    <3> HIDE DEF Of
    <3> QED
      BY <3>1, FS_Subset, TablesAssumption
  <2> HIDE DEF Of
  <2>2. SetToSeq(Of(k)) \in Seq(Of(k)) /\ \A t : t \in Of(k) <=> Has(SetToSeq(Of(k)), t)
    BY <2>1, SetListed
  <2>3. Seq(Of(k)) \subseteq Seq(Tables)
    BY <2>1, SequencesOfMore
  <2> QED
    BY <2>2, <2>3
<1>2. PICK n \in Nat : n = Len(schemas) /\ DOMAIN schemas = 1 .. n
  OBVIOUS
<1>3. TablesIn(schemas) = FlattenSeq(ss)
  BY DEF TablesIn
<1>4. \A t, k : t \in Of(k) <=> t \in exists /\ t[1] = schemas[k]
  OBVIOUS
<1> HIDE DEF Of
<1>5. ss \in Seq(Seq(Tables)) /\ Len(ss) = n /\ \A k \in 1 .. n : ss[k] = SetToSeq(Of(k))
  BY <1>1, <1>2
<1> HIDE DEF ss
<1>6. /\ FlattenSeq(ss) \in Seq(Tables)
      /\ \A t \in Tables : Has(FlattenSeq(ss), t) <=> \E k \in 1 .. n : Has(ss[k], t)
  BY <1>5, FlattenHas
<1>7. ASSUME NEW t \in Tables
      PROVE  (\E k \in 1 .. n : Has(ss[k], t)) <=> t \in exists /\ Has(schemas, t[1])
  <2>1. ASSUME NEW k \in 1 .. n
        PROVE  Has(ss[k], t) <=> t \in exists /\ t[1] = schemas[k]
    <3>1. t \in Of(k) <=> Has(SetToSeq(Of(k)), t)
      BY <1>1, <1>2
    <3>2. t \in Of(k) <=> t \in exists /\ t[1] = schemas[k]
      BY <1>4
    <3>3. ss[k] = SetToSeq(Of(k))
      BY <1>5
    <3> QED
      BY <3>1, <3>2, <3>3
  <2> QED
    BY <1>2, <2>1 DEF Has
<1> QED
  BY <1>3, <1>6, <1>7

LEMMA UserSchemasHas ==
  ASSUME exists \subseteq Tables
  PROVE  \E N : /\ UserSchemas \in Seq(N)
                /\ \A t \in exists : Has(UserSchemas, t[1]) <=> t[1] \notin System
<1> DEFINE N == {t[1] : t \in exists}
           f == [t \in exists |-> t[1]]
<1>1. IsFiniteSet(exists)
  BY StepOfTables
<1>2. f \in Surjection(exists, N)
  <2>1. f \in [exists -> N] /\ \A x \in N : \E t \in exists : f[t] = x
    OBVIOUS
  <2> HIDE DEF f, N
  <2> QED
    BY <2>1 DEF Surjection
<1>3. \A t \in exists : t[1] \in N
  OBVIOUS
<1>4. UserSchemas = SetToSeq(N \ System)
  BY DEF UserSchemas
<1> HIDE DEF f, N
<1>5. IsFiniteSet(N)
  BY <1>1, <1>2, FS_Surjection
<1>6. IsFiniteSet(N \ System)
  <2>1. N \ System \in SUBSET N
    OBVIOUS
  <2> QED
    BY <1>5, <2>1, FS_Subset
<1>7. /\ SetToSeq(N \ System) \in Seq(N \ System)
      /\ \A x : x \in N \ System <=> Has(SetToSeq(N \ System), x)
  BY <1>6, SetListed
<1> QED
  BY <1>3, <1>4, <1>7

LEMMA ScopeTexts ==
  ASSUME NEW s \in Scopes
  PROVE  /\ s \in Seq(Entry) /\ \A i \in 1 .. Len(s) : s[i] \in Entry
         /\ Len(s) \in Nat /\ DOMAIN s = 1 .. Len(s)
         /\ IsStar[s] <=> Len(s) = 1 /\ s[1].form = "all"
         /\ \E C : /\ Tables \subseteq Seq(C) \X Seq(C)
                   /\ Reads(C, Reading(Written(s)), s)
<1>1. s \in Seq(Entry)
  BY ScopesAssumption
<1>2. PICK C : Charset(C)
  BY CharsetExists
<1>3. Strip(Written(s)) = <<Star>> <=> Len(s) = 1 /\ s[1].form = "all"
  BY <1>1, <1>2, StarIs
<1>4. IsStar[s] <=> Len(s) = 1 /\ s[1].form = "all"
  BY <1>3 DEF IsStar, Text
<1>5. Reads(C, Reading(Written(s)), s) /\ Tables \subseteq Seq(C) \X Seq(C)
  BY <1>1, <1>2, ScopeIsRead DEF Charset
<1>6. (\A i \in 1 .. Len(s) : s[i] \in Entry) /\ Len(s) \in Nat /\ DOMAIN s = 1 .. Len(s)
  BY <1>1
<1> QED
  BY <1>1, <1>4, <1>5, <1>6

(* A text is a scope if its caller means something: no name stands alone,    *)
(* and "*" stands alone.                                                     *)
LEMMA WellFormedIsRead ==
  ASSUME NEW s \in Scopes
  PROVE  Valid[s] <=> ~Malformed(s)
<1>1. PICK C : Reads(C, Reading(Written(s)), s)
  BY ScopeTexts
<1>2. IsScope(Text[s]) <=> \A i \in 1 .. Len(s) : s[i].form \in {"table", "schema"}
  BY <1>1 DEF Reads, IsScope, Text
<1>3. Valid[s] <=> IsStar[s] \/ IsScope(Text[s])
  BY DEF Valid
<1>4. Malformed(s) <=> \E i \in 1 .. Len(s) :
                          s[i].form = "bare" \/ (s[i].form = "all" /\ Len(s) > 1)
  BY ScopeTexts DEF Malformed
<1>5. \A i \in 1 .. Len(s) : s[i].form \in {"table", "schema", "all", "bare"}
  BY ScopeTexts DEF Entry
<1>6. CASE IsStar[s]
  <2>1. Len(s) = 1 /\ s[1].form = "all"
    BY <1>6, ScopeTexts
  <2>2. \A i \in 1 .. Len(s) : i = 1
    BY <2>1
  <2> QED
    BY <1>3, <1>4, <1>6, <2>1, <2>2
<1>7. CASE ~IsStar[s]
  <2>1. ~(Len(s) = 1 /\ s[1].form = "all") /\ Len(s) \in Nat
    BY <1>7, ScopeTexts
  <2>2. ASSUME NEW i \in 1 .. Len(s), s[i].form = "all" PROVE Len(s) > 1
    <3>1. PICK n \in Nat : n = Len(s)
      BY <2>1
    <3>2. i \in 1 .. n
      BY <3>1
    <3>3. n # 1
      BY <2>1, <2>2, <3>1, <3>2
    <3>4. n > 1
      BY <3>2, <3>3
    <3> QED
      BY <3>1, <3>4
  <2> QED
    BY <1>2, <1>3, <1>4, <1>5, <1>7, <2>2
<1> QED
  BY <1>6, <1>7

\* The table t is named by s.
Named(s, t) == \E i \in 1 .. Len(s) : s[i].form = "table" /\ s[i].table = t

(* A scope resolves to tables, each once: those it names, whether they exist  *)
(* or not, and those there are in the schemas it names, or in all.           *)
LEMMA ResolvedIs ==
  ASSUME exists \subseteq Tables, NEW s \in Scopes
  PROVE  /\ Resolved(s) \in Seq(Tables) /\ IsInjective(Resolved(s))
         /\ Valid[s] => \A t \in Tables :
              Has(Resolved(s), t) <=> Named(s, t) \/ (t \in exists /\ Means(s, t))
<1>1. PICK C : Tables \subseteq Seq(C) \X Seq(C) /\ Reads(C, Reading(Written(s)), s)
  BY ScopeTexts
<1>2. PICK x, w : x = ExplicitOf[s] /\ w = WildcardsOf[s]
  OBVIOUS
<1>3. /\ x = Reading(Written(s)).explicit /\ w = Reading(Written(s)).wildcards
      /\ x \in Seq(Tables) /\ w \in Seq(Seq(C))
  BY <1>1, <1>2 DEF ExplicitOf, WildcardsOf, Explicit, Wildcards, Text, Reads, ReadState
<1>4. \A t \in Tables : Has(x, t) <=> Named(s, t)
  BY <1>1, <1>3 DEF Reads, Has, Named
<1>5. \A t \in Tables : Has(w, t[1]) <=> \E i \in 1 .. Len(s) : s[i].form = "schema" /\ s[i].table[1] = t[1]
  <2>1. \A n \in Seq(C) : Has(w, n) <=> \E i \in 1 .. Len(s) : s[i].form = "schema" /\ s[i].table[1] = n
    BY <1>1, <1>3 DEF Reads, Has
  <2>2. \A t \in Tables : t[1] \in Seq(C)
    BY <1>1
  <2> QED
    BY <2>1, <2>2
<1>6. /\ TablesIn(w) \in Seq(Tables)
      /\ \A t \in Tables : Has(TablesIn(w), t) <=> t \in exists /\ Has(w, t[1])
  BY <1>3, TablesInHas
<1>7. PICK N : UserSchemas \in Seq(N) /\ \A t \in exists : Has(UserSchemas, t[1]) <=> t[1] \notin System
  BY UserSchemasHas
<1>8. /\ TablesIn(UserSchemas) \in Seq(Tables)
      /\ \A t \in Tables : Has(TablesIn(UserSchemas), t) <=> t \in exists /\ t[1] \notin System
  BY <1>7, TablesInHas
<1>9. PICK all : all = IF IsStar[s] THEN TablesIn(UserSchemas) ELSE x \o TablesIn(w)
  OBVIOUS
<1>10. all \in Seq(Tables) /\ Resolved(s) = Distinct(all)
  BY <1>2, <1>3, <1>6, <1>8, <1>9 DEF Resolved
<1>11. /\ Resolved(s) \in Seq(Tables) /\ IsInjective(Resolved(s))
       /\ \A t : Has(Resolved(s), t) <=> Has(all, t)
  BY <1>10, DistinctHas
<1>12. ASSUME Valid[s], NEW t \in Tables
       PROVE  Has(all, t) <=> Named(s, t) \/ (t \in exists /\ Means(s, t))
  <2>0. Means(s, t) <=> \/ Named(s, t)
                        \/ \E i \in 1 .. Len(s) : s[i].form = "schema" /\ s[i].table[1] = t[1]
                        \/ t[1] \notin System /\ \E i \in 1 .. Len(s) : s[i].form = "all"
    BY ScopeTexts DEF Means, Named
  <2>1. CASE IsStar[s]
    <3>1. Len(s) = 1 /\ s[1].form = "all" /\ \A i \in 1 .. Len(s) : i = 1
      BY <2>1, ScopeTexts
    <3>2. ~Named(s, t) /\ (Means(s, t) <=> t[1] \notin System)
      BY <2>0, <3>1 DEF Named
    <3> QED
      BY <1>8, <1>9, <2>1, <3>2
  <2>2. CASE ~IsStar[s]
    <3>1. IsScope(Text[s])
      BY <1>12, <2>2 DEF Valid
    <3>2. \A i \in 1 .. Len(s) : s[i].form \in {"table", "schema"}
      BY <1>1, <3>1 DEF Reads, IsScope, Text
    <3>3. Means(s, t) <=> Named(s, t) \/ Has(w, t[1])
      BY <1>5, <2>0, <3>2
    <3>4. Has(all, t) <=> Has(x, t) \/ Has(TablesIn(w), t)
      BY <1>3, <1>6, <1>9, <2>2, ConcatHas
    <3> QED
      BY <1>4, <1>6, <3>3, <3>4
  <2> QED
    BY <2>1, <2>2
<1> QED
  BY <1>11, <1>12

-----------------------------------------------------------------------------
(* Keys.                                                                    *)

\* Scopes that share a key mean the same tables.
KeysTellApart ==
    \A s1, s2 \in Scopes : KeyOf[s1] = KeyOf[s2] =>
        \A t \in Tables : Means(s1, t) <=> Means(s2, t)

\* No name has a comma in it.
PlainNames == \A t \in Tables : \A k \in 1 .. 2 : \A i \in 1 .. Len(t[k]) : t[k][i] # Comma

LEMMA PlainName ==
  ASSUME NEW C, NEW n \in Seq(C), \A i \in 1 .. Len(n) : n[i] # Comma
  PROVE  n \in Seq(C \ {Comma})
<1> DEFINE D == C \ {Comma}
<1>1. \A i \in 1 .. Len(n) : n[i] \in D
  OBVIOUS
<1> HIDE DEF D
<1>2. n \in Seq(D)
  BY <1>1
<1> QED
  BY <1>2 DEF D

LEMMA PlainForm ==
  ASSUME NEW D, Quote \in D, Dot \in D, Star \in D, NEW e \in Entry,
         e.table[1] \in Seq(D), e.table[2] \in Seq(D)
  PROVE  Form(e) \in Seq(D)
<1>1. PICK a \in Seq(D) : a = SqlIdentifier(e.table[1])
  BY WrittenName
<1>2. PICK b \in Seq(D) : b = SqlIdentifier(e.table[2])
  BY WrittenName
<1>3. PICK d \in Seq(D) : d = <<Dot>>
  BY Singleton
<1>4. PICK w \in Seq(D) : w = <<Dot, Star>>
  BY Couple
<1>5. PICK r \in Seq(D) : r = <<Star>>
  BY Singleton
<1>6. PICK ad \in Seq(D) : ad = a \o d
  BY ConcatType
<1>7. PICK adb \in Seq(D) : adb = ad \o b
  BY ConcatType
<1>8. PICK aw \in Seq(D) : aw = a \o w
  BY ConcatType
<1>9. e.form \in {"table", "schema", "all", "bare"}
  BY DEF Entry
<1>10. CASE e.form = "table"
  BY <1>1, <1>2, <1>3, <1>6, <1>7, <1>10 DEF Form
<1>11. CASE e.form = "schema"
  BY <1>1, <1>4, <1>8, <1>11 DEF Form
<1>12. CASE e.form = "all"
  BY <1>5, <1>12 DEF Form
<1>13. CASE e.form = "bare"
  BY <1>1, <1>13 DEF Form
<1> QED
  BY <1>9, <1>10, <1>11, <1>12, <1>13

LEMMA PlainSeparable ==
  ASSUME NEW C, Charset(C), PlainNames
  PROVE  Separable(C, {})
<1>1. PICK D : D = C \ {Comma}
  OBVIOUS
<1>2. Quote \in D /\ Dot \in D /\ Star \in D
  BY <1>1, MarksDiffer DEF Charset, Special
<1>3. ASSUME NEW e \in Entry PROVE Form(e) \in OnePart(C, {})
  <2>1. e.table \in Tables /\ e.table[1] \in Seq(C) /\ e.table[2] \in Seq(C)
    BY DEF Entry, Charset
  <2>2. /\ \A i \in 1 .. Len(e.table[1]) : e.table[1][i] # Comma
        /\ \A i \in 1 .. Len(e.table[2]) : e.table[2][i] # Comma
    BY <2>1 DEF PlainNames
  <2>3. e.table[1] \in Seq(D) /\ e.table[2] \in Seq(D)
    BY <1>1, <2>1, <2>2, PlainName
  <2>4. PICK f \in Seq(D) : f = Form(e)
    BY <1>2, <2>3, PlainForm
  <2>5. Solid(f) /\ f \in Seq(C)
    BY <2>4, EntryForm
  <2>6. \A i \in 1 .. Len(f) : f[i] \in D
    BY <2>4
  <2>7. \A i \in 1 .. Len(f) : f[i] # Comma /\ f[i] \notin {}
    BY <1>1, <2>6
  <2>8. f \in ReadThrough(C, Comma, {})
    BY <2>5, <2>7, ReadThroughPlain
  <2> QED
    BY <2>4, <2>5, <2>8 DEF OnePart
<1> QED
  BY <1>3 DEF Separable

\* The first of a pair of the key is the form of an entry, and the other way round.
InKey(key, p) == \E n : <<p, n>> \in key

LEMMA KeyForms ==
  ASSUME NEW C, Charset(C), Separable(C, {}), NEW s \in Seq(Entry), NEW p
  PROVE  InKey(Key(Written(s)), p) <=> \E i \in 1 .. Len(s) : p = Form(s[i])
<1>1. PICK raw : raw = Split(Written(s), Comma)
  OBVIOUS
<1>2. InKey(Key(Written(s)), p) <=> p # <<>> /\ \E k \in DOMAIN raw : p = Strip(raw[k])
  <2> DEFINE N(q) == Cardinality({k \in DOMAIN raw : Strip(raw[k]) = q})
             P == {Strip(raw[k]) : k \in DOMAIN raw} \ {<<>>}
  <2>1. Key(Written(s)) = {<<q, N(q)>> : q \in P}
    BY <1>1 DEF Key
  <2>2. p \in P <=> p # <<>> /\ \E k \in DOMAIN raw : p = Strip(raw[k])
    OBVIOUS
  <2> HIDE DEF N, P
  <2>3. InKey({<<q, N(q)>> : q \in P}, p) <=> p \in P
    BY DEF InKey
  <2> QED
    BY <2>1, <2>2, <2>3
<1>3. CASE s # <<>>
  <2>1. /\ raw \in Seq(Seq(C)) /\ Len(raw) = Len(s)
        /\ \A i \in 1 .. Len(s) : Strip(raw[i]) = Form(s[i])
    BY <1>1, <1>3, PartsAreEntries DEF Split
  <2>2. DOMAIN raw = 1 .. Len(s)
    BY <2>1
  <2>3. \A i \in 1 .. Len(s) : Form(s[i]) # <<>>
    <3>1. ASSUME NEW i \in 1 .. Len(s) PROVE Form(s[i]) # <<>>
      <4>1. PICK e \in Entry : e = s[i]
        OBVIOUS
      <4>2. PICK f \in Seq(C) : f = Form(e) /\ Len(f) >= 1
        BY EntryForm DEF Solid
      <4>3. f # <<>>
        BY <4>2
      <4> QED
        BY <4>1, <4>2, <4>3
    <3> QED
      BY <3>1
  <2> QED
    BY <1>2, <2>1, <2>2, <2>3
<1>4. CASE s = <<>>
  <2>1. PICK text \in Seq(C) : text = <<>>
    <3>1. <<>> \in Seq(C)
      OBVIOUS
    <3> QED
      BY <3>1
  <2>2. text \in ReadThrough(C, Comma, {}) /\ AllBlank(text)
    <3>1. AllBlank(text)
      BY <2>1 DEF AllBlank
    <3> QED
      BY <3>1, BlankRead
  <2>3. Written(s) = text
    BY <1>4, <2>1, WrittenEmpty
  <2>4. raw = <<text>>
    BY <1>1, <2>2, <2>3, OnePiece DEF Split
  <2>5. \A k \in DOMAIN raw : Strip(raw[k]) = Strip(text)
    BY <2>4
  <2>6. Strip(text) = <<>> /\ Len(s) = 0
    BY <1>4, <2>2, StripBlank
  <2> QED
    BY <1>2, <2>5, <2>6
<1> QED
  BY <1>3, <1>4

\* An entry means what it says.
LEMMA FormTells ==
  ASSUME NEW d \in Entry, NEW e \in Entry, Form(d) = Form(e)
  PROVE  /\ d.form = e.form
         /\ d.form = "table" => d.table = e.table
         /\ d.form = "schema" => d.table[1] = e.table[1]
<1>1. PICK C : Charset(C)
  BY CharsetExists
<1>2. PICK p : p = Form(d) /\ ReadsAs(p, d) /\ ReadsAs(p, e)
  BY <1>1, EntryForm
<1>3. /\ d.form \in {"table", "schema", "all", "bare"}
      /\ e.form \in {"table", "schema", "all", "bare"}
  BY DEF Entry
<1> QED
  BY <1>2, <1>3 DEF ReadsAs, AsTable, AsSchema, AsNothing

(* The key of the cache tells scopes apart that mean different tables, if no *)
(* name has a comma: the key splits at every comma, the builder only at      *)
(* those outside quotes.                                                     *)
LEMMA PlainKeys ==
  ASSUME PlainNames
  PROVE  KeysTellApart
<1>1. PICK C : Charset(C) /\ Separable(C, {})
  BY CharsetExists, PlainSeparable
<1>2. ASSUME NEW s1 \in Scopes, NEW s2 \in Scopes, KeyOf[s1] = KeyOf[s2],
             NEW t \in Tables, Means(s1, t)
      PROVE  Means(s2, t)
  <2>1. /\ s1 \in Seq(Entry) /\ s2 \in Seq(Entry)
        /\ DOMAIN s1 = 1 .. Len(s1) /\ DOMAIN s2 = 1 .. Len(s2)
        /\ \A i \in 1 .. Len(s1) : s1[i] \in Entry
        /\ \A i \in 1 .. Len(s2) : s2[i] \in Entry
    BY ScopeTexts
  <2>2. PICK i \in 1 .. Len(s1) :
          \/ s1[i].form = "table" /\ s1[i].table = t
          \/ s1[i].form = "schema" /\ s1[i].table[1] = t[1]
          \/ s1[i].form = "all" /\ t[1] \notin System
    BY <1>2, <2>1 DEF Means
  <2>3. InKey(Key(Written(s1)), Form(s1[i]))
    BY <1>1, <2>1, KeyForms
  <2>4. Key(Written(s1)) = Key(Written(s2))
    BY <1>2 DEF KeyOf, Text
  <2>5. PICK j \in 1 .. Len(s2) : Form(s1[i]) = Form(s2[j])
    BY <1>1, <2>1, <2>3, <2>4, KeyForms
  <2>6. /\ s1[i].form = s2[j].form
        /\ s1[i].form = "table" => s1[i].table = s2[j].table
        /\ s1[i].form = "schema" => s1[i].table[1] = s2[j].table[1]
    BY <2>1, <2>5, FormTells
  <2> QED
    BY <2>1, <2>2, <2>6 DEF Means
<1> QED
  BY <1>2 DEF KeysTellApart
-----------------------------------------------------------------------------
(* The cache and its calls: what is true of every state.                    *)

\* Tables to build cards of, each once.
TodoList(ts) == ts \in Seq(Tables) /\ IsInjective(ts)

Fit(r) ==
    /\ DOMAIN r = {"pc", "scope", "todo", "bundle", "raised"}
    /\ r.pc \in {"idle", "resolve", "cards", "served", "failed"}
    /\ r.scope \in Scopes \cup {<<>>}
    /\ r.pc # "idle" => r.scope \in Scopes
    /\ TodoList(r.todo)
    /\ r.bundle \in Bundle
    /\ r.raised \in BOOLEAN

CallType == DOMAIN call = Callers /\ \A c \in Callers : Fit(call[c])

WorldType ==
    /\ clock \in 0 .. MaxClock
    /\ exists \subseteq Tables
    /\ changed \in [Tables -> {Never} \cup 0 .. MaxClock]

CacheType == object \in [Keys -> Bundle \cup {NoBundle}]

TypeInv == WorldType /\ CacheType /\ CallType

\* No card is younger than the clock, and its table is there or has changed since.
DatedCard(k) ==
    k.built_at <= clock /\ (k.table \in exists \/ changed[k.table] >= k.built_at)

Dated(b) == \A i \in DOMAIN b.cards : DatedCard(b.cards[i])

DatedInv ==
    /\ \A k \in Keys : object[k] # NoBundle => Dated(object[k])
    /\ \A c \in Callers : Dated(call[c].bundle)
-----------------------------------------------------------------------------
(* What a step does to one call.                                            *)

LEMMA KeysOfScopes ==
  ASSUME NEW s \in Scopes
  PROVE  KeyOf[s] \in Keys
  BY DEF Keys, KeyOf

LEMMA NoCardsFit == NoCards \in Bundle /\ Dated(NoCards) /\ NoCards.cards = <<>>
  BY DEF NoCards, Bundle, Dated

LEMMA NothingTodo == TodoList(<<>>)
  BY DEF TodoList, IsInjective

LEMMA RestTodo ==
  ASSUME NEW ts, TodoList(ts), ts # <<>>
  PROVE  TodoList(Tail(ts))
<1>1. ts \in Seq(Tables) /\ Len(ts) \in Nat /\ Len(ts) # 0
  BY DEF TodoList
<1>2. PICK r \in Seq(Tables) : r = Tail(ts)
  <2>1. Tail(ts) \in Seq(Tables)
    BY <1>1
  <2> QED
    BY <2>1
<1>3. Len(r) = Len(ts) - 1 /\ \A i \in 1 .. Len(r) : r[i] = ts[i + 1]
  BY <1>1, <1>2
<1>4. \A i, j \in 1 .. Len(ts) : ts[i] = ts[j] => i = j
  BY <1>1 DEF TodoList, IsInjective
<1>5. \A i, j \in 1 .. Len(r) : r[i] = r[j] => i = j
  <2> SUFFICES ASSUME NEW i \in 1 .. Len(r), NEW j \in 1 .. Len(r), r[i] = r[j]
               PROVE  i = j
    OBVIOUS
  <2>1. ts[i + 1] = ts[j + 1] /\ i + 1 \in 1 .. Len(ts) /\ j + 1 \in 1 .. Len(ts)
    BY <1>1, <1>3
  <2>2. i + 1 = j + 1
    BY <1>4, <2>1
  <2> QED
    BY <2>2
<1>6. IsInjective(r)
  BY <1>2, <1>5 DEF IsInjective
<1> QED
  BY <1>2, <1>6 DEF TodoList

LEMMA ResolvedTodo ==
  ASSUME exists \subseteq Tables, NEW s \in Scopes
  PROVE  TodoList(Resolved(s))
  BY ResolvedIs DEF TodoList

\* A fresh entry is taken over as it is.
Serves(c, k) ==
    /\ object[k] # NoBundle /\ IsFresh(object[k]) /\ call'[c].bundle = object[k]

\* What every step of c leaves alone, and what becomes of its call and of the cache.
CallSteps(c) ==
    /\ UNCHANGED <<clock, exists, changed>>
    /\ DOMAIN call' = Callers
    /\ \A d \in Callers \ {c} : call'[d] = call[d]
    /\ Fit(call'[c]) /\ Dated(call'[c].bundle)
    /\ object' = object \/ \E k \in Keys : object' = [object EXCEPT ![k] = call[c].bundle]
    /\ call[c].pc = "idle" /\ call'[c].pc = "served" => \E k \in Keys : Serves(c, k)

LEMMA Begun ==
  ASSUME TypeInv, DatedInv, NEW c \in Callers, NEW s \in Scopes, Get(c, s) \/ Refresh(c, s)
  PROVE  CallSteps(c)
<1> USE DEF TypeInv, CallType
<1>1. UNCHANGED <<clock, exists, changed, object>>
  BY DEF Get, Refresh
<1>2. KeyOf[s] \in Keys
  BY KeysOfScopes
<1>3. CASE call' = [call EXCEPT ![c] =
                       [Idle EXCEPT !.pc = "failed", !.scope = s, !.raised = TRUE]]
  BY <1>1, <1>3, NoCardsFit, NothingTodo DEF CallSteps, Idle, Fit
<1>4. ASSUME object[KeyOf[s]] # NoBundle, IsFresh(object[KeyOf[s]]),
             call' = [call EXCEPT ![c] =
                         [Idle EXCEPT !.pc = "served", !.scope = s, !.bundle = object[KeyOf[s]]]]
      PROVE  CallSteps(c)
  BY <1>1, <1>2, <1>4, NothingTodo DEF CallSteps, Serves, Idle, Fit, CacheType, DatedInv
<1>5. CASE Begins(c, s, "resolve")
  BY <1>1, <1>5, NoCardsFit, NothingTodo DEF CallSteps, Begins, Idle, Fit
<1> QED
  BY <1>3, <1>4, <1>5 DEF Get, Refresh

\* One more card in the bundle of c, or one more table without.
LEMMA CardAdded ==
  ASSUME TypeInv, DatedInv, NEW c \in Callers, NEW t \in exists
  PROVE  LET b == [call[c].bundle EXCEPT !.cards =
                      Append(@, [table |-> t, built_at |-> clock])]
         IN b \in Bundle /\ Dated(b)
<1> DEFINE cs == call[c].bundle.cards
           k == [table |-> t, built_at |-> clock]
<1>1. call[c].bundle \in Bundle /\ cs \in Seq(Card)
  BY DEF TypeInv, CallType, Fit, Bundle
<1>2. k \in Card /\ DatedCard(k)
  BY DEF TypeInv, WorldType, Card, DatedCard
<1>3. \A i \in DOMAIN cs : DatedCard(cs[i])
  BY DEF DatedInv, Dated
<1> HIDE DEF cs, k
<1>4. Append(cs, k) \in Seq(Card) /\ \A i \in DOMAIN Append(cs, k) : DatedCard(Append(cs, k)[i])
  BY <1>1, <1>2, <1>3
<1>5. LET b == [call[c].bundle EXCEPT !.cards = Append(cs, k)]
      IN b \in Bundle /\ b.cards = Append(cs, k)
  BY <1>1, <1>4 DEF Bundle
<1> QED
  BY <1>4, <1>5 DEF Dated, cs, k

LEMMA Built ==
  ASSUME TypeInv, DatedInv, NEW c \in Callers, BuildCard(c)
  PROVE  CallSteps(c)
<1> USE DEF TypeInv, CallType
<1> DEFINE t == Head(call[c].todo)
           b == [call[c].bundle EXCEPT !.cards = Append(@, [table |-> t, built_at |-> clock])]
           l == [call[c].bundle EXCEPT !.left = @ \cup {t}]
<1>1. UNCHANGED <<clock, exists, changed, object>> /\ call[c].pc = "cards"
  BY DEF BuildCard
<1>2. call[c].bundle \in Bundle /\ Dated(call[c].bundle) /\ TodoList(Tail(call[c].todo))
  BY RestTodo DEF DatedInv, Fit, BuildCard
<1>3. CASE Found(t) /\ call' = [call EXCEPT ![c].todo = Tail(@), ![c].bundle.cards =
                                   Append(@, [table |-> t, built_at |-> clock])]
  <2>1. b \in Bundle /\ Dated(b)
    BY <1>3, CardAdded DEF Found
  <2>2. call'[c].bundle = b /\ call'[c].pc = "cards" /\ \A d \in Callers \ {c} : call'[d] = call[d]
    BY <1>1, <1>3 DEF Fit
  <2>3. Fit(call'[c])
    BY <1>1, <1>2, <1>3, <2>1, <2>2 DEF Fit
  <2> HIDE DEF b
  <2> QED
    BY <1>1, <1>3, <2>1, <2>2, <2>3 DEF CallSteps
<1>4. CASE call' = [call EXCEPT ![c].todo = Tail(@)]
  BY <1>1, <1>2, <1>4 DEF CallSteps, Fit
<1>5. CASE Found(t) /\ call' = [call EXCEPT ![c].todo = Tail(@), ![c].bundle.left = @ \cup {t}]
  <2>1. l \in Bundle /\ l.cards = call[c].bundle.cards
    BY <1>2, <1>5 DEF Bundle, Found, Nameable
  <2>2. call'[c].bundle = l /\ call'[c].pc = "cards" /\ \A d \in Callers \ {c} : call'[d] = call[d]
    BY <1>1, <1>5 DEF Fit
  <2>3. Fit(call'[c]) /\ Dated(l)
    BY <1>1, <1>2, <1>5, <2>1, <2>2 DEF Fit, Dated
  <2> HIDE DEF l
  <2> QED
    BY <1>1, <1>5, <2>2, <2>3 DEF CallSteps
<1> QED
  BY <1>3, <1>4, <1>5 DEF BuildCard

LEMMA Ended ==
  ASSUME TypeInv, DatedInv, NEW c \in Callers, NEW x \in BOOLEAN, Fails(c, x),
         call[c].pc # "idle",
         UNCHANGED <<clock, exists, changed>>,
         object' = object \/ \E k \in Keys : object' = [object EXCEPT ![k] = call[c].bundle]
  PROVE  CallSteps(c)
  BY NoCardsFit, NothingTodo DEF TypeInv, CallType, Fails, CallSteps, Idle, Fit

LEMMA Others ==
  ASSUME TypeInv, DatedInv, NEW c \in Callers, Resolve(c) \/ Save(c) \/ Again(c)
  PROVE  CallSteps(c)
<1> USE DEF TypeInv, CallType
<1>1. call[c].bundle \in Bundle /\ Dated(call[c].bundle)
  BY DEF DatedInv, Fit
<1>2. CASE Resolve(c)
  <2>1. UNCHANGED <<clock, exists, changed, object>> /\ call[c].pc = "resolve"
    BY <1>2 DEF Resolve
  <2>2. CASE call' = [call EXCEPT ![c].pc = "cards", ![c].todo = Resolved(call[c].scope)]
    <3>1. TodoList(Resolved(call[c].scope))
      BY <2>1, ResolvedTodo DEF Fit, WorldType
    <3> QED
      BY <1>1, <2>1, <2>2, <3>1 DEF CallSteps, Fit
  <2> QED
    BY <1>2, <2>1, <2>2, Ended DEF Resolve, Raises
<1>3. CASE Save(c)
  <2>1. /\ UNCHANGED <<clock, exists, changed>> /\ call[c].pc = "cards"
        /\ object' = object
           \/ object' = [object EXCEPT ![KeyOf[call[c].scope]] = call[c].bundle]
    BY <1>3 DEF Save
  <2>2. KeyOf[call[c].scope] \in Keys
    BY <2>1, KeysOfScopes DEF Fit
  <2>3. CASE call' = [call EXCEPT ![c].pc = "served"]
    BY <1>1, <2>1, <2>2, <2>3 DEF CallSteps, Fit
  <2> QED
    BY <1>3, <2>1, <2>2, <2>3, Ended DEF Save, Raises
<1>4. CASE Again(c)
  BY <1>4, NoCardsFit, NothingTodo DEF Again, CallSteps, Idle, Fit
<1> QED
  BY <1>2, <1>3, <1>4
-----------------------------------------------------------------------------
(* The invariant.                                                           *)

LEMMA InvInit == Init => TypeInv /\ DatedInv
<1> SUFFICES ASSUME Init PROVE TypeInv /\ DatedInv
  OBVIOUS
<1>1. WorldType /\ CacheType
  BY BoundsAssumption DEF Init, WorldType, CacheType
<1>2. \A c \in Callers : call[c] = Idle
  BY DEF Init
<1>3. Fit(Idle) /\ Idle.bundle = NoCards
  BY NoCardsFit, NothingTodo DEF Fit, Idle
<1>4. CallType
  BY <1>2, <1>3 DEF Init, CallType
<1>5. DatedInv
  BY <1>2, <1>3, NoCardsFit, NothingTodo DEF Init, DatedInv
<1> QED
  BY <1>1, <1>4, <1>5 DEF TypeInv

LEMMA CallStepInv ==
  ASSUME TypeInv, DatedInv, NEW c \in Callers, CallSteps(c)
  PROVE  TypeInv' /\ DatedInv'
<1>1. \A b : Dated(b)' <=> \A i \in DOMAIN b.cards : DatedCard(b.cards[i])
  BY DEF Dated, DatedCard, CallSteps
<1>2. WorldType' /\ CallType'
  BY DEF TypeInv, WorldType, CallType, CallSteps
<1>3. call[c].bundle \in Bundle /\ Dated(call[c].bundle)
  BY DEF TypeInv, CallType, Fit, DatedInv
<1>4. CacheType' /\ \A k \in Keys : object'[k] # NoBundle => Dated(object'[k])
  BY <1>3 DEF TypeInv, CacheType, CallSteps, DatedInv
<1>5. \A d \in Callers : Dated(call'[d].bundle)
  BY DEF CallSteps, DatedInv
<1> QED
  BY <1>2, <1>4, <1>5, <1>1 DEF TypeInv, DatedInv, Dated

\* Time passes and tables change under the cards there are.
LEMMA WorldStep ==
  ASSUME TypeInv, DatedInv, Tick \/ \E t \in Tables : Change(t)
  PROVE  TypeInv' /\ DatedInv'
<1>0. UNCHANGED <<object, call>>
  BY DEF Tick, Change
<1>1. WorldType'
  <2>1. CASE Tick
    BY <2>1, BoundsAssumption DEF Tick, TypeInv, WorldType
  <2>2. CASE \E t \in Tables : Change(t)
    BY <2>2 DEF Change, TypeInv, WorldType
  <2> QED
    BY <2>1, <2>2
<1>2. ASSUME NEW k \in Card, DatedCard(k)
      PROVE  DatedCard(k)'
  <2>1. CASE Tick
    BY <1>2, <2>1 DEF Tick, DatedCard, Card, TypeInv, WorldType, Never
  <2>2. ASSUME NEW t \in Tables, Change(t)
        PROVE  DatedCard(k)'
    BY <1>2, <2>2 DEF Change, DatedCard, Card, TypeInv, WorldType, Never
  <2> QED
    BY <2>1, <2>2
<1>3. ASSUME NEW b \in Bundle, Dated(b)
      PROVE  Dated(b)'
  <2>1. \A i \in DOMAIN b.cards : b.cards[i] \in Card
    BY DEF Bundle
  <2> QED
    BY <1>2, <1>3, <2>1 DEF Dated
<1>4. TypeInv'
  BY <1>0, <1>1 DEF TypeInv, CacheType, CallType
<1>5. DatedInv'
  BY <1>0, <1>3 DEF TypeInv, CacheType, CallType, Fit, DatedInv
<1> QED
  BY <1>4, <1>5

LEMMA NextCases ==
  ASSUME TypeInv, DatedInv, [Next]_vars
  PROVE  \/ \E c \in Callers : CallSteps(c)
         \/ Tick \/ \E t \in Tables : Change(t)
         \/ UNCHANGED vars
  BY Begun, Built, Others DEF Next

LEMMA InvStep == TypeInv /\ DatedInv /\ [Next]_vars => (TypeInv /\ DatedInv)'
<1> SUFFICES ASSUME TypeInv, DatedInv, [Next]_vars
             PROVE  TypeInv' /\ DatedInv'
  OBVIOUS
<1>1. CASE UNCHANGED vars
  BY <1>1 DEF vars, TypeInv, WorldType, CacheType, CallType, DatedInv, Dated, DatedCard
<1> QED
  BY <1>1, NextCases, CallStepInv, WorldStep

(* Whatever the texts of the scopes say, the variables have their types: a    *)
(* call works on tables of the database only, each of them once.              *)
THEOREM TypeCorrect == Spec => []TypeOK
<1>1. TypeInv => TypeOK
  <2> SUFFICES ASSUME TypeInv PROVE TypeOK
    OBVIOUS
  <2>1. \A k \in Keys : object[k] = NoBundle \/ object[k] \in Bundle
    BY DEF TypeInv, CacheType
  <2>2. \A c \in Callers : Fit(call[c])
    BY DEF TypeInv, CallType
  <2> QED
    BY <2>1, <2>2 DEF TypeInv, WorldType, TypeOK, Fit, TodoList
<1> QED
  BY <1>1, InvInit, InvStep, PTL DEF Spec
-----------------------------------------------------------------------------
(* What the cache promises.                                                 *)

LEMMA ForgottenStep ==
  ASSUME TypeInv, DatedInv, [Next]_vars, NEW c \in Callers,
         call[c].pc = "idle", call'[c].pc = "served",
         NEW t \in TablesOf(call'[c].bundle)
  PROVE  t \in exists \/ changed[t] > clock - TTL
<1>1. PICK d \in Callers : CallSteps(d)
  BY NextCases DEF Tick, Change, vars
<1>2. d = c
  BY <1>1 DEF CallSteps
<1>3. PICK k \in Keys : Serves(c, k)
  BY <1>1, <1>2 DEF CallSteps
<1> DEFINE b == object[k]
<1>4. b \in Bundle /\ Dated(b) /\ IsFresh(b)
  BY <1>3 DEF Serves, TypeInv, CacheType, DatedInv
<1>5. PICK i \in DOMAIN b.cards : t = b.cards[i].table
  BY <1>3 DEF Serves, TablesOf
<1>6. b.cards[i] \in Card
  BY <1>4 DEF Bundle
<1>7. DatedCard(b.cards[i]) /\ clock - b.cards[i].built_at < TTL
  BY <1>4 DEF Dated, IsFresh
<1> HIDE DEF b
<1> QED
  BY <1>5, <1>6, <1>7, BoundsAssumption DEF DatedCard, Card, TypeInv, WorldType, Never

(* Whatever fails and whoever built or saved what when: the cache serves no  *)
(* card of a table that was dropped a lifetime ago.                          *)
THEOREM DroppedTablesAreForgotten == Spec => GoneIsForgotten
<1> DEFINE Step ==
      \A c \in Callers : call[c].pc = "idle" /\ call'[c].pc = "served" =>
          \A t \in TablesOf(call'[c].bundle) : t \in exists \/ changed[t] > clock - TTL
<1>1. TypeInv /\ DatedInv /\ [Next]_vars => [Step]_vars
  BY ForgottenStep
<1> QED
  BY <1>1, InvInit, InvStep, PTL DEF Spec, GoneIsForgotten

LEMMA FailsOf ==
  ASSUME TypeInv, NEW c \in Callers, NEW x \in BOOLEAN, Fails(c, x)
  PROVE  /\ call'[c].scope = call[c].scope /\ call'[c].raised = x
         /\ \A d \in Callers \ {c} : call'[d] = call[d]
  BY DEF TypeInv, CallType, Fails, Idle

LEMMA FailsStep ==
  ASSUME TypeInv, DatedInv, FailsOnlyByFault, [Next]_vars
  PROVE  FailsOnlyByFault'
<1> SUFFICES ASSUME NEW c \in Callers, call'[c].pc = "failed", call[c] # call'[c]
             PROVE  call'[c].raised \/ Malformed(call'[c].scope)
  BY DEF FailsOnlyByFault
<1> USE DEF TypeInv, CallType
<1>1. PICK d \in Callers :
        \/ \E s \in Scopes : Get(d, s) \/ Refresh(d, s)
        \/ Resolve(d) \/ BuildCard(d) \/ Save(d) \/ Again(d)
  BY DEF Next, Tick, Change, vars
<1>2. d = c
  BY <1>1, Begun, Built, Others DEF CallSteps
<1>3. CASE \E s \in Scopes : Get(c, s) \/ Refresh(c, s)
  BY <1>3 DEF Get, Refresh, Begins, Idle
<1>4. CASE Resolve(c)
  <2>1. call[c].scope \in Scopes
    BY <1>4 DEF Resolve, Fit
  <2>2. CASE Raises(c)
    BY <2>2, FailsOf DEF Raises
  <2>3. CASE ~Valid[call[c].scope] /\ Fails(c, FALSE)
    BY <2>1, <2>3, FailsOf, WellFormedIsRead
  <2>4. CASE call' = [call EXCEPT ![c].pc = "cards", ![c].todo = Resolved(call[c].scope)]
    BY <2>4 DEF Fit
  <2> QED
    BY <1>4, <2>2, <2>3, <2>4 DEF Resolve
<1>5. CASE Save(c)
  <2>1. CASE call' = [call EXCEPT ![c].pc = "served"]
    BY <2>1 DEF Fit
  <2>2. CASE Raises(c)
    BY <2>2, FailsOf DEF Raises
  <2> QED
    BY <1>5, <2>1, <2>2 DEF Save
<1>6. CASE BuildCard(c)
  BY <1>6 DEF BuildCard, Fit
<1>7. CASE Again(c)
  BY <1>7 DEF Again, Idle
<1> QED
  BY <1>1, <1>2, <1>3, <1>4, <1>5, <1>6, <1>7

(* However its scope is spelled, a call fails only if the store or the       *)
(* connection did, or if the scope makes no sense.                           *)
THEOREM FailuresHaveCauses == Spec => []FailsOnlyByFault
<1>1. Init => FailsOnlyByFault
  BY DEF Init, FailsOnlyByFault, Idle
<1>2. TypeInv /\ DatedInv /\ FailsOnlyByFault /\ [Next]_vars => FailsOnlyByFault'
  BY FailsStep
<1> QED
  BY <1>1, <1>2, InvInit, InvStep, PTL DEF Spec
-----------------------------------------------------------------------------
(* What an answer contains.                                                 *)

\* A bundle that is being built for scope s, with the tables of todo left, lacks none it
\* should have, and neither has one it should not.
Complete(s, todo, b) ==
    \A t \in exists \cap Nameable : Means(s, t) /\ changed[t] = Never =>
        (\E i \in DOMAIN todo : todo[i] = t) \/ t \in TablesOf(b) \cup b.left

Answers(s, todo, b) ==
    /\ \A t \in TablesOf(b) : Means(s, t)
    /\ \A i \in DOMAIN todo : Means(s, todo[i])
    /\ Complete(s, todo, b)

CallAnswers(r) ==
    /\ r.pc = "resolve" => r.bundle = NoCards
    /\ r.pc = "cards" => r.todo \in Seq(Tables) /\ Answers(r.scope, r.todo, r.bundle)
    /\ r.pc = "served" => Answers(r.scope, <<>>, r.bundle)

AnswersInv ==
    /\ \A c \in Callers : CallAnswers(call[c])
    /\ \A s \in Scopes : object[KeyOf[s]] # NoBundle => Answers(s, <<>>, object[KeyOf[s]])

\* A table that never changed was there all the time.
LEMMA AnswersStay ==
  ASSUME TypeInv, DatedInv, [Next]_vars, NEW s, NEW todo, NEW b, Answers(s, todo, b)
  PROVE  Answers(s, todo, b)'
<1>1. \A t \in exists' : changed'[t] = Never => t \in exists /\ changed[t] = Never
  <2>1. CASE UNCHANGED <<exists, changed>>
    BY <2>1
  <2>2. ASSUME NEW x \in Tables, Change(x)
        PROVE  \A t \in exists' : changed'[t] = Never => t \in exists /\ changed[t] = Never
    BY <2>2 DEF Change, TypeInv, WorldType, Never
  <2> QED
    BY <2>1, <2>2, NextCases DEF CallSteps, Tick, vars
<1> QED
  BY <1>1 DEF Answers, Complete, TablesOf

\* The next table: its card is added, or it is left out for a reason.
LEMMA NextTable ==
  ASSUME NEW s, NEW todo \in Seq(Tables), todo # <<>>, NEW b \in Bundle, Answers(s, todo, b)
  PROVE  /\ Tail(todo) \in Seq(Tables)
         /\ \A k \in Card : k.table = Head(todo) =>
               Answers(s, Tail(todo), [b EXCEPT !.cards = Append(@, k)])
         /\ ~Found(Head(todo)) => Answers(s, Tail(todo), b)
         /\ Head(todo) \in Tables =>
               Answers(s, Tail(todo), [b EXCEPT !.left = @ \cup {Head(todo)}])
<1>1. /\ Tail(todo) \in Seq(Tables) /\ Head(todo) = todo[1] /\ 1 \in DOMAIN todo
      /\ \A i \in DOMAIN Tail(todo) : i + 1 \in DOMAIN todo /\ Tail(todo)[i] = todo[i + 1]
  OBVIOUS
<1>2. ASSUME NEW i \in DOMAIN todo, i # 1
      PROVE  \E j \in DOMAIN Tail(todo) : Tail(todo)[j] = todo[i]
  <2>1. i - 1 \in DOMAIN Tail(todo) /\ Tail(todo)[i - 1] = todo[i]
    BY <1>2
  <2> QED
    BY <2>1
<1>3. /\ Means(s, Head(todo))
      /\ \A i \in DOMAIN Tail(todo) : Means(s, Tail(todo)[i])
      /\ \A t \in TablesOf(b) : Means(s, t)
  BY <1>1 DEF Answers
<1>4. \A t \in exists \cap Nameable : Means(s, t) /\ changed[t] = Never =>
         (\E j \in DOMAIN Tail(todo) : Tail(todo)[j] = t)
         \/ t \in TablesOf(b) \cup b.left \cup {Head(todo)}
  BY <1>1, <1>2 DEF Answers, Complete
<1>5. ASSUME NEW k \in Card, k.table = Head(todo)
      PROVE  Answers(s, Tail(todo), [b EXCEPT !.cards = Append(@, k)])
  <2> DEFINE d == [b EXCEPT !.cards = Append(@, k)]
  <2>1. d.left = b.left /\ d.cards = Append(b.cards, k) /\ b.cards \in Seq(Card)
    BY DEF Bundle
  <2> HIDE DEF d
  <2>2. TablesOf(d) = TablesOf(b) \cup {Head(todo)}
    <3>1. \A i \in DOMAIN b.cards : i \in DOMAIN d.cards /\ d.cards[i] = b.cards[i]
      BY <2>1
    <3>2. \A i \in DOMAIN d.cards : i \in DOMAIN b.cards \/ d.cards[i] = k
      BY <2>1
    <3>3. Len(d.cards) \in DOMAIN d.cards /\ d.cards[Len(d.cards)] = k
      BY <2>1
    <3> QED
      BY <1>5, <3>1, <3>2, <3>3 DEF TablesOf
  <2> QED
    BY <1>3, <1>4, <2>1, <2>2 DEF Answers, Complete, d
<1>6. ~Found(Head(todo)) => Answers(s, Tail(todo), b)
  BY <1>3, <1>4 DEF Answers, Complete, Found
<1>7. Head(todo) \in Tables => Answers(s, Tail(todo), [b EXCEPT !.left = @ \cup {Head(todo)}])
  <2> DEFINE d == [b EXCEPT !.left = @ \cup {Head(todo)}]
  <2>1. d.left = b.left \cup {Head(todo)} /\ d.cards = b.cards
    BY DEF Bundle
  <2> HIDE DEF d
  <2>2. TablesOf(d) = TablesOf(b)
    BY <2>1 DEF TablesOf
  <2> QED
    BY <1>3, <1>4, <2>1, <2>2 DEF Answers, Complete, d
<1> QED
  BY <1>1, <1>5, <1>6, <1>7

\* One step of c: its call still answers what its scope means.
\* The builder lists tables that are meant, and all of those there are.
MeansThese(s, ts) ==
    /\ \A i \in DOMAIN ts : Means(s, ts[i])
    /\ \A t \in exists \cap Nameable : Means(s, t) /\ changed[t] = Never =>
          \E i \in DOMAIN ts : ts[i] = t

LEMMA ResolvedIsMeant ==
  ASSUME exists \subseteq Tables, NEW s \in Scopes, Valid[s]
  PROVE  MeansThese(s, Resolved(s))
<1>1. PICK r \in Seq(Tables) : r = Resolved(s)
  BY ResolvedIs
<1>2. \A t \in Tables : Has(r, t) <=> Named(s, t) \/ (t \in exists /\ Means(s, t))
  BY <1>1, ResolvedIs
<1>3. \A t : Named(s, t) => Means(s, t)
  BY ScopeTexts DEF Named, Means
<1>4. DOMAIN r = 1 .. Len(r) /\ \A i \in 1 .. Len(r) : r[i] \in Tables /\ Has(r, r[i])
  BY DEF Has
<1>5. \A i \in DOMAIN r : Means(s, r[i])
  BY <1>2, <1>3, <1>4
<1>6. \A t \in exists : Means(s, t) => \E i \in DOMAIN r : r[i] = t
  BY <1>2, <1>4 DEF Has
<1> QED
  BY <1>1, <1>5, <1>6 DEF MeansThese

LEMMA CallAnswersStep ==
  ASSUME TypeInv, DatedInv, AnswersInv, NEW c \in Callers,
         \/ \E s \in Scopes : Get(c, s) \/ Refresh(c, s)
         \/ Resolve(c) \/ BuildCard(c) \/ Save(c) \/ Again(c)
  PROVE  CallAnswers(call'[c])
<1> USE DEF TypeInv, CallType, CallAnswers
<1>0. CallAnswers(call[c]) /\ Fit(call[c])
  BY DEF AnswersInv
<1>1. ASSUME NEW s \in Scopes, Get(c, s) \/ Refresh(c, s)
      PROVE  CallAnswers(call'[c])
  <2>1. CASE /\ object[KeyOf[s]] # NoBundle
             /\ call' = [call EXCEPT ![c] = [Idle EXCEPT !.pc = "served", !.scope = s,
                                                         !.bundle = object[KeyOf[s]]]]
    BY <2>1 DEF AnswersInv, Idle
  <2>2. CASE call' = [call EXCEPT ![c] =
                         [Idle EXCEPT !.pc = "failed", !.scope = s, !.raised = TRUE]]
    BY <2>2 DEF Idle
  <2>3. CASE Begins(c, s, "resolve")
    BY <2>3 DEF Begins, Idle
  <2> QED
    BY <1>1, <2>1, <2>2, <2>3 DEF Get, Refresh
<1>2. CASE Again(c)
  BY <1>2 DEF Again, Idle
<1>3. ASSUME NEW x \in BOOLEAN, Fails(c, x)
      PROVE  CallAnswers(call'[c])
  BY <1>3 DEF Fails, Idle
<1>4. CASE Resolve(c)
  <2> DEFINE s == call[c].scope
  <2>1. s \in Scopes /\ call[c].pc = "resolve" /\ call[c].bundle = NoCards
    BY <1>0, <1>4 DEF Resolve, Fit
  <2>2. CASE Valid[s] /\ call' = [call EXCEPT ![c].pc = "cards", ![c].todo = Resolved(s)]
    <3>1. /\ call'[c].pc = "cards" /\ call'[c].todo = Resolved(s) /\ call'[c].scope = s
          /\ call'[c].bundle = NoCards
      BY <1>0, <2>1, <2>2 DEF Fit
    <3>2. Answers(s, Resolved(s), NoCards)
      <4>1. Answers(s, Resolved(s), NoCards) <=> MeansThese(s, Resolved(s))
        BY DEF Answers, Complete, TablesOf, NoCards, MeansThese
      <4> QED
        BY <2>1, <2>2, <4>1, ResolvedIsMeant DEF WorldType
    <3>3. Resolved(s) \in Seq(Tables)
      BY <2>1, ResolvedIs DEF WorldType
    <3> QED
      BY <3>1, <3>2, <3>3
  <2> QED
    BY <1>3, <1>4, <2>2 DEF Resolve, Raises
<1>5. CASE Save(c)
  <2>1. call[c].pc = "cards" /\ call[c].todo = <<>>
    BY <1>5 DEF Save
  <2>2. CASE call' = [call EXCEPT ![c].pc = "served"]
    BY <1>0, <2>1, <2>2 DEF Fit
  <2> QED
    BY <1>3, <1>5, <2>2 DEF Save, Raises
<1>6. CASE BuildCard(c)
  <2> DEFINE r == call[c]
             t == Head(r.todo)
  <2>1. /\ r.pc = "cards" /\ r.todo # <<>> /\ r.todo \in Seq(Tables) /\ r.bundle \in Bundle
        /\ Answers(r.scope, r.todo, r.bundle)
    BY <1>0, <1>6 DEF BuildCard, Fit
  <2>2. CASE Found(t) /\ call' = [call EXCEPT ![c].todo = Tail(@), ![c].bundle.cards =
                                     Append(@, [table |-> t, built_at |-> clock])]
    <3> DEFINE k == [table |-> t, built_at |-> clock]
    <3>1. k \in Card /\ k.table = t
      BY <2>2 DEF Found, WorldType, Card
    <3>2. /\ call'[c].pc = "cards" /\ call'[c].scope = r.scope /\ call'[c].todo = Tail(r.todo)
          /\ call'[c].bundle = [r.bundle EXCEPT !.cards = Append(@, k)]
      BY <1>0, <2>1, <2>2 DEF Fit
    <3> HIDE DEF k, r
    <3>3. /\ Tail(r.todo) \in Seq(Tables)
          /\ Answers(r.scope, Tail(r.todo), [r.bundle EXCEPT !.cards = Append(@, k)])
      BY <2>1, <3>1, NextTable
    <3> QED
      BY <3>2, <3>3
  <2>3. CASE ~Found(t) /\ call' = [call EXCEPT ![c].todo = Tail(@)]
    <3>1. /\ call'[c].pc = "cards" /\ call'[c].scope = r.scope /\ call'[c].todo = Tail(r.todo)
          /\ call'[c].bundle = r.bundle
      BY <1>0, <2>1, <2>3 DEF Fit
    <3> HIDE DEF r
    <3>2. Tail(r.todo) \in Seq(Tables) /\ Answers(r.scope, Tail(r.todo), r.bundle)
      BY <2>1, <2>3, NextTable
    <3> QED
      BY <3>1, <3>2
  <2>4. CASE Found(t) /\ call' = [call EXCEPT ![c].todo = Tail(@), ![c].bundle.left = @ \cup {t}]
    <3>1. /\ call'[c].pc = "cards" /\ call'[c].scope = r.scope /\ call'[c].todo = Tail(r.todo)
          /\ call'[c].bundle = [r.bundle EXCEPT !.left = @ \cup {t}]
      BY <1>0, <2>1, <2>4 DEF Fit
    <3>2. t \in Tables
      BY <2>4 DEF Found, WorldType
    <3> QED
      BY <2>1, <3>1, <3>2, NextTable
  <2> QED
    BY <1>6, <2>2, <2>3, <2>4 DEF BuildCard
<1> QED
  BY <1>1, <1>2, <1>4, <1>5, <1>6

LEMMA AnswersStep ==
  ASSUME KeysTellApart, TypeInv, DatedInv, AnswersInv, [Next]_vars
  PROVE  AnswersInv'
<1>1. ASSUME NEW c \in Callers
      PROVE  CallAnswers(call'[c])
  <2>1. CASE call'[c] = call[c]
    BY <2>1 DEF AnswersInv
  <2>2. CASE \/ \E s \in Scopes : Get(c, s) \/ Refresh(c, s)
             \/ Resolve(c) \/ BuildCard(c) \/ Save(c) \/ Again(c)
    BY <2>2, CallAnswersStep
  <2>3. ASSUME NEW d \in Callers \ {c},
               \/ \E s \in Scopes : Get(d, s) \/ Refresh(d, s)
               \/ Resolve(d) \/ BuildCard(d) \/ Save(d) \/ Again(d)
        PROVE  call'[c] = call[c]
    <3>1. CallSteps(d)
      BY <2>3, Begun, Built, Others
    <3> QED
      BY <3>1 DEF CallSteps
  <2> QED
    BY <2>1, <2>2, <2>3 DEF Next, Tick, Change, vars
<1>2. \A c \in Callers : CallAnswers(call[c])'
  BY <1>1, AnswersStay DEF CallAnswers
<1>3. ASSUME NEW s \in Scopes, object'[KeyOf[s]] # NoBundle
      PROVE  Answers(s, <<>>, object'[KeyOf[s]])
  <2>1. CASE object'[KeyOf[s]] = object[KeyOf[s]]
    BY <1>3, <2>1 DEF AnswersInv
  <2>2. ASSUME NEW c \in Callers, Save(c), object'[KeyOf[s]] # object[KeyOf[s]]
        PROVE  Answers(s, <<>>, object'[KeyOf[s]])
    <3> DEFINE z == call[c].scope
               b == call[c].bundle
    <3>1. /\ call[c].pc = "cards" /\ call[c].todo = <<>> /\ z \in Scopes /\ b \in Bundle
          /\ object' = object \/ object' = [object EXCEPT ![KeyOf[z]] = b]
      BY <2>2 DEF Save, TypeInv, CallType, Fit
    <3>2. KeyOf[z] = KeyOf[s] /\ object'[KeyOf[s]] = b
      BY <2>2, <3>1, KeysOfScopes DEF TypeInv, CacheType
    <3>3. Answers(z, <<>>, b)
      BY <3>1 DEF AnswersInv, CallAnswers
    <3>4. \A t \in Tables : Means(z, t) <=> Means(s, t)
      BY <3>1, <3>2 DEF KeysTellApart
    <3>5. TablesOf(b) \subseteq Tables /\ exists \subseteq Tables
      <4>1. \A i \in DOMAIN b.cards : b.cards[i] \in Card
        BY <3>1 DEF Bundle
      <4> QED
        BY <4>1 DEF TablesOf, Card, TypeInv, WorldType
    <3> HIDE DEF z, b
    <3>6. Answers(s, <<>>, b)
      BY <3>3, <3>4, <3>5 DEF Answers, Complete
    <3> QED
      BY <3>2, <3>6
  <2>3. object' = object \/ \E c \in Callers : Save(c)
    BY DEF Next, Get, Refresh, Resolve, BuildCard, Again, Tick, Change, vars
  <2> QED
    BY <2>1, <2>2, <2>3
<1>4. \A s \in Scopes : object'[KeyOf[s]] # NoBundle => Answers(s, <<>>, object[KeyOf[s]])'
  BY <1>3, AnswersStay DEF KeyOf
<1> QED
  BY <1>2, <1>4 DEF AnswersInv, KeyOf

(* Where no two scopes that mean different tables share a key, a call gets   *)
(* cards of the tables it means and of all that did not come, go or fail     *)
(* meanwhile, whoever built them and however the scopes are spelled.         *)
THEOREM AnswersFitScopes ==
  ASSUME KeysTellApart
  PROVE  Spec => []AnswerFitsScope
<1>1. Init => AnswersInv
  BY DEF Init, AnswersInv, CallAnswers, Idle, Keys, KeyOf
<1>2. AnswersInv => AnswerFitsScope
  BY DEF AnswersInv, CallAnswers, Answers, Complete, AnswerFitsScope
<1>3. TypeInv /\ DatedInv /\ AnswersInv /\ [Next]_vars => AnswersInv'
  BY AnswersStep
<1> QED
  BY <1>1, <1>2, <1>3, InvInit, InvStep, PTL DEF Spec

(* In a database none of whose names has a comma, every answer fits its      *)
(* scope: quotes, dots, blanks and stars in names do no harm.                *)
THEOREM PlainAnswersFit ==
  ASSUME PlainNames
  PROVE  Spec => []AnswerFitsScope
  BY PlainKeys, AnswersFitScopes
-----------------------------------------------------------------------------
(* When an answer is complete.                                              *)

\* No name has a quote in it.
QuotelessNames == \A t \in Tables : \A k \in 1 .. 2 : \A i \in 1 .. Len(t[k]) : t[k][i] # Quote

LEMMA DoubledPlain ==
  ASSUME NEW C, Quote \in C
  PROVE  \A n \in Seq(C \ {Quote}) : n \in Seq(C) /\ Doubled(n) = n
<1> DEFINE D == C \ {Quote}
           P == {n \in Seq(D) : n \in Seq(C) /\ Doubled(n) = n}
<1>1. D \subseteq C /\ Quote \notin D
  OBVIOUS
<1> HIDE DEF D
<1>2. <<>> \in P
  BY DoubledEmpty
<1>3. ASSUME NEW n \in Seq(D), NEW c \in D, n \in P
      PROVE  Append(n, c) \in P
  <2>1. n \in Seq(C) /\ Doubled(n) = n /\ c \in C
    BY <1>1, <1>3
  <2>2. Append(n, c) \in Seq(D) /\ Append(n, c) \in Seq(C) /\ Append(n, c) = n \o <<c>>
    BY <2>1
  <2>3. Pair(c) = <<c>>
    BY <1>1 DEF Pair
  <2>4. Doubled(Append(n, c)) = Doubled(n) \o Pair(c)
    BY <2>1, DoubledAppend
  <2> QED
    BY <2>1, <2>2, <2>3, <2>4
<1> HIDE DEF P
<1>4. \A n \in Seq(D) : n \in P
  BY <1>2, <1>3, SequenceInduction
<1> QED
  BY <1>4 DEF P, D

LEMMA QuotelessName ==
  ASSUME NEW C, Quote \in C, NEW n \in Seq(C), \A i \in 1 .. Len(n) : n[i] # Quote
  PROVE  /\ Unquoted(Wrapped(n)) = n /\ IsQuoted(Wrapped(n))
         /\ Dot \in C => Wrapped(n) \in ReadThrough(C, Dot, {Quote})
<1>1. n \in Seq(C \ {Quote})
  <2> DEFINE D == C \ {Quote}
  <2>1. \A i \in 1 .. Len(n) : n[i] \in D
    OBVIOUS
  <2> HIDE DEF D
  <2>2. n \in Seq(D)
    BY <2>1
  <2> QED
    BY <2>2 DEF D
<1>2. Doubled(n) = n
  BY <1>1, DoubledPlain
<1>3. Unquoted(Wrapped(Doubled(n))) = n
  BY QuotedName
<1>4. Wrapped(Doubled(n)) \in ReadThrough(C, Dot, {Quote})
  BY ReadThroughQuoted, MarksDiffer
<1> QED
  BY <1>2, <1>3, <1>4 DEF IsQuoted

\* PostgreSQL finds a table by its literal if its names have no quotes.
LEMMA QuotelessIsNameable ==
  ASSUME QuotelessNames, NEW t \in Tables
  PROVE  t \in Nameable
<1>1. PICK C : Charset(C)
  BY CharsetExists
<1>2. Quote \in C /\ Dot \in C /\ t[1] \in Seq(C) /\ t[2] \in Seq(C) /\ t = <<t[1], t[2]>>
  BY <1>1 DEF Charset, Special
<1>3. /\ \A i \in 1 .. Len(t[1]) : t[1][i] # Quote
      /\ \A i \in 1 .. Len(t[2]) : t[2][i] # Quote
  BY DEF QuotelessNames
<1>4. PICK a : a = Wrapped(t[1])
  OBVIOUS
<1>5. PICK b : b = Wrapped(t[2])
  OBVIOUS
<1>6. Unquoted(a) = t[1] /\ IsQuoted(a) /\ a \in ReadThrough(C, Dot, {Quote})
  BY <1>2, <1>3, <1>4, QuotelessName
<1>7. Unquoted(b) = t[2] /\ IsQuoted(b) /\ b \in ReadThrough(C, Dot, {Quote})
  BY <1>2, <1>3, <1>5, QuotelessName
<1>8. SplitTopLevel(RegclassLiteral(t), Dot) = <<a, b>>
  BY <1>2, <1>4, <1>5, <1>6, <1>7, TwoPieces DEF SplitTopLevel, RegclassLiteral
<1>9. PICK names : names = <<a, b>>
  OBVIOUS
<1>10. Len(names) = 2 /\ names[1] = a /\ names[2] = b
  BY <1>9
<1>11. \A k \in 1 .. 2 : IsQuoted(names[k])
  <2>1. \A k \in 1 .. 2 : k = 1 \/ k = 2
    OBVIOUS
  <2> QED
    BY <1>6, <1>7, <1>10, <2>1
<1>12. Regclass(RegclassLiteral(t)) = {<<t[1], t[2]>>}
  BY <1>6, <1>7, <1>8, <1>9, <1>10, <1>11 DEF Regclass
<1> QED
  BY <1>2, <1>12 DEF Nameable

\* No table was left out because its card raised.
LeavesNone(r) == r.bundle.left = {}

NothingLeft ==
    /\ \A c \in Callers : LeavesNone(call[c])
    /\ \A k \in Keys : object[k] # NoBundle => object[k].left = {}

LEMMA CallLeavesNothing ==
  ASSUME TypeInv, NothingLeft, "card" \notin Faults, NEW c \in Callers,
         \/ \E s \in Scopes : Get(c, s) \/ Refresh(c, s)
         \/ Resolve(c) \/ BuildCard(c) \/ Save(c) \/ Again(c)
  PROVE  LeavesNone(call'[c])
<1>1. Idle.bundle.left = {} /\ DOMAIN call = Callers /\ Fit(call[c]) /\ call[c].bundle.left = {}
  BY DEF Idle, NoCards, TypeInv, CallType, NothingLeft, LeavesNone
<1>2. ASSUME NEW s \in Scopes, Get(c, s) \/ Refresh(c, s)
      PROVE  LeavesNone(call'[c])
  <2>1. CASE /\ object[KeyOf[s]] # NoBundle
             /\ call' = [call EXCEPT ![c] = [Idle EXCEPT !.pc = "served", !.scope = s,
                                                         !.bundle = object[KeyOf[s]]]]
    <3>1. object[KeyOf[s]].left = {}
      BY <2>1, KeysOfScopes DEF NothingLeft
    <3> QED
      BY <1>1, <2>1, <3>1 DEF Idle, LeavesNone
  <2>2. CASE call' = [call EXCEPT ![c] =
                         [Idle EXCEPT !.pc = "failed", !.scope = s, !.raised = TRUE]]
    BY <1>1, <2>2 DEF Idle, LeavesNone
  <2>3. CASE Begins(c, s, "resolve")
    BY <1>1, <2>3 DEF Begins, Idle, LeavesNone
  <2>4. \/ /\ object[KeyOf[s]] # NoBundle
           /\ call' = [call EXCEPT ![c] = [Idle EXCEPT !.pc = "served", !.scope = s,
                                                       !.bundle = object[KeyOf[s]]]]
        \/ call' = [call EXCEPT ![c] =
                       [Idle EXCEPT !.pc = "failed", !.scope = s, !.raised = TRUE]]
        \/ Begins(c, s, "resolve")
    BY <1>2, Zenon DEF Get, Refresh
  <2> QED
    BY <2>1, <2>2, <2>3, <2>4, Zenon
<1>3. ASSUME NEW x \in BOOLEAN, Fails(c, x)
      PROVE  LeavesNone(call'[c])
  BY <1>1, <1>3 DEF Fails, Idle, LeavesNone
<1>4. CASE Resolve(c)
  <2>1. CASE call' = [call EXCEPT ![c].pc = "cards", ![c].todo = Resolved(call[c].scope)]
    BY <1>1, <2>1 DEF Fit, LeavesNone
  <2> QED
    BY <1>3, <1>4, <2>1 DEF Resolve, Raises
<1>5. CASE BuildCard(c)
  <2> DEFINE t == Head(call[c].todo)
  <2>1. call[c].bundle \in Bundle
    BY <1>1 DEF Fit
  <2>2. CASE call' = [call EXCEPT ![c].todo = Tail(@), ![c].bundle.cards =
                         Append(@, [table |-> t, built_at |-> clock])]
    BY <1>1, <2>1, <2>2 DEF Fit, Bundle, LeavesNone
  <2>3. CASE call' = [call EXCEPT ![c].todo = Tail(@)]
    BY <1>1, <2>3 DEF Fit, LeavesNone
  <2>4. \/ call' = [call EXCEPT ![c].todo = Tail(@), ![c].bundle.cards =
                         Append(@, [table |-> t, built_at |-> clock])]
        \/ call' = [call EXCEPT ![c].todo = Tail(@)]
    BY <1>5, Zenon DEF BuildCard
  <2> QED
    BY <2>2, <2>3, <2>4, Zenon
<1>6. CASE Save(c)
  <2>1. CASE call' = [call EXCEPT ![c].pc = "served"]
    BY <1>1, <2>1 DEF Fit, LeavesNone
  <2> QED
    BY <1>3, <1>6, <2>1 DEF Save, Raises
<1>7. CASE Again(c)
  BY <1>1, <1>7 DEF Again, LeavesNone
<1> QED
  BY <1>2, <1>4, <1>5, <1>6, <1>7

LEMMA NothingLeftStep ==
  ASSUME TypeInv, DatedInv, NothingLeft, "card" \notin Faults, [Next]_vars
  PROVE  NothingLeft'
<1>1. ASSUME NEW c \in Callers,
             \/ \E s \in Scopes : Get(c, s) \/ Refresh(c, s)
             \/ Resolve(c) \/ BuildCard(c) \/ Save(c) \/ Again(c)
      PROVE  NothingLeft'
  <2>1. CallSteps(c)
    BY <1>1, Begun, Built, Others
  <2>2. LeavesNone(call'[c])
    BY <1>1, CallLeavesNothing
  <2>3. \A d \in Callers : LeavesNone(call'[d])
    BY <2>1, <2>2 DEF CallSteps, NothingLeft
  <2>4. \A k \in Keys : object'[k] # NoBundle => object'[k].left = {}
    BY <2>1 DEF CallSteps, NothingLeft, LeavesNone, TypeInv, CacheType
  <2> QED
    BY <2>3, <2>4 DEF NothingLeft, LeavesNone, Keys, KeyOf
<1>2. CASE UNCHANGED <<call, object>>
  BY <1>2 DEF NothingLeft, LeavesNone, Keys, KeyOf
<1> QED
  BY <1>1, <1>2 DEF Next, Tick, Change, vars

(* "All base tables in schema" (_resolve_scope): no table that was there all *)
(* the time is left out, unless a card fails or a name has a quote in it,    *)
(* which regclass_literal does not double.                                   *)
THEOREM ScopesAreComplete ==
  ASSUME KeysTellApart, QuotelessNames, "card" \notin Faults
  PROVE  Spec => []ScopeIsComplete
<1>1. Init => AnswersInv /\ NothingLeft
  BY DEF Init, AnswersInv, CallAnswers, NothingLeft, LeavesNone, Idle, NoCards,
         Keys, KeyOf
<1>2. TypeInv /\ DatedInv /\ AnswersInv /\ [Next]_vars => AnswersInv'
  BY AnswersStep
<1>3. TypeInv /\ DatedInv /\ NothingLeft /\ [Next]_vars => NothingLeft'
  BY NothingLeftStep
<1>4. TypeInv /\ AnswersInv /\ NothingLeft => ScopeIsComplete
  BY QuotelessIsNameable
     DEF AnswersInv, NothingLeft, LeavesNone, CallAnswers, Answers, Complete, ScopeIsComplete,
         TypeInv, WorldType
<1> QED
  BY <1>1, <1>2, <1>3, <1>4, InvInit, InvStep, PTL DEF Spec
=============================================================================
