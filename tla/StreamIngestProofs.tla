-------------------------- MODULE StreamIngestProofs --------------------------
(***************************************************************************)
(* Machine-checked facts about StreamIngest, for every number of requests, *)
(* connections, replays and frames, every bound and every set of faults.   *)
(***************************************************************************)
EXTENDS StreamIngest, FiniteSetTheorems, TLAPS

(* The inductive invariant: the types by owner, then what ties the handlers *)
(* to the messages they hold, the messages to the stores, and the rows of   *)
(* the dead letters to the deliveries that can still need one.              *)

WorldType ==
    /\ setup \in Bodies
    /\ state \in {"absent", "active", "paused"}
    /\ clock \in 0 .. MaxClock
    /\ replays \in 0 .. MaxReplays
    /\ crashes \in 0 .. MaxCrashes

PhaseType ==
    /\ DOMAIN pc = Callers
    /\ \A p \in Posts : pc[p] \in PostPhases
    /\ \A c \in Conns : pc[c] \in ConnPhases
    /\ \A x \in Replayers : pc[x] \in ReplayPhases

HandType ==
    /\ hand \in [Callers -> Msgs \cup {NoMsg}]
    /\ seq \in [Conns -> 0 .. MaxFrames]
    /\ row \in [Replayers -> {0} \cup DlqIds]

StoreType ==
    /\ table \in [Msgs -> Nat]
    /\ objects \in [Keys -> Msgs \cup {NoMsg}]
    /\ dlq \in [DlqIds -> [msg : Msgs \cup {NoMsg}, replayed : BOOLEAN]]

HistoryType ==
    /\ seen \subseteq Msgs
    /\ written \in [Msgs -> SUBSET Keys]
    /\ offSince \subseteq Posts \cup Conns

TypeInv == WorldType /\ PhaseType /\ HandType /\ StoreType /\ HistoryType

\* A handler has a message in hand as long as deliver, or the replay, works on it.
HandsFit ==
    \A k \in Callers :
        /\ hand[k] # NoMsg <=> pc[k] \in {"write", "park", "mark"}
        /\ k \in Posts => hand[k] \in {NoMsg, k}
        /\ k \in Conns /\ hand[k] # NoMsg => seq[k] > 0 /\ hand[k] = <<k, seq[k] - 1>>
        /\ k \in Replayers /\ hand[k] # NoMsg =>
              row[k] \in DlqIds /\ dlq[row[k]].msg = hand[k]

\* What is in a hand or a store was received.
NothingInvented ==
    /\ \A k \in Callers : hand[k] # NoMsg => hand[k] \in seen
    /\ \A m \in Msgs : table[m] > 0 => m \in seen
    /\ \A k \in Keys : objects[k] # NoMsg => objects[k] \in seen
    /\ \A d \in DlqIds : dlq[d].msg # NoMsg => dlq[d].msg \in seen

\* A message is received once, by a handler of the source's transport.
ReceivedOnce ==
    /\ \A p \in Posts :
        /\ pc[p] \in {"body", "write", "park", "accepted", "failed"} => Transport = "webhook"
        /\ p \in seen => Transport = "webhook" /\ pc[p] \notin {"idle", "lookup", "body"}
    /\ \A c \in Conns :
        /\ pc[c] \in {"receive", "write", "park", "send"} => Transport = "websocket"
        /\ pc[c] \in {"idle", "lookup"} => seq[c] = 0
        /\ \A n \in 0 .. MaxFrames - 1 :
              <<c, n>> \in seen => Transport = "websocket" /\ n < seq[c]

\* A caller that arrived while the source was off has not got past its look at the source.
TurnedAway ==
    \A k \in offSince :
        /\ state # "active"
        /\ pc[k] \in {"lookup", "rejected", "gone"}
        /\ Brought(k) \cap seen = {}

\* The rows of the dead letters are filled in order, and enough are left for every
\* message in hand.
Busy == {k \in Callers : hand[k] # NoMsg}

FilledUpTo(n) == \A d \in DlqIds : dlq[d].msg # NoMsg <=> d <= n

RowsLeft ==
    \E n \in {0} \cup DlqIds :
        /\ n + Cardinality(Busy) <= Cardinality(seen) + replays
        /\ FilledUpTo(n)

IInv == TypeInv /\ HandsFit /\ NothingInvented /\ ReceivedOnce /\ TurnedAway /\ RowsLeft
-----------------------------------------------------------------------------
(* Facts about the names.                                                   *)

LEMMA NamesApart ==
  /\ \A p \in Posts : p \in Msgs /\ p \in Callers /\ p \notin Conns /\ p \notin Replayers
                         /\ p \notin Frames
  /\ \A c \in Conns : c \in Callers /\ c \notin Posts /\ c \notin Replayers /\ c \notin Frames
  /\ \A x \in Replayers : x \in Callers /\ x \notin Posts /\ x \notin Conns
  /\ \A c \in Conns : \A n \in 0 .. MaxFrames - 1 : <<c, n>> \in Msgs /\ <<c, n>> \notin Posts
                         /\ <<c, n>> \notin Conns
  /\ \A m \in Msgs : m # NoMsg /\ (m \in Posts \/ \E c \in Conns : \E n \in 0 .. MaxFrames - 1 : m = <<c, n>>)
  /\ MaxFrames \in Nat /\ MaxClock \in Nat /\ MaxReplays \in Nat /\ MaxCrashes \in Nat
  BY NamesAssumption, BoundsAssumption DEF Callers, Msgs, Frames

LEMMA FiniteNames == IsFiniteSet(Callers) /\ IsFiniteSet(Msgs) /\ Cardinality(Msgs) \in Nat
<1>1. IsFiniteSet(Posts) /\ IsFiniteSet(Conns)
  BY NamesAssumption, FS_Subset DEF Callers
<1>2. IsFiniteSet(0 .. MaxFrames - 1)
  BY BoundsAssumption, FS_Interval
<1>3. IsFiniteSet(Frames)
  BY <1>1, <1>2, FS_Product DEF Frames
<1>4. IsFiniteSet(Msgs)
  BY <1>1, <1>3, FS_Union DEF Msgs
<1> QED
  BY <1>4, NamesAssumption, FS_CardinalityType

LEMMA Initially == Init => IInv
<1> SUFFICES ASSUME Init PROVE IInv
  OBVIOUS
<1> USE NamesApart DEF Init
<1>1. TypeInv
  BY DEF TypeInv, WorldType, PhaseType, HandType, StoreType, HistoryType, PostPhases,
     ConnPhases, ReplayPhases, Callers, Keys
<1>2. HandsFit /\ NothingInvented /\ ReceivedOnce /\ TurnedAway
  BY DEF HandsFit, NothingInvented, ReceivedOnce, TurnedAway
<1>3. RowsLeft
  <2>1. Busy = {}
    BY DEF Busy
  <2>2. FilledUpTo(0)
    BY FiniteNames DEF FilledUpTo, DlqIds
  <2> QED
    BY <2>1, <2>2, FS_EmptySet DEF RowsLeft
<1> QED
  BY <1>1, <1>2, <1>3 DEF IInv
-----------------------------------------------------------------------------
(* What a step does to the dead letters.                                    *)

\* The row that write_dlq adds is the first free one, and there is one.
LEMMA RowAdded ==
  ASSUME TypeInv, RowsLeft, NEW k \in Callers, hand[k] # NoMsg
  PROVE  LET d == CHOOSE n \in DlqIds :
                     /\ dlq[n].msg = NoMsg
                     /\ \A i \in 1 .. n - 1 : dlq[i].msg # NoMsg
         IN  /\ d \in DlqIds /\ dlq[d].msg = NoMsg
             /\ d - 1 + Cardinality(Busy) <= Cardinality(seen) + replays
             /\ FilledUpTo(d - 1)
<1> USE FiniteNames, NamesApart
<1>1. PICK n \in {0} \cup DlqIds :
        n + Cardinality(Busy) <= Cardinality(seen) + replays /\ FilledUpTo(n)
  BY DEF RowsLeft
<1>2. Cardinality(Busy) \in Nat /\ Cardinality(Busy) > 0
  <2>1. Busy \in SUBSET Callers /\ Busy # {}
    BY DEF Busy
  <2>2. IsFiniteSet(Busy)
    BY <2>1, FS_Subset
  <2> QED
    BY <2>1, <2>2, FS_EmptySet, FS_CardinalityType
<1>3. Cardinality(seen) \in Nat /\ Cardinality(seen) <= Cardinality(Msgs)
  BY FS_Subset, FS_CardinalityType DEF TypeInv, HistoryType
<1>4. n + 1 \in DlqIds
  BY <1>1, <1>2, <1>3 DEF DlqIds, TypeInv, WorldType
<1> DEFINE First(i) == dlq[i].msg = NoMsg /\ \A j \in 1 .. i - 1 : dlq[j].msg # NoMsg
<1>5. First(n + 1)
  BY <1>1, <1>4 DEF FilledUpTo, DlqIds
<1>6. \A i \in DlqIds : First(i) => i = n + 1
  BY <1>1, <1>4, <1>5 DEF FilledUpTo, DlqIds
<1>7. (CHOOSE i \in DlqIds : First(i)) = n + 1
  BY <1>4, <1>5, <1>6
<1> QED
  BY <1>1, <1>4, <1>5, <1>7 DEF DlqIds

\* Park adds the message in hand in a free row, or no row at all if the insert may fail.
LEMMA ParkedRow ==
  ASSUME TypeInv, HandsFit, RowsLeft, NEW k \in Callers, Park(k)
  PROVE  \/ dlq' = dlq /\ "dlq" \in Faults
         \/ \E d \in DlqIds :
              /\ dlq[d].msg = NoMsg
              /\ dlq' = [dlq EXCEPT ![d].msg = hand[k]]
              /\ FilledUpTo(d - 1)
              /\ d - 1 + Cardinality(Busy) <= Cardinality(seen) + replays
<1>1. hand[k] # NoMsg
  BY DEF Park, HandsFit
<1>2. PICK o \in Outcomes("dlq") :
         IF Effective(o)
         THEN LET d == CHOOSE n \in DlqIds :
                           /\ dlq[n].msg = NoMsg
                           /\ \A i \in 1 .. n - 1 : dlq[i].msg # NoMsg
              IN dlq' = [dlq EXCEPT ![d].msg = hand[k]]
         ELSE UNCHANGED dlq
  BY DEF Park
<1>3. CASE Effective(o)
  BY <1>1, <1>2, <1>3, RowAdded
<1>4. CASE ~Effective(o)
  BY <1>2, <1>4 DEF Outcomes, Effective
<1> QED
  BY <1>3, <1>4
-----------------------------------------------------------------------------
(* The types are kept.                                                      *)

LEMMA PhaseTypeStep ==
  ASSUME TypeInv, [Next]_vars
  PROVE  PhaseType'
<1> USE NamesApart DEF TypeInv, PhaseType, PostPhases, ConnPhases, ReplayPhases, Goto
<1>1. ASSUME NEW k \in Callers, Deliver(k) \/ Park(k)
      PROVE  PhaseType'
  <2>1. PICK p : /\ pc' = [pc EXCEPT ![k] = p]
                 /\ k \in Posts => p \in {"accepted", "park", "failed"}
                 /\ k \in Conns => p \in {"receive", "park", "send"}
                 /\ k \in Replayers => p \in {"mark", "park", "idle"}
    <3>1. CASE Deliver(k)
      BY <3>1 DEF Deliver, Delivered
    <3>2. CASE Park(k)
      BY <3>2 DEF Park, Raised
    <3> QED
      BY <1>1, <3>1, <3>2
  <2> QED
    BY <2>1
<1>2. ASSUME NEW p \in Posts, Post(p) \/ Lookup(p) \/ ReadBody(p)
      PROVE  PhaseType'
  BY <1>2 DEF Post, Lookup, ReadBody
<1>3. ASSUME NEW c \in Conns,
             Accept(c) \/ Connect(c) \/ Receive(c) \/ SendError(c) \/ Disconnect(c)
      PROVE  PhaseType'
  BY <1>3 DEF Accept, Connect, Receive, SendError, Disconnect
<1>4. ASSUME NEW x \in Replayers, StartReplay(x) \/ Mark(x)
      PROVE  PhaseType'
  BY <1>4 DEF StartReplay, Mark
<1>5. CASE Crash
  BY <1>5 DEF Crash
<1>6. CASE Register \/ Tick \/ UNCHANGED vars
  BY <1>6 DEF Register, Tick, vars, handlerVars
<1>7. ASSUME NEW target \in {"active", "paused"}, SetState(target)
      PROVE  PhaseType'
  BY <1>7 DEF SetState, handlerVars
<1> QED
  BY <1>1, <1>2, <1>3, <1>4, <1>5, <1>6, <1>7 DEF Next

\* A step of deliver keeps the caller's message in hand or drops it.
LEMMA HoldOrDrop ==
  ASSUME TypeInv, NEW k \in Callers, Deliver(k) \/ Park(k)
  PROVE  /\ seq' = seq
         /\ \/ hand' = hand /\ row' = row /\ pc'[k] \in {"park", "mark"}
            \/ /\ hand' = [hand EXCEPT ![k] = NoMsg]
               /\ row' = [x \in Replayers |-> IF x = k THEN 0 ELSE row[x]]
               /\ pc'[k] \notin {"write", "park", "mark"}
         /\ \A l \in Callers \ {k} : pc'[l] = pc[l]
<1>1. CASE Deliver(k) /\ pc' = [pc EXCEPT ![k] = "park"] /\ Hold
  BY <1>1 DEF Deliver, Hold, TypeInv, PhaseType
<1>2. CASE Deliver(k) /\ Delivered(k)
  <2>1. seq' = seq
    BY <1>2 DEF Deliver
  <2> QED
    BY <1>2, <2>1 DEF Delivered, Hold, Drop, Goto, TypeInv, PhaseType
<1>3. CASE Park(k)
  <2>1. seq' = seq /\ Raised(k)
    BY <1>3 DEF Park
  <2> QED
    BY <2>1 DEF Raised, Drop, Goto, TypeInv, PhaseType
<1>4. Deliver(k) => (pc' = [pc EXCEPT ![k] = "park"] /\ Hold) \/ Delivered(k)
  BY DEF Deliver, Goto
<1> QED
  BY <1>1, <1>2, <1>3, <1>4

LEMMA HandTypeStep ==
  ASSUME TypeInv, [Next]_vars
  PROVE  HandType'
<1> USE NamesApart DEF TypeInv, HandType, StoreType, Drop
<1>1. ASSUME NEW k \in Callers, Deliver(k) \/ Park(k)
      PROVE  HandType'
  BY <1>1, HoldOrDrop
<1>2. ASSUME NEW p \in Posts, Post(p) \/ Lookup(p) \/ ReadBody(p)
      PROVE  HandType'
  BY <1>2 DEF Post, Lookup, ReadBody
<1>3. ASSUME NEW c \in Conns,
             Accept(c) \/ Connect(c) \/ Receive(c) \/ SendError(c) \/ Disconnect(c)
      PROVE  HandType'
  BY <1>3 DEF Accept, Connect, Receive, SendError, Disconnect
<1>4. ASSUME NEW x \in Replayers, StartReplay(x) \/ Mark(x)
      PROVE  HandType'
  BY <1>4 DEF StartReplay, Mark
<1>5. CASE Crash
  BY <1>5 DEF Crash
<1>6. CASE Register \/ Tick \/ UNCHANGED vars
  BY <1>6 DEF Register, Tick, vars, handlerVars
<1>7. ASSUME NEW target \in {"active", "paused"}, SetState(target)
      PROVE  HandType'
  BY <1>7 DEF SetState, handlerVars
<1> QED
  BY <1>1, <1>2, <1>3, <1>4, <1>5, <1>6, <1>7 DEF Next

\* The name of an object is the time and the offset of its message.
LEMMA OffsetIsTag ==
  ASSUME TypeInv, HandsFit, NEW k \in Callers, hand[k] # NoMsg
  PROVE  Tag(k) = Offset(k) /\ <<clock, Offset(k)>> \in Keys
<1>1. Offset(k) \in Tags
  <2>1. CASE k \in Conns
    BY <2>1, NamesApart DEF HandsFit, Offset, Tags, TypeInv, HandType
  <2> QED
    BY <2>1 DEF Offset, Tags, Unknown
<1> QED
  BY <1>1 DEF Tag, Keys, TypeInv, WorldType

LEMMA StoreTypeStep ==
  ASSUME TypeInv, HandsFit, RowsLeft, [Next]_vars
  PROVE  StoreType'
<1> USE NamesApart DEF TypeInv, HandType, WorldType, StoreType
<1>1. ASSUME NEW k \in Callers, Deliver(k)
      PROVE  StoreType'
  <2>1. hand[k] \in Msgs
    BY <1>1 DEF Deliver, HandsFit
  <2>2. Put(k) \/ UNCHANGED <<table, objects>>
    BY <1>1 DEF Deliver
  <2>3. <<clock, Tag(k)>> \in Keys
    BY <1>1, OffsetIsTag DEF Deliver, HandsFit
  <2>4. table' \in [Msgs -> Nat]
    BY <2>1, <2>2 DEF Put
  <2>5. objects' \in [Keys -> Msgs \cup {NoMsg}]
    <3> DEFINE key == <<clock, Tag(k)>>
    <3>1. objects' = [objects EXCEPT ![key] = hand[k]] \/ UNCHANGED objects
      BY <2>2 DEF Put
    <3> HIDE DEF key
    <3> QED
      BY <2>1, <3>1
  <2> QED
    BY <1>1, <2>4, <2>5 DEF Deliver
<1>2. ASSUME NEW k \in Callers, Park(k)
      PROVE  StoreType'
  <2>1. UNCHANGED <<table, objects>>
    BY <1>2 DEF Park
  <2>2. CASE dlq' = dlq
    BY <2>1, <2>2
  <2>3. ASSUME NEW d \in DlqIds, dlq' = [dlq EXCEPT ![d].msg = hand[k]]
        PROVE  StoreType'
    BY <2>1, <2>3
  <2> QED
    BY <1>2, <2>2, <2>3, ParkedRow
<1>3. ASSUME NEW p \in Posts, Post(p) \/ Lookup(p) \/ ReadBody(p)
      PROVE  StoreType'
  BY <1>3 DEF Post, Lookup, ReadBody, storeVars
<1>4. ASSUME NEW c \in Conns,
             Accept(c) \/ Connect(c) \/ Receive(c) \/ SendError(c) \/ Disconnect(c)
      PROVE  StoreType'
  BY <1>4 DEF Accept, Connect, Receive, SendError, Disconnect, storeVars
<1>5. ASSUME NEW x \in Replayers, StartReplay(x) \/ Mark(x)
      PROVE  StoreType'
  <2>1. CASE StartReplay(x)
    BY <2>1 DEF StartReplay, storeVars
  <2>2. CASE Mark(x)
    <3>1. row[x] \in DlqIds
      BY <2>2 DEF Mark, HandsFit
    <3>2. UNCHANGED <<table, objects>>
      BY <2>2 DEF Mark
    <3>3. dlq' = dlq \/ dlq' = [dlq EXCEPT ![row[x]].replayed = TRUE]
      BY <2>2 DEF Mark
    <3>4. dlq' \in [DlqIds -> [msg : Msgs \cup {NoMsg}, replayed : BOOLEAN]]
      <4> DEFINE r == row[x]
                 Closed == [dlq[r] EXCEPT !.replayed = TRUE]
      <4>1. Closed \in [msg : Msgs \cup {NoMsg}, replayed : BOOLEAN]
        <5>1. dlq[r] \in [msg : Msgs \cup {NoMsg}, replayed : BOOLEAN]
          BY <3>1
        <5> QED
          BY <5>1
      <4>2. dlq' = dlq \/ dlq' = [dlq EXCEPT ![r] = Closed]
        BY <3>3
      <4> HIDE DEF Closed, r
      <4> QED
        BY <4>1, <4>2
    <3> QED
      BY <3>2, <3>4
  <2> QED
    BY <1>5, <2>1, <2>2
<1>6. CASE Crash \/ Register \/ Tick \/ UNCHANGED vars
  BY <1>6 DEF Crash, Register, Tick, vars, storeVars
<1>7. ASSUME NEW target \in {"active", "paused"}, SetState(target)
      PROVE  StoreType'
  BY <1>7 DEF SetState, storeVars
<1> QED
  BY <1>1, <1>2, <1>3, <1>4, <1>5, <1>6, <1>7 DEF Next

LEMMA WorldTypeStep ==
  ASSUME TypeInv, HandsFit, [Next]_vars
  PROVE  WorldType' /\ HistoryType'
<1> USE NamesApart DEF TypeInv, HandType, WorldType, HistoryType, Arrives, worldVars, historyVars
<1>1. ASSUME NEW k \in Callers, Deliver(k)
      PROVE  WorldType' /\ HistoryType'
  <2>1. UNCHANGED <<worldVars, seen, offSince>>
    BY <1>1 DEF Deliver
  <2>2. <<clock, Offset(k)>> \in Keys
    BY <1>1, OffsetIsTag DEF Deliver, HandsFit
  <2>3. ASSUME NEW w \in Keys,
               written' = [written EXCEPT ![hand[k]] = @ \cup {w}] \/ written' = written
        PROVE  written' \in [Msgs -> SUBSET Keys]
    BY <2>3
  <2>4. \/ written' = [written EXCEPT ![hand[k]] = @ \cup {<<clock, Offset(k)>>}]
        \/ written' = written
    BY <1>1 DEF Deliver, Put
  <2> QED
    BY <2>1, <2>2, <2>3, <2>4
<1>2. ASSUME NEW k \in Callers, Park(k)
      PROVE  WorldType' /\ HistoryType'
  BY <1>2 DEF Park
<1>3. ASSUME NEW p \in Posts, Post(p) \/ Lookup(p) \/ ReadBody(p)
      PROVE  WorldType' /\ HistoryType'
  BY <1>3 DEF Post, Lookup, ReadBody
<1>4. ASSUME NEW c \in Conns,
             Accept(c) \/ Connect(c) \/ Receive(c) \/ SendError(c) \/ Disconnect(c)
      PROVE  WorldType' /\ HistoryType'
  BY <1>4 DEF Accept, Connect, Receive, SendError, Disconnect
<1>5. ASSUME NEW x \in Replayers, StartReplay(x) \/ Mark(x)
      PROVE  WorldType' /\ HistoryType'
  BY <1>5 DEF StartReplay, Mark
<1>6. CASE Crash \/ Register \/ Tick \/ UNCHANGED vars
  BY <1>6 DEF Crash, Register, Tick, vars
<1>7. ASSUME NEW target \in {"active", "paused"}, SetState(target)
      PROVE  WorldType' /\ HistoryType'
  BY <1>7 DEF SetState
<1> QED
  BY <1>1, <1>2, <1>3, <1>4, <1>5, <1>6, <1>7 DEF Next

LEMMA TypeStep ==
  ASSUME TypeInv, HandsFit, RowsLeft, [Next]_vars
  PROVE  TypeInv'
  BY PhaseTypeStep, HandTypeStep, StoreTypeStep, WorldTypeStep DEF TypeInv
-----------------------------------------------------------------------------
(* What is written stays: rows of the table and of the dead letters.        *)

LEMMA RowsStay ==
  ASSUME TypeInv, HandsFit, RowsLeft, [Next]_vars
  PROVE  /\ \A m \in Msgs : table[m] > 0 => table'[m] > 0
         /\ \A d \in DlqIds :
              /\ dlq[d].msg # NoMsg => dlq'[d].msg = dlq[d].msg
              /\ dlq[d].msg = NoMsg /\ dlq'[d].msg # NoMsg =>
                    \E k \in Callers : Park(k) /\ dlq'[d].msg = hand[k]
<1> USE NamesApart DEF TypeInv, StoreType
<1>1. ASSUME NEW m \in Msgs, table[m] > 0
      PROVE  table'[m] > 0
  <2>1. ASSUME NEW k \in Callers, Deliver(k)
        PROVE  table'[m] > 0
    <3>1. table' = table \/ table' = [table EXCEPT ![hand[k]] = @ + 1]
      BY <2>1 DEF Deliver, Put
    <3> QED
      BY <1>1, <3>1
  <2>2. CASE UNCHANGED table
    BY <1>1, <2>2
  <2> QED
    BY <2>1, <2>2 DEF Next, Park, Post, Lookup, ReadBody, Accept, Connect, Receive,
       SendError, Disconnect, StartReplay, Mark, SetState, Register, Tick, Crash, vars, storeVars
<1>2. CASE \E k \in Callers : Park(k)
  <2>1. PICK k \in Callers : Park(k)
    BY <1>2
  <2>2. hand[k] \in Msgs
    BY <2>1 DEF Park, HandsFit, HandType
  <2>3. CASE dlq' = dlq
    BY <1>1, <2>3
  <2>4. ASSUME NEW d \in DlqIds, dlq[d].msg = NoMsg, dlq' = [dlq EXCEPT ![d].msg = hand[k]]
        PROVE  \A e \in DlqIds :
                 /\ dlq[e].msg # NoMsg => dlq'[e].msg = dlq[e].msg
                 /\ dlq[e].msg = NoMsg /\ dlq'[e].msg # NoMsg => dlq'[e].msg = hand[k]
    BY <2>4
  <2> QED
    BY <1>1, <2>1, <2>3, <2>4, ParkedRow
<1>3. CASE \E x \in Replayers : Mark(x)
  <2>1. PICK x \in Replayers : Mark(x)
    BY <1>3
  <2>2. dlq' = dlq \/ dlq' = [dlq EXCEPT ![row[x]].replayed = TRUE]
    BY <2>1 DEF Mark
  <2>3. \A d \in DlqIds : dlq'[d].msg = dlq[d].msg
    BY <2>2
  <2> QED
    BY <1>1, <2>3
<1>4. CASE UNCHANGED dlq
  BY <1>1, <1>4
<1> QED
  BY <1>2, <1>3, <1>4 DEF Next, Deliver, Post, Lookup, ReadBody, Accept, Connect, Receive,
     SendError, Disconnect, StartReplay, SetState, Register, Tick, Crash, vars, storeVars

\* A replay keeps the row it was started for, as long as it has a message in hand.
LEMMA HandsFitStep ==
  ASSUME TypeInv, HandsFit, ReceivedOnce, RowsLeft, [Next]_vars
  PROVE  HandsFit'
<1> USE NamesApart DEF TypeInv, HandType, PhaseType
<1>1. SUFFICES ASSUME NEW k \in Callers
               PROVE  /\ hand'[k] # NoMsg <=> pc'[k] \in {"write", "park", "mark"}
                      /\ k \in Posts => hand'[k] \in {NoMsg, k}
                      /\ k \in Conns /\ hand'[k] # NoMsg =>
                            seq'[k] > 0 /\ hand'[k] = <<k, seq'[k] - 1>>
                      /\ k \in Replayers /\ hand'[k] # NoMsg =>
                            row'[k] \in DlqIds /\ dlq'[row'[k]].msg = hand'[k]
  BY DEF HandsFit
<1>2. CASE hand'[k] = NoMsg /\ pc'[k] \notin {"write", "park", "mark"}
  BY <1>2
<1>3. CASE /\ hand'[k] = hand[k] /\ (k \in Conns => seq'[k] = seq[k])
           /\ (k \in Replayers => row'[k] = row[k])
           /\ pc[k] \in {"write", "park", "mark"} <=> pc'[k] \in {"write", "park", "mark"}
  BY <1>3, RowsStay DEF HandsFit
<1>4. CASE k \in Posts /\ ReadBody(k)
  <2>1. k \in Callers /\ k \notin Conns /\ k \notin Replayers /\ k # NoMsg
    BY <1>4
  <2>2. \/ hand'[k] = k /\ pc'[k] = "write"
        \/ hand'[k] = NoMsg /\ pc'[k] = "failed"
    BY <1>4 DEF ReadBody, Goto, HandsFit
  <2> QED
    BY <2>1, <2>2
<1>5. CASE k \in Conns /\ Receive(k)
  <2>1. k \notin Posts /\ k \notin Replayers /\ <<k, seq[k]>> # NoMsg
    BY <1>5 DEF Receive
  <2>2. hand'[k] = <<k, seq[k]>> /\ pc'[k] = "write" /\ seq'[k] = seq[k] + 1 /\ seq[k] \in Nat
    BY <1>5 DEF Receive, Goto
  <2> QED
    BY <2>1, <2>2
<1>6. CASE k \in Replayers /\ StartReplay(k)
  BY <1>6 DEF StartReplay, Goto, StoreType, storeVars
<1>7. ASSUME NEW l \in Callers, Deliver(l) \/ Park(l)
      PROVE  <1>2!1 \/ <1>3!1
  <2>1. pc[l] \in {"write", "park"}
    BY <1>7 DEF Deliver, Park
  <2> QED
    BY <1>7, <2>1, HoldOrDrop
<1>8. ASSUME NEW l \in Posts, Post(l) \/ Lookup(l) \/ ReadBody(l)
      PROVE  <1>2!1 \/ <1>3!1 \/ <1>4!1
  BY <1>8 DEF Post, Lookup, ReadBody, Goto, HandsFit
<1>9. ASSUME NEW l \in Conns,
             Accept(l) \/ Connect(l) \/ Receive(l) \/ SendError(l) \/ Disconnect(l)
      PROVE  <1>2!1 \/ <1>3!1 \/ <1>5!1
  BY <1>9 DEF Accept, Connect, Receive, SendError, Disconnect, Goto, HandsFit
<1>10. ASSUME NEW l \in Replayers, StartReplay(l) \/ Mark(l)
       PROVE  <1>2!1 \/ <1>3!1 \/ <1>6!1
  BY <1>10 DEF StartReplay, Mark, Goto, Drop
<1>11. CASE Crash
  BY <1>2, <1>11 DEF Crash
<1>12. CASE Register \/ Tick \/ UNCHANGED vars \/ \E t \in {"active", "paused"} : SetState(t)
  BY <1>3, <1>12 DEF Register, Tick, SetState, vars, handlerVars
<1> QED
  BY <1>2, <1>3, <1>4, <1>5, <1>6, <1>7, <1>8, <1>9, <1>10, <1>11, <1>12 DEF Next

\* Only deliver writes into the sink.
LEMMA OnlyDeliverWrites ==
  ASSUME [Next]_vars
  PROVE  UNCHANGED <<table, objects, written>> \/ \E k \in Callers : Deliver(k) /\ Put(k)
  BY DEF Next, Deliver, Park, Post, Lookup, ReadBody, Accept, Connect, Receive, SendError,
     Disconnect, StartReplay, Mark, SetState, Register, Tick, Crash, vars, storeVars, historyVars

\* A hand that is not empty after a step held its message before, or has just got it.
LEMMA HandsMove ==
  ASSUME TypeInv, [Next]_vars, NEW k \in Callers, hand'[k] # NoMsg, hand'[k] # hand[k]
  PROVE  /\ pc[k] \notin {"write", "park", "mark"}
         /\ \/ k \in Posts /\ ReadBody(k) /\ hand'[k] = k
            \/ k \in Conns /\ Receive(k) /\ hand'[k] = <<k, seq[k]>>
            \/ k \in Replayers /\ StartReplay(k) /\
                  \E d \in DlqIds : dlq[d].msg = hand'[k] /\ row'[k] = d
<1> USE NamesApart DEF TypeInv, HandType
<1>1. ASSUME NEW l \in Callers, Deliver(l) \/ Park(l)
      PROVE  FALSE
  BY <1>1, HoldOrDrop
<1>2. CASE \E p \in Posts : Post(p) \/ Lookup(p) \/ ReadBody(p)
  BY <1>2 DEF Post, Lookup, ReadBody
<1>3. CASE \E c \in Conns :
             Accept(c) \/ Connect(c) \/ Receive(c) \/ SendError(c) \/ Disconnect(c)
  BY <1>3 DEF Accept, Connect, Receive, SendError, Disconnect
<1>4. CASE \E x \in Replayers : StartReplay(x) \/ Mark(x)
  BY <1>4 DEF StartReplay, Mark, Drop
<1>5. CASE Crash \/ Register \/ Tick \/ UNCHANGED vars \/ \E t \in {"active", "paused"} : SetState(t)
  BY <1>5 DEF Crash, Register, Tick, SetState, vars, handlerVars
<1> QED
  BY <1>1, <1>2, <1>3, <1>4, <1>5 DEF Next

\* What is seen stays seen, and is new only when a handler gets it.
LEMMA SeenGrows ==
  ASSUME [Next]_vars
  PROVE  \/ seen' = seen
         \/ \E p \in Posts : ReadBody(p) /\ seen' = seen \cup {p}
         \/ \E c \in Conns : Receive(c) /\ seen' = seen \cup {<<c, seq[c]>>}
  BY DEF Next, Deliver, Park, Post, Lookup, ReadBody, Accept, Connect, Receive, SendError,
     Disconnect, StartReplay, Mark, SetState, Register, Tick, Crash, vars, historyVars

LEMMA NothingInventedStep ==
  ASSUME TypeInv, HandsFit, NothingInvented, RowsLeft, [Next]_vars
  PROVE  NothingInvented'
<1> USE DEF NothingInvented
<1>1. seen \subseteq seen'
  BY SeenGrows
<1>2. ASSUME NEW k \in Callers, hand'[k] # NoMsg
      PROVE  hand'[k] \in seen'
  <2>1. CASE hand'[k] = hand[k]
    BY <1>1, <1>2, <2>1
  <2>2. CASE hand'[k] # hand[k]
    BY <1>1, <1>2, <2>2, HandsMove DEF ReadBody, Receive
  <2> QED
    BY <2>1, <2>2
<1>3. /\ \A m \in Msgs : table'[m] > 0 => m \in seen
      /\ \A k \in Keys : objects'[k] # NoMsg => objects'[k] \in seen
  <2>1. ASSUME NEW k \in Callers, Deliver(k), Put(k)
        PROVE  <1>3
    <3>1. hand[k] \in seen
      BY <2>1 DEF Deliver, HandsFit
    <3>2. \A m \in Msgs : table'[m] = table[m] \/ m = hand[k]
      BY <2>1 DEF Put, TypeInv, StoreType
    <3>3. \A x \in Keys : objects'[x] = objects[x] \/ objects'[x] = hand[k]
      BY <2>1 DEF Put, TypeInv, StoreType
    <3> QED
      BY <3>1, <3>2, <3>3
  <2> QED
    BY <2>1, OnlyDeliverWrites
<1>4. ASSUME NEW d \in DlqIds, dlq'[d].msg # NoMsg
      PROVE  dlq'[d].msg \in seen
  BY <1>4, RowsStay DEF Park, HandsFit
<1> QED
  BY <1>1, <1>2, <1>3, <1>4

\* A handler goes on by a step of its own, or ends with the process.
LEMMA OwnStep ==
  ASSUME TypeInv, [Next]_vars, NEW k \in Callers
  PROVE  \/ pc'[k] = pc[k] /\ (k \in Conns => seq'[k] = seq[k])
         \/ Deliver(k) \/ Park(k) \/ Crash
         \/ k \in Posts /\ (Post(k) \/ Lookup(k) \/ ReadBody(k))
         \/ k \in Conns /\
               (Accept(k) \/ Connect(k) \/ Receive(k) \/ SendError(k) \/ Disconnect(k))
         \/ k \in Replayers /\ (StartReplay(k) \/ Mark(k))
<1> USE NamesApart DEF TypeInv, PhaseType, HandType, Goto
<1>1. ASSUME NEW l \in Callers \ {k}, Deliver(l) \/ Park(l)
      PROVE  pc'[k] = pc[k] /\ seq' = seq
  BY <1>1 DEF Deliver, Park, Delivered, Raised
<1>2. ASSUME NEW l \in Posts \ {k}, Post(l) \/ Lookup(l) \/ ReadBody(l)
      PROVE  pc'[k] = pc[k] /\ seq' = seq
  BY <1>2 DEF Post, Lookup, ReadBody
<1>3. ASSUME NEW l \in Conns \ {k},
             Accept(l) \/ Connect(l) \/ Receive(l) \/ SendError(l) \/ Disconnect(l)
      PROVE  pc'[k] = pc[k] /\ (k \in Conns => seq'[k] = seq[k])
  BY <1>3 DEF Accept, Connect, Receive, SendError, Disconnect
<1>4. ASSUME NEW l \in Replayers \ {k}, StartReplay(l) \/ Mark(l)
      PROVE  pc'[k] = pc[k] /\ seq' = seq
  BY <1>4 DEF StartReplay, Mark
<1>5. CASE Register \/ Tick \/ UNCHANGED vars \/ \E t \in {"active", "paused"} : SetState(t)
  BY <1>5 DEF Register, Tick, SetState, vars, handlerVars
<1> QED
  BY <1>1, <1>2, <1>3, <1>4, <1>5 DEF Next

LEMMA ReceivedOnceStep ==
  ASSUME TypeInv, HandsFit, NothingInvented, ReceivedOnce, [Next]_vars
  PROVE  ReceivedOnce'
<1> USE NamesApart DEF TypeInv, PhaseType, HandType
<1>1. Transport' = Transport
  BY DEF Next, Deliver, Park, Post, Lookup, ReadBody, Accept, Connect, Receive, SendError,
     Disconnect, StartReplay, Mark, SetState, Register, Tick, Crash, vars, worldVars, Transport
<1>2. ASSUME NEW p \in Posts
      PROVE  /\ pc'[p] \in {"body", "write", "park", "accepted", "failed"} => Transport = "webhook"
             /\ p \in seen' => Transport = "webhook" /\ pc'[p] \notin {"idle", "lookup", "body"}
  <2>1. CASE pc'[p] = pc[p] /\ (p \in seen' => p \in seen)
    BY <2>1 DEF ReceivedOnce
  <2>2. CASE Post(p) \/ Lookup(p) \/ ReadBody(p)
    BY <2>2 DEF Post, Lookup, ReadBody, Goto, ReceivedOnce, historyVars
  <2>3. CASE Deliver(p) \/ Park(p)
    BY <2>3 DEF Deliver, Park, Delivered, Raised, Goto, ReceivedOnce, historyVars
  <2>4. CASE Crash
    BY <2>4 DEF Crash, ReceivedOnce, historyVars
  <2>5. p \in seen' => p \in seen \/ ReadBody(p)
    <3>1. \A c \in Conns : Receive(c) => <<c, seq[c]>> # p
      BY DEF Receive
    <3> QED
      BY <3>1, SeenGrows
  <2>6. pc'[p] = pc[p] \/ Post(p) \/ Lookup(p) \/ ReadBody(p) \/ Deliver(p) \/ Park(p) \/ Crash
    BY OwnStep
  <2> QED
    BY <2>1, <2>2, <2>3, <2>4, <2>5, <2>6
<1>3. ASSUME NEW c \in Conns
      PROVE  /\ pc'[c] \in {"receive", "write", "park", "send"} => Transport = "websocket"
             /\ pc'[c] \in {"idle", "lookup"} => seq'[c] = 0
             /\ \A n \in 0 .. MaxFrames - 1 :
                   <<c, n>> \in seen' => Transport = "websocket" /\ n < seq'[c]
  <2>1. CASE pc'[c] = pc[c] /\ seq'[c] = seq[c]
             /\ \A n \in 0 .. MaxFrames - 1 : <<c, n>> \in seen' => <<c, n>> \in seen
    BY <2>1 DEF ReceivedOnce
  <2>2. CASE Accept(c) \/ Connect(c) \/ SendError(c) \/ Disconnect(c)
    BY <2>2 DEF Accept, Connect, SendError, Disconnect, Goto, ReceivedOnce, historyVars
  <2>3. CASE Receive(c)
    BY <2>3 DEF Receive, Goto, ReceivedOnce
  <2>4. CASE Deliver(c) \/ Park(c)
    BY <2>4 DEF Deliver, Park, Delivered, Raised, Goto, ReceivedOnce, historyVars
  <2>5. CASE Crash
    BY <2>5 DEF Crash, ReceivedOnce, historyVars
  <2>6. \A n \in 0 .. MaxFrames - 1 : <<c, n>> \in seen' => <<c, n>> \in seen \/ Receive(c)
    BY SeenGrows
  <2>7. \/ pc'[c] = pc[c] /\ seq'[c] = seq[c]
        \/ Accept(c) \/ Connect(c) \/ SendError(c) \/ Disconnect(c) \/ Receive(c)
        \/ Deliver(c) \/ Park(c) \/ Crash
    BY OwnStep
  <2> QED
    BY <2>1, <2>2, <2>3, <2>4, <2>5, <2>6, <2>7
<1> QED
  BY <1>1, <1>2, <1>3 DEF ReceivedOnce

LEMMA TurnedAwayStep ==
  ASSUME TypeInv, HandsFit, ReceivedOnce, TurnedAway, [Next]_vars
  PROVE  TurnedAway'
<1> USE NamesApart DEF TypeInv, HandType
<1>1. SUFFICES ASSUME NEW k \in offSince', k \in Posts \cup Conns
               PROVE  /\ state' # "active"
                      /\ pc'[k] \in {"lookup", "rejected", "gone"}
                      /\ Brought(k) \cap seen' = {}
  BY WorldTypeStep DEF TurnedAway, Brought, HistoryType
<1>2. k \in Callers
  BY <1>1 DEF Callers
<1>3. CASE k \in offSince
  <2>1. state # "active" /\ pc[k] \in {"lookup", "rejected", "gone"} /\ Brought(k) \cap seen = {}
    BY <1>1, <1>3 DEF TurnedAway
  <2>2. state' # "active"
    BY <1>1, <2>1 DEF Next, Deliver, Park, Post, Lookup, ReadBody, Accept, Connect, Receive,
       SendError, Disconnect, StartReplay, Mark, SetState, Register, Tick, Crash, vars, worldVars
  <2>3. pc'[k] \in {"lookup", "rejected", "gone"}
    <3>1. CASE Crash
      BY <1>1, <1>2, <2>1, <3>1 DEF Crash
    <3>2. CASE k \in Posts /\ (Post(k) \/ Lookup(k) \/ ReadBody(k))
      BY <1>2, <2>1, <3>2 DEF Post, Lookup, ReadBody, PhaseType, Goto
    <3>3. CASE k \in Conns /\ (Accept(k) \/ Connect(k) \/ Receive(k) \/ SendError(k) \/ Disconnect(k))
      BY <1>2, <2>1, <3>3 DEF Accept, Connect, Receive, SendError, Disconnect, PhaseType, Goto
    <3>4. ~Deliver(k) /\ ~Park(k)
      BY <2>1 DEF Deliver, Park
    <3> QED
      BY <1>1, <1>2, <2>1, <3>1, <3>2, <3>3, <3>4, OwnStep
  <2>4. Brought(k) \cap seen' = {}
    <3>1. ASSUME NEW p \in Posts, ReadBody(p)
          PROVE  p \notin Brought(k)
      BY <1>1, <2>1, <3>1 DEF ReadBody, Brought
    <3>2. ASSUME NEW c \in Conns, Receive(c)
          PROVE  <<c, seq[c]>> \notin Brought(k)
      BY <1>1, <2>1, <3>2 DEF Receive, Brought
    <3> QED
      BY <2>1, <3>1, <3>2, SeenGrows
  <2> QED
    BY <2>2, <2>3, <2>4
<1>4. CASE k \notin offSince
  <2>1. \/ k \in Posts /\ Post(k) /\ state # "active"
        \/ k \in Conns /\ Accept(k) /\ state # "active"
    <3> QED
      <4>1. \/ offSince' \subseteq offSince
            \/ \E p \in Posts : Post(p) /\ offSince' = Arrives(p)
            \/ \E c \in Conns : Accept(c) /\ offSince' = Arrives(c)
        BY DEF Next, Deliver, Park, Post, Lookup, ReadBody, Accept, Connect,
           Receive, SendError, Disconnect, StartReplay, Mark, SetState, Register, Tick, Crash,
           vars, historyVars
      <4> QED
        BY <1>1, <1>4, <4>1 DEF Arrives
  <2>2. pc'[k] = "lookup" /\ state' = state /\ seen' = seen
    BY <1>2, <2>1 DEF Post, Accept, Goto, PhaseType, worldVars
  <2>3. Brought(k) \cap seen = {}
    BY <1>1, <2>1 DEF Post, Accept, ReceivedOnce, Brought, HistoryType
  <2> QED
    BY <2>1, <2>2, <2>3
<1> QED
  BY <1>3, <1>4

\* Every message that is taken in hand was counted, as seen or as a replay.
LEMMA RowsLeftStep ==
  ASSUME TypeInv, TypeInv', HandsFit, HandsFit', NothingInvented, ReceivedOnce, RowsLeft, [Next]_vars
  PROVE  RowsLeft'
<1> USE FiniteNames, NamesApart
<1> DEFINE busy == Cardinality(Busy)
           known == Cardinality(seen)
<1>1. /\ IsFiniteSet(Busy) /\ busy \in Nat /\ IsFiniteSet(seen) /\ known \in Nat
      /\ busy' \in Nat /\ known' \in Nat
  <2>1. Busy \in SUBSET Callers /\ Busy' \in SUBSET Callers
    BY DEF Busy
  <2>2. seen \in SUBSET Msgs /\ seen' \in SUBSET Msgs
    BY DEF TypeInv, HistoryType
  <2> QED
    BY <2>1, <2>2, FS_Subset, FS_CardinalityType
<1>2. PICK n \in {0} \cup DlqIds : n + busy <= known + replays /\ FilledUpTo(n)
  BY DEF RowsLeft
<1>3. replays \in Nat /\ replays' \in Nat /\ n \in Nat
  BY DEF TypeInv, WorldType, DlqIds
<1> DEFINE Balance == busy' - busy <= known' - known + (replays' - replays)
<1>4. CASE FilledUpTo(n)' /\ Balance
  BY <1>1, <1>2, <1>3, <1>4 DEF RowsLeft
<1>5. ASSUME NEW k \in Callers, Park(k)
      PROVE  RowsLeft'
  <2>1. busy' = busy - 1 /\ known' = known /\ replays' = replays
    <3>1. Busy' = Busy \ {k} /\ k \in Busy
      BY <1>5 DEF Park, Raised, Drop, Busy, HandsFit, TypeInv, HandType
    <3> QED
      BY <1>1, <1>5, <3>1, FS_RemoveElement DEF Park, worldVars, historyVars
  <2>2. CASE dlq' = dlq
    BY <1>1, <1>2, <1>3, <1>4, <2>1, <2>2 DEF FilledUpTo
  <2>3. ASSUME NEW d \in DlqIds,
               dlq[d].msg = NoMsg,
               dlq' = [dlq EXCEPT ![d].msg = hand[k]],
               FilledUpTo(d - 1),
               d - 1 + busy <= known + replays
        PROVE  RowsLeft'
    <3>1. hand[k] # NoMsg
      BY <1>5 DEF Park, HandsFit
    <3>2. FilledUpTo(d)'
      BY <2>3, <3>1 DEF FilledUpTo, DlqIds, TypeInv, StoreType
    <3> QED
      BY <1>1, <1>3, <2>1, <2>3, <3>2 DEF RowsLeft, DlqIds
  <2> QED
    BY <1>5, <2>2, <2>3, ParkedRow
<1>6. ASSUME ~\E k \in Callers : Park(k)
      PROVE  FilledUpTo(n)'
  <2>1. \A d \in DlqIds : dlq'[d].msg # NoMsg <=> dlq[d].msg # NoMsg
    BY <1>6, RowsStay
  <2> QED
    BY <1>2, <2>1 DEF FilledUpTo
<1>7. ASSUME ~\E k \in Callers : Park(k)
      PROVE  Balance
  <2>1. known <= known' /\ replays <= replays'
    <3>1. seen \in SUBSET seen' /\ IsFiniteSet(seen')
      BY SeenGrows, FS_Subset DEF TypeInv, HistoryType
    <3>2. replays <= replays'
      <4>1. replays' = replays \/ replays' = replays + 1
        BY DEF Next, Deliver, Park, Post, Lookup, ReadBody, Accept, Connect, Receive,
         SendError, Disconnect, StartReplay, Mark, SetState, Register, Tick, Crash, vars, worldVars
      <4> QED
        BY <1>3, <4>1
    <3> QED
      BY <3>1, <3>2, FS_Subset
  <2>2. CASE Busy' \subseteq Busy
    <3>1. busy' <= busy
      BY <1>1, <2>2, FS_Subset
    <3> QED
      BY <1>1, <1>3, <2>1, <3>1
  <2>3. ASSUME NEW k \in Callers, hand'[k] # NoMsg, hand[k] = NoMsg
        PROVE  Balance
    <3>1. \A l \in Callers \ {k} : hand'[l] = hand[l]
      <4>1. ReadBody(k) \/ Receive(k) \/ StartReplay(k)
        BY <2>3, HandsMove
      <4>2. ASSUME NEW m, hand' = [hand EXCEPT ![k] = m]
            PROVE  \A l \in Callers \ {k} : hand'[l] = hand[l]
        BY <4>2 DEF TypeInv, HandType
      <4>3. CASE ReadBody(k)
        BY <4>3, <4>2 DEF ReadBody
      <4>4. CASE Receive(k)
        BY <4>4, <4>2 DEF Receive
      <4>5. CASE StartReplay(k)
        BY <4>5, <4>2 DEF StartReplay
      <4> QED
        BY <4>1, <4>3, <4>4, <4>5
    <3>2. Busy' = Busy \cup {k} /\ k \notin Busy
      BY <2>3, <3>1 DEF Busy
    <3>3. busy' = busy + 1
      BY <1>1, <3>2, FS_AddElement
    <3>4. known' = known + 1 \/ replays' = replays + 1
      <4>1. CASE k \in Posts /\ ReadBody(k)
        <5>1. k \notin seen /\ seen' = seen \cup {k}
          <6>1. pc[k] = "body" /\ seen' = seen \cup {k}
            BY <2>3, <4>1 DEF ReadBody
          <6> QED
            BY <4>1, <6>1 DEF ReceivedOnce
        <5> QED
          BY <1>1, <5>1, FS_AddElement
      <4>2. CASE k \in Conns /\ Receive(k)
        <5>1. <<k, seq[k]>> \notin seen /\ seen' = seen \cup {<<k, seq[k]>>}
          BY <4>2 DEF Receive, ReceivedOnce, TypeInv, HandType
        <5> QED
          BY <1>1, <5>1, FS_AddElement
      <4>3. CASE StartReplay(k)
        BY <4>3 DEF StartReplay
      <4> QED
        BY <2>3, <4>1, <4>2, <4>3, HandsMove
    <3> QED
      BY <1>1, <1>3, <2>1, <3>3, <3>4
  <2> QED
    BY <2>2, <2>3 DEF Busy
<1> QED
  BY <1>4, <1>5, <1>6, <1>7
-----------------------------------------------------------------------------
(* Every variable has its type, and no more dead letters are needed than    *)
(* there are rows for.                                                      *)

LEMMA IInvStep == IInv /\ [Next]_vars => IInv'
<1> SUFFICES ASSUME IInv, [Next]_vars
             PROVE  IInv'
  OBVIOUS
<1> USE DEF IInv
<1>1. TypeInv' /\ HandsFit'
  BY TypeStep, HandsFitStep
<1>2. NothingInvented' /\ ReceivedOnce' /\ TurnedAway'
  BY NothingInventedStep, ReceivedOnceStep, TurnedAwayStep
<1> QED
  BY <1>1, <1>2, RowsLeftStep

LEMMA IngestInvariant == Spec => []IInv
  BY Initially, IInvStep, PTL DEF Spec

(* Whatever the handlers, the replays and the stores do in whatever order,   *)
(* the variables keep their types.                                           *)
THEOREM IngestTypes == Spec => []TypeOK
<1>1. IInv => TypeOK
  BY DEF IInv, TypeInv, WorldType, PhaseType, HandType, StoreType, HistoryType, TypeOK
<1> QED
  BY <1>1, IngestInvariant, PTL

(* A webhook request or a websocket connection that arrives while the source *)
(* is off brings nothing into the sink or the dead letters, as long as the   *)
(* source stays off.                                                         *)
THEOREM OffIsOffAtTheDoor == Spec => []OffAtTheDoor
<1>1. IInv => OffAtTheDoor
  BY NamesApart DEF IInv, TypeInv, HistoryType, StoreType, TurnedAway, NothingInvented,
     OffAtTheDoor, Stored, Parked, Brought, Msgs
<1> QED
  BY <1>1, IngestInvariant, PTL
-----------------------------------------------------------------------------
(* The sink: what was written is a row, or an object that only a write with *)
(* the same time and offset can have replaced.                              *)

\* Rows and objects are there because their messages were written, and the name every
\* object was written under holds something.
WrittenFits ==
    /\ \A m \in Msgs : table[m] > 0 => written[m] # {}
    /\ \A key \in Keys : objects[key] # NoMsg => key \in written[objects[key]]
    /\ \A m \in Msgs : \A w \in written[m] :
          IF Kind = "s3_object" THEN objects[w] # NoMsg ELSE table[m] > 0

LEMMA SetupStays == [Next]_vars => setup' = setup
  BY DEF Next, Deliver, Park, Post, Lookup, ReadBody, Accept, Connect, Receive, SendError,
     Disconnect, StartReplay, Mark, SetState, Register, Tick, Crash, vars, worldVars

LEMMA TwoKinds == IInv => Kind \in {"postgres_table", "s3_object"}
  BY BodiesAssumption DEF IInv, TypeInv, WorldType, Kind, RegisterRequest

LEMMA WrittenFitsStep == IInv /\ WrittenFits /\ [Next]_vars => WrittenFits'
<1> SUFFICES ASSUME IInv, WrittenFits, [Next]_vars
             PROVE  WrittenFits'
  OBVIOUS
<1> USE NamesApart DEF IInv, TypeInv, StoreType, HistoryType
<1>1. Kind' = Kind /\ Kind \in {"postgres_table", "s3_object"}
  BY SetupStays, TwoKinds DEF Kind
<1>2. CASE UNCHANGED <<table, objects, written>>
  BY <1>1, <1>2 DEF WrittenFits
<1>3. ASSUME NEW k \in Callers, Deliver(k), Put(k)
      PROVE  WrittenFits'
  <2> DEFINE h == hand[k]
             key == <<clock, Offset(k)>>
  <2>1. h \in Msgs /\ h # NoMsg /\ key \in Keys /\ Tag(k) = Offset(k)
    BY <1>3, OffsetIsTag DEF Deliver, HandsFit, HandType
  <2>2. written' = [written EXCEPT ![h] = @ \cup {key}]
    BY <1>3 DEF Put
  <2>3. CASE Kind = "postgres_table" /\ table' = [table EXCEPT ![h] = @ + 1] /\ objects' = objects
    <3> HIDE DEF h, key
    <3>1. \A m \in Msgs : table[m] > 0 => table'[m] > 0
      BY <2>1, <2>3
    <3>2. table'[h] > 0 /\ \A m \in Msgs : written[m] \subseteq written'[m]
      BY <2>1, <2>2, <2>3
    <3>3. \A m \in Msgs : m # h => written'[m] = written[m] /\ table'[m] = table[m]
      BY <2>1, <2>2, <2>3
    <3> QED
      BY <1>1, <2>1, <2>2, <2>3, <3>1, <3>2, <3>3 DEF WrittenFits
  <2>4. CASE Kind = "s3_object" /\ objects' = [objects EXCEPT ![key] = h] /\ table' = table
    <3> HIDE DEF h, key
    <3>1. \A m \in Msgs : written[m] \subseteq written'[m] /\ written'[m] \subseteq written[m] \cup {key}
      BY <2>1, <2>2
    <3>2. objects'[key] = h /\ key \in written'[h]
      BY <2>1, <2>2, <2>4
    <3>3. \A x \in Keys : x # key => objects'[x] = objects[x]
      BY <2>1, <2>4
    <3>4. \A m \in Msgs : table'[m] > 0 => written'[m] # {}
      BY <2>4, <3>1 DEF WrittenFits
    <3>5. \A x \in Keys : objects'[x] # NoMsg => x \in written'[objects'[x]]
      BY <3>1, <3>2, <3>3 DEF WrittenFits
    <3>6. \A m \in Msgs : \A w \in written'[m] : objects'[w] # NoMsg
      BY <2>1, <2>4, <3>1, <3>2, <3>3 DEF WrittenFits
    <3> QED
      BY <1>1, <2>4, <3>4, <3>5, <3>6 DEF WrittenFits
  <2> QED
    BY <1>3, <2>1, <2>3, <2>4 DEF Put
<1> QED
  BY <1>2, <1>3, OnlyDeliverWrites

LEMMA WrittenInvariant == Spec => []WrittenFits
<1>1. Init => WrittenFits
  BY NamesApart DEF Init, WrittenFits
<1> QED
  BY <1>1, IngestInvariant, WrittenFitsStep, PTL DEF Spec

\* What was written is in the sink or has been replaced by a twin, and nothing else is.
LEMMA InSinkIsWritten ==
  ASSUME IInv, WrittenFits, NEW m \in Msgs
  PROVE  InSink(m) <=> written[m] # {}
<1> USE NamesApart DEF IInv, TypeInv, StoreType, HistoryType
<1>1. Stored(m) => written[m] # {}
  BY DEF Stored, WrittenFits
<1>2. CASE Kind = "s3_object"
  <2>1. ASSUME ~Stored(m), NEW w \in written[m]
        PROVE  \E twin \in Msgs \ {m} : w \in written[twin]
    <3>1. objects[w] # NoMsg /\ w \in Keys
      BY <1>2 DEF WrittenFits
    <3>2. objects[w] \in Msgs \ {m} /\ w \in written[objects[w]]
      BY <2>1, <3>1 DEF Stored, WrittenFits
    <3> QED
      BY <3>2
  <2> QED
    BY <1>1, <1>2, <2>1 DEF InSink, Replaced
<1>3. CASE Kind # "s3_object"
  BY <1>1, <1>3 DEF InSink, Replaced, Stored, WrittenFits
<1> QED
  BY <1>2, <1>3

SinkHoldsWritten == \A m \in Msgs : InSink(m) <=> written[m] # {}

LEMMA SinkHoldsWrittenNow == IInv /\ WrittenFits => SinkHoldsWritten
  BY InSinkIsWritten DEF SinkHoldsWritten

LEMMA SinkHoldsWrittenNext == IInv' /\ WrittenFits' => SinkHoldsWritten'
  BY SinkHoldsWrittenNow, PTL

LEMMA WrittenStays ==
  ASSUME IInv, [Next]_vars, NEW m \in Msgs, written[m] # {}
  PROVE  written'[m] # {}
<1>1. ASSUME NEW k \in Callers, Put(k)
      PROVE  written[m] \subseteq written'[m]
  BY <1>1 DEF Put, IInv, TypeInv, HistoryType
<1> QED
  BY <1>1, OnlyDeliverWrites

\* A deliver that returns has written; one that raises has kept hold of the message.
LEMMA Delivering ==
  ASSUME IInv, NEW k \in Callers, Deliver(k)
  PROVE  (pc'[k] = "park" /\ hand' = hand) \/ written'[hand[k]] # {}
<1> USE DEF IInv, TypeInv, HistoryType, HandType, PhaseType
<1>1. hand[k] \in Msgs
  BY DEF Deliver, HandsFit
<1>2. CASE Put(k)
  <2>1. <<clock, Offset(k)>> \in written'[hand[k]]
    BY <1>1, <1>2 DEF Put
  <2> QED
    BY <2>1
<1>3. CASE ~Put(k)
  BY <1>3 DEF Deliver, Effective, Goto, Hold
<1> QED
  BY <1>2, <1>3

\* A request answered "accepted", and the message of a replay about to be marked, were
\* written.
DoneIsWritten ==
    /\ \A p \in Posts : pc[p] = "accepted" => written[p] # {}
    /\ \A x \in Replayers : pc[x] = "mark" => written[hand[x]] # {}

LEMMA DoneIsWrittenStep == IInv /\ DoneIsWritten /\ [Next]_vars => DoneIsWritten'
<1> SUFFICES ASSUME IInv, DoneIsWritten, [Next]_vars
             PROVE  DoneIsWritten'
  OBVIOUS
<1> USE NamesApart DEF IInv, TypeInv, PhaseType, HandType
<1>1. ASSUME NEW p \in Posts, pc'[p] = "accepted"
      PROVE  written'[p] # {}
  <2>1. CASE pc[p] = "accepted"
    BY <1>1, <2>1, WrittenStays DEF DoneIsWritten
  <2>2. CASE pc[p] # "accepted"
    <3>1. Deliver(p)
      BY <1>1, <2>2, OwnStep DEF Post, Lookup, ReadBody, Park, Raised, Crash, Goto
    <3>2. hand[p] = p
      BY <3>1 DEF Deliver, HandsFit
    <3> QED
      BY <1>1, <3>1, <3>2, Delivering
  <2> QED
    BY <2>1, <2>2
<1>2. ASSUME NEW x \in Replayers, pc'[x] = "mark"
      PROVE  written'[hand'[x]] # {}
  <2>1. CASE pc[x] = "mark"
    <3>1. hand'[x] = hand[x] /\ hand[x] \in Msgs
      BY <1>2, <2>1, HandsFitStep, HandsMove DEF HandsFit
    <3> QED
      BY <1>2, <2>1, <3>1, WrittenStays DEF DoneIsWritten
  <2>2. CASE pc[x] # "mark"
    <3>1. Deliver(x)
      BY <1>2, <2>2, OwnStep DEF Park, Raised, Crash, StartReplay, Mark, Goto
    <3>2. hand'[x] = hand[x]
      BY <1>2, <3>1, HoldOrDrop
    <3> QED
      BY <1>2, <3>1, <3>2, Delivering
  <2> QED
    BY <2>1, <2>2
<1> QED
  BY <1>1, <1>2 DEF DoneIsWritten

LEMMA DoneInvariant == Spec => []DoneIsWritten
<1>1. Init => DoneIsWritten
  BY NamesApart DEF Init, DoneIsWritten
<1> QED
  BY <1>1, IngestInvariant, DoneIsWrittenStep, PTL DEF Spec

(* A request answered "accepted", and any other message that was written, is *)
(* in the sink for good; only a twin, which nothing in the name of an object *)
(* tells from it, can have taken the place of its last object.               *)
THEOREM AcceptedStaysInSink == Spec => []OnlyTwinsReplace
<1>1. IInv /\ WrittenFits /\ DoneIsWritten => OnlyTwinsReplace
  BY InSinkIsWritten, NamesApart DEF DoneIsWritten, OnlyTwinsReplace, Accepted
<1> QED
  BY <1>1, IngestInvariant, WrittenInvariant, DoneInvariant, PTL
-----------------------------------------------------------------------------
(* Replay: the last open row of a message is closed only when the sink has  *)
(* had the message.                                                         *)

OpenUntilWritten ==
    /\ \A d \in DlqIds : dlq[d].msg = NoMsg => ~dlq[d].replayed
    /\ \A m \in Msgs : Parked(m) =>
          written[m] # {} \/ \E d \in DlqIds : dlq[d].msg = m /\ ~dlq[d].replayed

\* Only the replay that has delivered a row's message sets the row's flag.
LEMMA OnlyMarkCloses ==
  ASSUME IInv, [Next]_vars, NEW d \in DlqIds, dlq'[d].replayed, ~dlq[d].replayed
  PROVE  \E x \in Replayers : Mark(x) /\ pc[x] = "mark" /\ row[x] = d /\ dlq[d].msg = hand[x]
<1> USE DEF IInv, TypeInv, StoreType
<1>1. CASE \E k \in Callers : Park(k)
  <2>1. \A e \in DlqIds : \A m : dlq' = [dlq EXCEPT ![e].msg = m] => dlq'[d].replayed = dlq[d].replayed
    OBVIOUS
  <2> QED
    BY <1>1, <2>1, ParkedRow
<1>2. CASE \E x \in Replayers : Mark(x)
  <2>1. PICK x \in Replayers : Mark(x)
    BY <1>2
  <2>2. dlq' = dlq \/ dlq' = [dlq EXCEPT ![row[x]].replayed = TRUE]
    BY <2>1 DEF Mark
  <2>3. row[x] = d
    BY <2>2
  <2> QED
    BY <2>1, <2>3, NamesApart DEF Mark, HandsFit
<1>3. CASE UNCHANGED dlq
  BY <1>3
<1> QED
  BY <1>1, <1>2, <1>3 DEF Next, Deliver, Post, Lookup, ReadBody, Accept, Connect, Receive,
     SendError, Disconnect, StartReplay, SetState, Register, Tick, Crash, vars, storeVars

LEMMA OpenUntilWrittenStep == IInv /\ DoneIsWritten /\ OpenUntilWritten /\ [Next]_vars => OpenUntilWritten'
<1> SUFFICES ASSUME IInv, DoneIsWritten, OpenUntilWritten, [Next]_vars
             PROVE  OpenUntilWritten'
  OBVIOUS
<1> USE NamesApart DEF IInv, OpenUntilWritten
<1>1. ASSUME NEW d \in DlqIds, dlq'[d].msg = NoMsg
      PROVE  ~dlq'[d].replayed
  <2>1. dlq[d].msg = NoMsg
    BY <1>1, RowsStay
  <2> SUFFICES ASSUME dlq'[d].replayed PROVE FALSE
    OBVIOUS
  <2>2. PICK x \in Replayers : pc[x] = "mark" /\ dlq[d].msg = hand[x]
    BY <2>1, OnlyMarkCloses
  <2> QED
    BY <2>1, <2>2 DEF HandsFit
<1>2. ASSUME NEW m \in Msgs, NEW d \in DlqIds, dlq'[d].msg = m, written'[m] = {}
      PROVE  \E e \in DlqIds : dlq'[e].msg = m /\ ~dlq'[e].replayed
  <2>1. written[m] = {}
    BY <1>2, WrittenStays
  <2>2. PICK e \in DlqIds : dlq'[e].msg = m /\ ~dlq[e].replayed
    <3>1. CASE Parked(m)
      BY <1>2, <2>1, <3>1, RowsStay
    <3>2. CASE ~Parked(m)
      BY <1>2, <3>2, RowsStay DEF Parked
    <3> QED
      BY <3>1, <3>2
  <2>3. ~dlq'[e].replayed
    <3> SUFFICES ASSUME dlq'[e].replayed PROVE FALSE
      OBVIOUS
    <3>1. PICK x \in Replayers : pc[x] = "mark" /\ dlq[e].msg = hand[x]
      BY <2>2, OnlyMarkCloses
    <3>2. hand[x] # NoMsg
      BY <3>1 DEF HandsFit
    <3>3. hand[x] = m
      BY <2>2, <3>1, <3>2, RowsStay
    <3> QED
      BY <2>1, <3>1, <3>3 DEF DoneIsWritten
  <2> QED
    BY <2>2, <2>3
<1> QED
  BY <1>1, <1>2 DEF Parked

(* A dead letter stays open for replay until the sink has had its message:   *)
(* replays that fail, race or die half-way never close the last row.         *)
THEOREM DeadLettersStayOpen == Spec => []ParkedUntilStored
<1>1. Init => OpenUntilWritten
  BY NamesApart DEF Init, OpenUntilWritten, Parked
<1>2. IInv /\ WrittenFits /\ OpenUntilWritten => ParkedUntilStored
  BY InSinkIsWritten DEF OpenUntilWritten, ParkedUntilStored
<1> QED
  BY <1>1, <1>2, IngestInvariant, WrittenInvariant, DoneInvariant, OpenUntilWrittenStep, PTL DEF Spec
-----------------------------------------------------------------------------
(* The ingest handlers implement MessageFate.                               *)

Kept(m) == written[m] # {} \/ Parked(m)
Held(m) == \E k \in Callers : hand[k] = m

LEMMA ParkedStays ==
  ASSUME IInv, [Next]_vars, NEW m \in Msgs
  PROVE  /\ Parked(m) => Parked(m)'
         /\ Parked(m)' => Parked(m) \/ \E k \in Callers : Park(k) /\ hand[k] = m
<1>1. \A d \in DlqIds : dlq[d].msg = m => dlq'[d].msg = m
  BY RowsStay, NamesApart DEF IInv
<1>2. ASSUME NEW d \in DlqIds, dlq'[d].msg = m, dlq[d].msg # m
      PROVE  \E k \in Callers : Park(k) /\ hand[k] = m
  BY <1>2, RowsStay, NamesApart DEF IInv
<1> QED
  BY <1>1, <1>2 DEF Parked

\* What becomes kept was held.
LEMMA KeptWasHeld ==
  ASSUME IInv, [Next]_vars, NEW m \in Msgs
  PROVE  /\ Kept(m)' => Kept(m) \/ Held(m)
         /\ Kept(m) => Kept(m)'
<1>1. ASSUME NEW k \in Callers, Put(k), hand[k] # m
      PROVE  written'[m] = written[m]
  BY <1>1 DEF Put, IInv, TypeInv, HistoryType
<1>2. written'[m] # {} => written[m] # {} \/ Held(m)
  BY <1>1, OnlyDeliverWrites DEF Held
<1> QED
  BY <1>2, ParkedStays, WrittenStays DEF Kept, Held

\* A message leaves a hand into the sink or the dead letters, or it is lost with the
\* process, or cut off.
LEMMA HeldEnds ==
  ASSUME IInv, [Next]_vars, NEW m \in Msgs, Held(m), ~Held(m)'
  PROVE  Kept(m)' \/ m \in CutOff \/ crashes' # crashes
<1> USE NamesApart DEF IInv, TypeInv, HandType
<1>1. PICK k \in Callers : hand[k] = m
  BY DEF Held
<1>2. hand'[k] # m
  BY DEF Held
<1>3. CASE Deliver(k)
  BY <1>1, <1>2, <1>3, Delivering DEF Kept, HandsFit
<1>4. CASE Park(k)
  <2>1. pc[k] = "park"
    BY <1>4 DEF Park
  <2>2. CASE "dlq" \in Faults
    BY <1>1, <2>1, <2>2 DEF CutOff
  <2>3. CASE "dlq" \notin Faults
    <3>1. PICK d \in DlqIds : dlq' = [dlq EXCEPT ![d].msg = m]
      BY <1>1, <1>4, <2>3, ParkedRow
    <3>2. dlq'[d].msg = m
      BY <3>1 DEF StoreType
    <3> QED
      BY <3>2 DEF Kept, Parked
  <2> QED
    BY <2>2, <2>3
<1>5. CASE k \in Replayers /\ Mark(k)
  <2>1. Parked(m)
    BY <1>1, <1>5 DEF HandsFit, Parked
  <2> QED
    BY <2>1, ParkedStays DEF Kept
<1>6. CASE Crash
  BY <1>6 DEF Crash, WorldType
<1>7. pc[k] \in {"write", "park", "mark"}
  BY <1>1 DEF HandsFit
<1>8. hand'[k] = NoMsg
  BY <1>1, <1>2, <1>7, HandsMove
<1>9. HandsFit'
  BY HandsFitStep
<1>10. pc'[k] # pc[k]
  BY <1>7, <1>8, <1>9 DEF HandsFit
<1> QED
  BY <1>3, <1>4, <1>5, <1>6, <1>7, <1>10, OwnStep DEF Post, Lookup, ReadBody, Accept, Connect,
     Receive, SendError, Disconnect, StartReplay

\* A message gets into a hand when it is seen for the first time, or from the dead letters.
LEMMA HeldBegins ==
  ASSUME IInv, [Next]_vars, NEW m \in Msgs
  PROVE  /\ Held(m)' => Held(m) \/ Kept(m) \/ m \notin seen
         /\ m \in seen' => m \in seen \/ Held(m)'
         /\ Held(m)' => m \in seen'
         /\ m \in seen => m \in seen'
<1> USE NamesApart DEF IInv
<1>1. ASSUME NEW k \in Callers, hand'[k] = m, hand[k] # m, m \in seen
      PROVE  Parked(m)
  <2>1. CASE k \in Posts /\ ReadBody(k) /\ m = k
    BY <1>1, <2>1 DEF ReadBody, ReceivedOnce
  <2>2. CASE k \in Conns /\ Receive(k) /\ m = <<k, seq[k]>>
    BY <1>1, <2>2 DEF Receive, ReceivedOnce, TypeInv, HandType
  <2>3. CASE \E d \in DlqIds : dlq[d].msg = m
    BY <2>3 DEF Parked
  <2> QED
    BY <1>1, <2>1, <2>2, <2>3, HandsMove
<1>2. ASSUME m \in seen', m \notin seen
      PROVE  Held(m)'
  <2>1. CASE \E p \in Posts : ReadBody(p) /\ seen' = seen \cup {p}
    BY <1>2, <2>1 DEF ReadBody, Held, TypeInv, HandType
  <2>2. CASE \E c \in Conns : Receive(c) /\ seen' = seen \cup {<<c, seq[c]>>}
    BY <1>2, <2>2 DEF Receive, Held, TypeInv, HandType
  <2> QED
    BY <1>2, <2>1, <2>2, SeenGrows
<1>3. Held(m)' => m \in seen'
  BY NothingInventedStep DEF Held, NothingInvented
<1> QED
  BY <1>1, <1>2, <1>3, SeenGrows DEF Held, Kept

LEMMA FateStep ==
  ASSUME IInv, WrittenFits, [Next]_vars
  PROVE  Fates!Next
<1>1. IInv' /\ WrittenFits'
  BY IInvStep, WrittenFitsStep
<1>2. (FateOf \in [Msgs -> Fates!Fates] /\ CutOff \in SUBSET Msgs)'
  <2>1. (FateOf \in [Msgs -> Fates!Fates])'
    BY DEF FateOf, Fates!Fates
  <2>2. (CutOff \in SUBSET Msgs)'
    BY <1>1 DEF CutOff, IInv, TypeInv, HandType, HandsFit
  <2> QED
    BY <2>1, <2>2
<1>3. ASSUME NEW m \in Msgs
      PROVE  Fates!Stays(m) \/ Fates!Receive(m) \/ Fates!Keep(m) \/ Fates!Lose(m)
  <2> USE DEF Fates!Stays, Fates!Receive, Fates!Keep, Fates!Lose, Fates!Turns
  <2>1. FateOf[m] = IF Kept(m) THEN "kept" ELSE IF Held(m) THEN "held"
                    ELSE IF m \in seen THEN "lost" ELSE "unseen"
    BY InSinkIsWritten DEF FateOf, Kept, Held
  <2>2. FateOf'[m] = IF Kept(m)' THEN "kept" ELSE IF Held(m)' THEN "held"
                     ELSE IF m \in seen' THEN "lost" ELSE "unseen"
    BY <1>1, SinkHoldsWrittenNext DEF SinkHoldsWritten, FateOf, Kept, Held
  <2>3. CASE Kept(m)
    BY <2>1, <2>2, <2>3, KeptWasHeld
  <2>4. CASE ~Kept(m) /\ Held(m)
    <3>1. m \in seen
      BY <2>4, NamesApart DEF IInv, NothingInvented, Held
    <3> QED
      BY <2>1, <2>2, <2>4, <3>1, HeldEnds, HeldBegins
  <2>5. CASE ~Kept(m) /\ ~Held(m)
    BY <2>1, <2>2, <2>5, KeptWasHeld, HeldBegins
  <2> QED
    BY <2>3, <2>4, <2>5
<1> QED
  BY <1>2, <1>3 DEF Fates!Next

(* Webhooks, websockets and replays implement MessageFate: a message that    *)
(* was received is in hand, in the sink or parked, and is lost only with the *)
(* process or when the insert of its dead letter fails.                      *)
THEOREM IngestImplementsFates == Spec => FatesImplemented
<1>1. Init => Fates!Init
  <2> SUFFICES ASSUME Init PROVE Fates!Init
    OBVIOUS
  <2>1. CutOff \in SUBSET Msgs
    BY Initially DEF CutOff, IInv, TypeInv, HandType, HandsFit
  <2>2. FateOf = [m \in Msgs |-> "unseen"]
    BY NamesApart DEF Init, FateOf, InSink, Stored, Replaced, Parked
  <2> QED
    BY <2>1, <2>2 DEF Fates!Init
<1> QED
  BY <1>1, IngestInvariant, WrittenInvariant, FateStep, PTL DEF Spec, FatesImplemented, Fates!Spec
=============================================================================
