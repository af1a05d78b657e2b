---------------------------- MODULE StreamIngest ----------------------------
(***************************************************************************)
(* Passive stream sources: their registration, the webhook and websocket   *)
(* handlers and the dead-letter replay of server/routers/streams.py, which *)
(* all call StreamRunner.deliver (streams/runner.py), and the two sinks    *)
(* they write to (streams/sinks.py).  One source; two share nothing.       *)
(*                                                                         *)
(* A webhook request and a websocket connection happen once; a message is  *)
(* named after the request, or the connection and frame number, it came    *)
(* with.  Every await is a step that fails if its name is in Faults.       *)
(***************************************************************************)
EXTENDS Integers, FiniteSets

CONSTANTS
    Bodies,      \* the bodies POST /v1/streams may be called with
    Posts,       \* POST /v1/ingest/{id} requests
    Conns,       \* websocket connections
    Replayers,   \* concurrent POST /v1/streams/dlq/{id}/replay requests
    NoMsg,       \* no message
    MaxFrames,   \* bound: frames received on one connection
    MaxClock,    \* bound: milliseconds that pass
    MaxReplays,  \* bound: replay requests ever made
    MaxCrashes,  \* bound: process deaths
    Faults       \* awaits that may raise, out of FaultNames

FaultNames == {"body", "write", "dlq", "send", "mark"}

\* RegisterRequest: target tells whether the table, or the bucket, is named, prefix
\* whether the objects' prefix is, and safe whether the names are plain identifiers.
RegisterRequest ==
    [transport : {"webhook", "websocket"}, kind : {"postgres_table", "s3_object"},
     target : BOOLEAN, prefix : BOOLEAN, safe : BOOLEAN, hypertable : BOOLEAN,
     time_column : {"received_at", "another"}]

ASSUME BodiesAssumption == Bodies \subseteq RegisterRequest
ASSUME BoundsAssumption ==
    MaxFrames \in Nat /\ MaxClock \in Nat /\ MaxReplays \in Nat /\ MaxCrashes \in Nat
ASSUME FaultsAssumption == Faults \subseteq FaultNames

Callers == Posts \cup Conns \cup Replayers
Frames == Conns \X (0 .. MaxFrames - 1)
Msgs == Posts \cup Frames

\* Requests, connections, frames and the absence of a message are told apart, and there
\* are finitely many of each.
ASSUME NamesAssumption ==
    /\ Posts \cap Conns = {} /\ Posts \cap Replayers = {} /\ Conns \cap Replayers = {}
    /\ (Posts \cup Conns) \cap Frames = {}
    /\ NoMsg \notin Msgs
    /\ IsFiniteSet(Callers)

\* At most one stream_dlq row per message and one more per replay.
DlqIds == 1 .. Cardinality(Msgs) + MaxReplays

\* _offset_tag: the frame number, or "x" for an offset without the known keys.
Tags == 0 .. MaxFrames - 1 \cup {-1}
Unknown == -1

VARIABLES
    setup,     \* the body of the POST /v1/streams that makes the source
    state,     \* stream_sources.state, or "absent"
    pc,        \* pc[k]: where the handler k is
    hand,      \* hand[k]: the message deliver was called with, or NoMsg
    seq,       \* seq[c]: number of frames received on c
    row,       \* row[x]: the stream_dlq row replayer x works on, or 0
    clock,     \* milliseconds since the start
    table,     \* table[m]: landing-table rows holding m
    objects,   \* objects[k]: the message the object with key k holds, or NoMsg
    dlq,       \* dlq[d]: the stream_dlq row d, msg NoMsg if there is none
    replays,   \* replay requests made so far
    crashes,   \* process deaths so far
    seen,      \* messages a handler has got hold of (history)
    written,   \* written[m]: the times and offsets m was written into the sink with (history)
    offSince   \* requests and connections that arrived while the source was off and has
               \* stayed off (history)

handlerVars == <<pc, hand, seq, row>>
storeVars == <<table, objects, dlq>>
worldVars == <<setup, state, clock, replays, crashes>>
historyVars == <<seen, written, offSince>>
vars == <<worldVars, handlerVars, storeVars, historyVars>>

Transport == setup.transport
Kind == setup.kind

Keys == (0 .. MaxClock) \X Tags

PostPhases ==
    {"idle", "lookup", "body", "write", "park", "accepted", "failed", "rejected", "gone"}
ConnPhases == {"idle", "lookup", "receive", "write", "park", "send", "gone"}
ReplayPhases == {"idle", "write", "park", "mark"}

TypeOK ==
    /\ setup \in Bodies
    /\ state \in {"absent", "active", "paused"}
    /\ DOMAIN pc = Callers
    /\ \A p \in Posts : pc[p] \in PostPhases
    /\ \A c \in Conns : pc[c] \in ConnPhases
    /\ \A x \in Replayers : pc[x] \in ReplayPhases
    /\ hand \in [Callers -> Msgs \cup {NoMsg}]
    /\ seq \in [Conns -> 0 .. MaxFrames]
    /\ row \in [Replayers -> {0} \cup DlqIds]
    /\ clock \in 0 .. MaxClock
    /\ table \in [Msgs -> Nat]
    /\ objects \in [Keys -> Msgs \cup {NoMsg}]
    /\ dlq \in [DlqIds -> [msg : Msgs \cup {NoMsg}, replayed : BOOLEAN]]
    /\ replays \in 0 .. MaxReplays
    /\ crashes \in 0 .. MaxCrashes
    /\ seen \subseteq Msgs
    /\ written \in [Msgs -> SUBSET Keys]
    /\ offSince \subseteq Posts \cup Conns

Init ==
    /\ setup \in Bodies
    /\ state = "absent"
    /\ pc = [k \in Callers |-> "idle"]
    /\ hand = [k \in Callers |-> NoMsg]
    /\ seq = [c \in Conns |-> 0]
    /\ row = [x \in Replayers |-> 0]
    /\ clock = 0
    /\ table = [m \in Msgs |-> 0]
    /\ objects = [k \in Keys |-> NoMsg]
    /\ dlq = [d \in DlqIds |-> [msg |-> NoMsg, replayed |-> FALSE]]
    /\ replays = 0 /\ crashes = 0
    /\ seen = {} /\ offSince = {}
    /\ written = [m \in Msgs |-> {}]

Outcomes(op) == IF op \in Faults THEN {"ok", "lost", "applied"} ELSE {"ok"}
Effective(o) == o \in {"ok", "applied"}

Stored(m) == table[m] > 0 \/ \E k \in Keys : objects[k] = m
Parked(m) == \E d \in DlqIds : dlq[d].msg = m

Goto(k, p) == pc' = [pc EXCEPT ![k] = p]
Drop(k) ==
    /\ hand' = [hand EXCEPT ![k] = NoMsg]
    /\ row' = [x \in Replayers |-> IF x = k THEN 0 ELSE row[x]]
Hold == UNCHANGED <<hand, row>>
-----------------------------------------------------------------------------
(* StreamRunner.deliver, run by whoever calls it.                          *)

\* What _offset_tag knows of the offset the caller built: the number of a frame, and
\* nothing of the time of a request or the row of a replay.
Offset(k) == IF k \in Conns THEN hand[k][2] ELSE Unknown

\* Seeded fault: "seq" is not among the keys _offset_tag looks for.
TagUnknown(k) == Unknown

\* _offset_tag
Tag(k) == Offset(k)

\* What the write ends in: _write_s3 takes the prefix of a sink as text, and the
\* registered sink of a source made without one holds None.
WriteOutcomes ==
    IF Kind = "s3_object" /\ ~setup.prefix THEN {"lost"} ELSE Outcomes("write")

\* sinks.write: a row of its own, or the object named after time and tag.
Put(k) ==
    /\ written' = [written EXCEPT ![hand[k]] = @ \cup {<<clock, Offset(k)>>}]
    /\ \/ /\ Kind = "postgres_table"
          /\ table' = [table EXCEPT ![hand[k]] = @ + 1]
          /\ UNCHANGED objects
       \/ /\ Kind = "s3_object"
          /\ objects' = [objects EXCEPT ![<<clock, Tag(k)>>] = hand[k]]
          /\ UNCHANGED table

\* What each caller does when deliver returns.
Delivered(k) ==
    IF k \in Posts THEN Goto(k, "accepted") /\ Drop(k)
    ELSE IF k \in Conns THEN Goto(k, "receive") /\ Drop(k)
    ELSE Goto(k, "mark") /\ Hold

\* Seeded fault: deliver parks the message and returns as if all was well.
RaisedSwallowed(k) ==
    /\ Drop(k)
    /\ Goto(k, IF k \in Posts THEN "accepted" ELSE IF k \in Conns THEN "send" ELSE "idle")

\* Seeded fault: every caller ends like a webhook request, a connection too.
RaisedToAll(k) == Drop(k) /\ Goto(k, "failed")

\* What each caller does when deliver raises.
Raised(k) ==
    /\ Drop(k)
    /\ Goto(k, IF k \in Posts THEN "failed" ELSE IF k \in Conns THEN "send" ELSE "idle")

\* One call of deliver: the sink write and, if it raises, on to write_dlq.
Deliver(k) ==
    /\ pc[k] = "write"
    /\ \E o \in WriteOutcomes :
          /\ IF Effective(o) THEN Put(k) ELSE UNCHANGED <<table, objects, written>>
          /\ IF o = "ok" THEN Delivered(k) ELSE Goto(k, "park") /\ Hold
    /\ UNCHANGED <<worldVars, seq, dlq, seen, offSince>>

\* Seeded fault: the exception is passed on without parking the message.
ParkNothing(k) ==
    /\ pc[k] = "park"
    /\ Raised(k)
    /\ UNCHANGED <<worldVars, seq, storeVars, historyVars>>

\* write_dlq inserts a row of its own, whoever the message came from; then, or
\* if the insert raises, an exception leaves deliver.
Park(k) ==
    /\ pc[k] = "park"
    /\ \E o \in Outcomes("dlq") :
          IF Effective(o)
          THEN LET d == CHOOSE n \in DlqIds :
                           /\ dlq[n].msg = NoMsg
                           /\ \A i \in 1 .. n - 1 : dlq[i].msg # NoMsg
               IN dlq' = [dlq EXCEPT ![d].msg = hand[k]]
          ELSE UNCHANGED dlq
    /\ Raised(k)
    /\ UNCHANGED <<worldVars, seq, table, objects, historyVars>>
-----------------------------------------------------------------------------
(* POST /v1/ingest/{source_id}                                             *)

Arrives(m) == IF state # "active" THEN offSince \cup {m} ELSE offSince

Post(p) ==
    /\ pc[p] = "idle"
    /\ Goto(p, "lookup")
    /\ offSince' = Arrives(p)
    /\ UNCHANGED <<worldVars, hand, seq, row, storeVars, seen, written>>

\* Seeded fault: the transport is checked and the state is not.
LookupUnchecked(p) ==
    /\ pc[p] = "lookup"
    /\ Goto(p, IF Transport = "webhook" THEN "body" ELSE "rejected")
    /\ UNCHANGED <<worldVars, hand, seq, row, storeVars, historyVars>>

\* The source row is read once, before the body.
Lookup(p) ==
    /\ pc[p] = "lookup"
    /\ Goto(p, IF Transport = "webhook" /\ state = "active" THEN "body" ELSE "rejected")
    /\ UNCHANGED <<worldVars, hand, seq, row, storeVars, historyVars>>

\* await request.json()
ReadBody(p) ==
    /\ pc[p] = "body"
    /\ \/ /\ Goto(p, "write")
          /\ hand' = [hand EXCEPT ![p] = p]
          /\ seen' = seen \cup {p}
       \/ "body" \in Faults /\ Goto(p, "failed") /\ UNCHANGED <<hand, seen>>
    /\ UNCHANGED <<worldVars, seq, row, storeVars, written, offSince>>
-----------------------------------------------------------------------------
(* The websocket /v1/ingest/ws/{source_id}                                 *)

Accept(c) ==
    /\ pc[c] = "idle"
    /\ Goto(c, "lookup")
    /\ offSince' = Arrives(c)
    /\ UNCHANGED <<worldVars, hand, seq, row, storeVars, seen, written>>

\* The only look at the source row of the connection's life.
Connect(c) ==
    /\ pc[c] = "lookup"
    /\ Goto(c, IF Transport = "websocket" /\ state = "active" THEN "receive" ELSE "gone")
    /\ UNCHANGED <<worldVars, hand, seq, row, storeVars, historyVars>>

Receive(c) ==
    /\ pc[c] = "receive" /\ seq[c] < MaxFrames
    /\ hand' = [hand EXCEPT ![c] = <<c, seq[c]>>]
    /\ seq' = [seq EXCEPT ![c] = @ + 1]
    /\ seen' = seen \cup {<<c, seq[c]>>}
    /\ Goto(c, "write")
    /\ UNCHANGED <<worldVars, row, storeVars, written, offSince>>

\* The error report; if the peer is gone the handler ends with an exception.
SendError(c) ==
    /\ pc[c] = "send"
    /\ \/ Goto(c, "receive")
       \/ "send" \in Faults /\ Goto(c, "gone")
    /\ UNCHANGED <<worldVars, hand, seq, row, storeVars, historyVars>>

\* The peer closes, or sends something that is not JSON.
Disconnect(c) ==
    /\ pc[c] = "receive"
    /\ Goto(c, "gone")
    /\ UNCHANGED <<worldVars, hand, seq, row, storeVars, historyVars>>
-----------------------------------------------------------------------------
(* POST /v1/streams/dlq/{dlq_id}/replay                                    *)

\* Seeded fault: the row is marked before the delivery.
StartReplayMarking(x) ==
    /\ pc[x] = "idle" /\ replays < MaxReplays
    /\ \E d \in DlqIds :
          /\ dlq[d].msg # NoMsg
          /\ row' = [row EXCEPT ![x] = d]
          /\ hand' = [hand EXCEPT ![x] = dlq[d].msg]
          /\ dlq' = [dlq EXCEPT ![d].replayed = TRUE]
    /\ replays' = replays + 1
    /\ Goto(x, "write")
    /\ UNCHANGED <<setup, state, clock, crashes, seq, table, objects, historyVars>>

\* Any existing row, replayed or not, whatever the state of its source.
StartReplay(x) ==
    /\ pc[x] = "idle" /\ replays < MaxReplays
    /\ \E d \in DlqIds :
          /\ dlq[d].msg # NoMsg
          /\ row' = [row EXCEPT ![x] = d]
          /\ hand' = [hand EXCEPT ![x] = dlq[d].msg]
    /\ replays' = replays + 1
    /\ Goto(x, "write")
    /\ UNCHANGED <<setup, state, clock, crashes, seq, storeVars, historyVars>>

\* row.replayed = True; commit
Mark(x) ==
    /\ pc[x] = "mark"
    /\ \E o \in Outcomes("mark") :
          dlq' = IF Effective(o) THEN [dlq EXCEPT ![row[x]].replayed = TRUE] ELSE dlq
    /\ Goto(x, "idle") /\ Drop(x)
    /\ UNCHANGED <<worldVars, seq, table, objects, historyVars>>
-----------------------------------------------------------------------------
\* ensure_postgres_landing makes the table: plain identifiers, and a hypertable by the
\* time of reception only, since SinkSpec has no extra_columns to name another.
LandingMade == setup.safe /\ (setup.hypertable => setup.time_column = "received_at")

\* POST /v1/streams: refused without a target; a landing table is made first, and the
\* request ends if that cannot be done.
Register ==
    /\ state = "absent"
    /\ setup.target
    /\ Kind = "postgres_table" => LandingMade
    /\ state' = "paused"
    /\ UNCHANGED <<setup, clock, replays, crashes, handlerVars, storeVars, historyVars>>

\* POST /v1/streams/{source_id}/state
SetState(target) ==
    /\ state \notin {"absent", target}
    /\ state' = target
    /\ offSince' = IF target = "active" THEN {} ELSE offSince
    /\ UNCHANGED <<setup, clock, replays, crashes, handlerVars, storeVars, seen, written>>

Tick ==
    /\ clock < MaxClock
    /\ clock' = clock + 1
    /\ UNCHANGED <<setup, state, replays, crashes, handlerVars, storeVars, historyVars>>

\* The process dies: every handler with it, the stores stay.
Crash ==
    /\ crashes < MaxCrashes
    /\ crashes' = crashes + 1
    /\ pc' = [k \in Callers |->
                IF k \in Replayers \/ pc[k] \in {"idle", "accepted", "failed", "rejected"}
                THEN IF k \in Replayers THEN "idle" ELSE pc[k]
                ELSE "gone"]
    /\ hand' = [k \in Callers |-> NoMsg]
    /\ row' = [x \in Replayers |-> 0]
    /\ UNCHANGED <<setup, state, clock, replays, seq, storeVars, historyVars>>

Next ==
    \/ \E k \in Callers : Deliver(k) \/ Park(k)
    \/ \E p \in Posts : Post(p) \/ Lookup(p) \/ ReadBody(p)
    \/ \E c \in Conns : Accept(c) \/ Connect(c) \/ Receive(c) \/ SendError(c) \/ Disconnect(c)
    \/ \E x \in Replayers : StartReplay(x) \/ Mark(x)
    \/ \E target \in {"active", "paused"} : SetState(target)
    \/ Register \/ Tick \/ Crash

Spec == Init /\ [][Next]_vars
-----------------------------------------------------------------------------
(* Properties.                                                             *)

\* Every object of m may have been replaced by a twin: another message written in the
\* same millisecond with the same frame number, or both without one.
Replaced(m) ==
    /\ Kind = "s3_object" /\ written[m] # {}
    /\ \A w \in written[m] : \E twin \in Msgs \ {m} : w \in written[twin]

InSink(m) == Stored(m) \/ Replaced(m)

Accepted == {p \in Posts : pc[p] = "accepted"}

\* A webhook answered with "accepted", and whatever else was written, is in the sink and
\* stays there, unless a twin took the name of its object.
OnlyTwinsReplace ==
    \A m \in Msgs : m \in Accepted \/ written[m] # {} => InSink(m)

\* The abstract specification MessageFate: only a failing dead-letter insert cuts a
\* message off.
FateOf == [m \in Msgs |->
    IF InSink(m) \/ Parked(m) THEN "kept"
    ELSE IF \E k \in Callers : hand[k] = m THEN "held"
    ELSE IF m \in seen THEN "lost" ELSE "unseen"]

CutOff == IF "dlq" \in Faults THEN {hand[k] : k \in {c \in Callers : pc[c] = "park"}} ELSE {}

Fates == INSTANCE MessageFate WITH fate <- FateOf, cut <- CutOff, life <- crashes

\* A message a handler got hold of is in its hands, in the sink or parked, and what is
\* in the sink or parked stays so; only the end of the process takes what is in hand.
FatesImplemented == Fates!Spec

\* A parked message stays open for replay until the sink has had it: a replay that
\* fails, races another one or dies half-way does not close the last row.
ParkedUntilStored ==
    \A m \in Msgs : Parked(m) =>
        InSink(m) \/ \E d \in DlqIds : dlq[d].msg = m /\ ~dlq[d].replayed

\* The state column is an on/off switch at the door: a webhook request, or a websocket
\* connection, that arrives while the source is off, and is looked at before the source
\* is on again, brings nothing into the sink or the dead letters.
Brought(k) == IF k \in Conns THEN {f \in Frames : f[1] = k} ELSE {k}

OffAtTheDoor ==
    \A k \in offSince : \A m \in Brought(k) : ~Stored(m) /\ ~Parked(m)

-----------------------------------------------------------------------------
(* What the comments promise and the code does not always do.              *)

\* "The state column is the user-facing on/off switch" (models.py): what a source that
\* is off is sent is not taken in.
OffIsOff == [][state # "active" => seen' = seen]_vars

\* "Accepted" (streams.py): a message answered like this is in the sink.
AcceptedIsStored == \A p \in Accepted : Stored(p)

\* "Delivery failure already DLQ'd" (streams.py): when the handler reports a
\* failed delivery the message is in the dead letters.
ErrorMeansParked ==
    \A c \in Conns : pc[c] = "send" => Parked(<<c, seq[c] - 1>>)

\* A prefix is optional ("prefix: str | None = None" in SinkSpec; "if prefix else base" in
\* _write_s3): as long as nothing fails, a registered source stores what it is sent.
RegisteredSinkWorks == Faults = {} => \A m \in Msgs : ~Parked(m)
=============================================================================
