---------------------------- MODULE AgentRunProofs ----------------------------
(***************************************************************************)
(* Machine-checked facts about AgentRun, for every catalog of tools, every *)
(* request, every number of turns, calls and fragments, and every set of   *)
(* faults.                                                                 *)
(***************************************************************************)
EXTENDS AgentRun, FiniteSetTheorems, TLAPS

(* The inductive invariant.  First the types, by owner.                     *)

Phases ==
    {"request", "insert", "model", "stream", "call", "replayed", "done", "persist",
     "audit", "end", "gone", "rejected"}

Called == [name : Names, args : 0 .. MaxPieces]
Messages == [role : {"user", "assistant", "tool"}, calls : Turns]
Clients == [outcome : {"waiting", "returned", "raised"},
            last : {"none", "result", "error", "done"},
            result : Results \cup {NoResult}, told : Summary]

RunType ==
    /\ body \in Bodies /\ provider \in Providers
    /\ pc \in Phases
    /\ steps \in 0 .. MaxSteps
    /\ successful \subseteq Names /\ used \subseteq Names
    /\ audits \in {0, 1}

TalkType ==
    /\ calls \in Turns
    /\ messages \in Seq(Messages)
    /\ transcript \in Seq(Turns)

OutType == row \in Summary /\ emitted \in Summary /\ client \in Clients

ResultType == objects \subseteq Results /\ noted \subseteq Results

\* What the stream has gathered is what the model has said.
Gathered ==
    /\ stream.said \in Slots /\ stream.slots \in Slots
    /\ pc \notin {"stream", "gone"} => stream = NoStream
    /\ stream.slots = IF Adapter(provider) = "openai" THEN stream.said ELSE <<>>

\* Where the loop is: a turn left before the model is asked, a call left before one is
\* dispatched, every turn in the transcript but the one that is streamed, and an adapter
\* to ask.
Place ==
    /\ messages # <<>>
    /\ pc = "model" => steps < MaxSteps
    /\ pc \in {"insert", "request"} => steps = 0
    /\ pc = "stream" => steps > 0
    /\ pc \in {"call", "replayed"} => calls # <<>>
    /\ pc \in {"request", "insert", "model", "call", "replayed", "done"} =>
          Len(transcript) = steps
    /\ pc = "stream" => Len(transcript) = steps - 1
    /\ pc \notin {"request", "rejected"} => provider # "none"

\* Results are numbered in the order of their creation, and every one belongs to a call.
Numbered ==
    LET n == Cardinality(objects) IN
    /\ n \in Nat /\ objects = 1 .. n
    /\ n <= CASE pc = "stream" -> (steps - 1) * MaxCalls
              [] pc = "call" -> steps * MaxCalls - Len(calls)
              [] pc = "replayed" -> steps * MaxCalls - Len(calls) + 1
              [] OTHER -> steps * MaxCalls

\* A replay that has stored its result still is the call in hand.
Replaying == pc = "replayed" => Head(calls) = Replay /\ Replay \in used /\ objects # {}

\* What the client took for a result was announced by a replay that succeeded.
Announced ==
    /\ Replay \in successful => client.result # NoResult
    /\ client.result # NoResult => client.result \in objects \cap noted

\* The summary of a run is made at its end and tells all of it; the client and the row
\* have it from there.
Summarized ==
    /\ pc \in {"request", "insert", "model", "stream", "call", "replayed"} => emitted = NoRow
    /\ pc \in {"request", "insert", "model", "stream", "call", "replayed", "done"} =>
          client.told = NoRow
    /\ emitted.status \in {"done", "aborted"} =>
          emitted.steps = steps /\ emitted.transcript = transcript /\ Len(transcript) = steps
    /\ emitted.status = "done" => Required \subseteq successful
    /\ client.told \in {NoRow, emitted}
    /\ row \in {NoRow, [NoRow EXCEPT !.status = "running"], emitted}
    /\ pc \in {"audit", "end"} /\ emitted # NoRow => row = emitted

\* Calls are left over only by a run that was broken off, and its summary says so.
BrokenOff ==
    /\ pc \in {"request", "insert", "model", "stream", "done"} => calls = <<>>
    /\ pc \in {"persist", "audit", "end"} /\ calls # <<>> => emitted.status = "failed"

IInv ==
    /\ RunType /\ TalkType /\ OutType /\ ResultType
    /\ Gathered /\ Place /\ Numbered /\ Replaying /\ Announced /\ Summarized
    /\ BrokenOff

\* The conversation: every message but the last is in order, and the last one asks
\* for the calls that are being made.
InOrder(i) ==
    /\ Asks(messages[i]) # <<>> =>
          /\ i < Len(messages) /\ messages[i + 1].role = "tool"
          /\ messages[i + 1].calls = messages[i].calls
    /\ messages[i].role = "tool" =>
          i > 1 /\ messages[i - 1].role = "assistant" /\ messages[i - 1].calls = messages[i].calls
    /\ Range(Answers(messages[i])) \cap Offered \subseteq used

Conversation ==
    /\ pc \in {"request", "insert", "model", "stream", "done"} =>
          \A i \in 1 .. Len(messages) : InOrder(i)
    /\ pc \in {"call", "replayed"} =>
          /\ \A i \in 1 .. Len(messages) - 1 : InOrder(i)
          /\ Last(messages).role = "assistant"
          /\ Range(Last(messages).calls) \cap Offered \subseteq used \cup Range(calls)
-----------------------------------------------------------------------------
(* Sequences of bounded length, and the room there is for results.          *)

LEMMA BoundedSequence ==
  ASSUME NEW S, NEW n \in Nat, NEW s
  PROVE  s \in BoundedSeq(S, n) <=> s \in Seq(S) /\ Len(s) <= n
<1>1. ASSUME s \in BoundedSeq(S, n)
      PROVE  s \in Seq(S) /\ Len(s) <= n
  <2>1. PICK m \in 0 .. n : s \in [1 .. m -> S]
    BY <1>1 DEF BoundedSeq, SeqOf
  <2>2. s \in Seq(S) /\ Len(s) = m
    BY <2>1
  <2> QED
    BY <2>2
<1>2. ASSUME s \in Seq(S), Len(s) <= n
      PROVE  s \in BoundedSeq(S, n)
  <2>1. Len(s) \in 0 .. n /\ s \in [1 .. Len(s) -> S]
    BY <1>2
  <2> QED
    BY <2>1 DEF BoundedSeq, SeqOf
<1> QED
  BY <1>1, <1>2

LEMMA Bounds ==
  /\ MaxSteps \in Nat \ {0} /\ MaxCalls \in Nat \ {0} /\ MaxPieces \in Nat \ {0}
  /\ \A s : s \in Turns <=> s \in Seq(Names) /\ Len(s) <= MaxCalls
  /\ \A s : s \in Slots <=> s \in Seq(Called) /\ Len(s) <= MaxCalls
  /\ <<>> \in Turns /\ <<>> \in Slots
<1>1. MaxSteps \in Nat \ {0} /\ MaxCalls \in Nat \ {0} /\ MaxPieces \in Nat \ {0}
  BY BoundsAssumption
<1>2. \A s : s \in Turns <=> s \in Seq(Names) /\ Len(s) <= MaxCalls
  BY <1>1, BoundedSequence DEF Turns
<1>3. \A s : s \in Slots <=> s \in Seq(Called) /\ Len(s) <= MaxCalls
  BY <1>1, BoundedSequence DEF Slots, Called
<1>4. <<>> \in Seq(Names) /\ <<>> \in Seq(Called) /\ Len(<<>>) = 0
  OBVIOUS
<1>5. Len(<<>>) <= MaxCalls
  BY <1>1, <1>4
<1>6. <<>> \in Turns /\ <<>> \in Slots
  BY <1>2, <1>3, <1>4, <1>5, Zenon
<1> QED
  BY <1>1, <1>2, <1>3, <1>6

LEMMA AppendIsSome ==
  ASSUME NEW S, NEW s \in Seq(S), NEW m
  PROVE  Append(s, m) # <<>>
<1>1. Len(Append(s, m)) = Len(s) + 1 /\ Len(s) \in Nat /\ Len(<<>>) = 0
  OBVIOUS
<1> QED
  BY <1>1

LEMMA TailOfTurn ==
  ASSUME NEW turn \in Turns, turn # <<>>
  PROVE  /\ Head(turn) \in Names /\ Tail(turn) \in Turns
         /\ Len(turn) \in Nat /\ Len(turn) > 0 /\ Len(Tail(turn)) = Len(turn) - 1
         /\ Len(turn) <= MaxCalls
         /\ Range(turn) \subseteq {Head(turn)} \cup Range(Tail(turn))
         /\ Len(turn) = 1 => Tail(turn) = <<>>
<1>1. turn \in Seq(Names) /\ Len(turn) <= MaxCalls
  BY Bounds
<1>2. /\ Head(turn) \in Names /\ Tail(turn) \in Seq(Names) /\ Len(turn) \in Nat /\ Len(turn) > 0
      /\ Len(Tail(turn)) = Len(turn) - 1 /\ Head(turn) = turn[1]
      /\ \A i \in 1 .. Len(turn) - 1 : Tail(turn)[i] = turn[i + 1]
  BY <1>1
<1>3. Tail(turn) \in Turns
  <2>1. Len(Tail(turn)) <= MaxCalls
    BY <1>1, <1>2, Bounds
  <2> QED
    BY <1>2, <2>1, Bounds
<1>4. ASSUME NEW i \in DOMAIN turn
      PROVE  turn[i] \in {Head(turn)} \cup Range(Tail(turn))
  <2>1. i \in 1 .. Len(turn) /\ DOMAIN Tail(turn) = 1 .. Len(turn) - 1
    BY <1>1, <1>2
  <2>2. CASE i = 1
    BY <1>2, <2>2
  <2>3. CASE i # 1
    <3>1. i - 1 \in DOMAIN Tail(turn) /\ Tail(turn)[i - 1] = turn[i]
      BY <1>2, <2>1, <2>3
    <3> QED
      BY <3>1 DEF Range
  <2> QED
    BY <2>2, <2>3
<1>5. Len(turn) = 1 => Tail(turn) = <<>>
  <2>1. \A s \in Seq(Names) : Len(s) = 0 => s = <<>>
    OBVIOUS
  <2>2. Len(turn) = 1 => Len(Tail(turn)) = 0
    BY <1>2
  <2> QED
    BY <1>2, <2>1, <2>2
<1> QED
  BY <1>1, <1>2, <1>3, <1>4, <1>5 DEF Range

LEMMA Room ==
  /\ \A s \in Nat : s * MaxCalls \in Nat /\ (s + 1) * MaxCalls = s * MaxCalls + MaxCalls
  /\ \A s \in 0 .. MaxSteps : s * MaxCalls <= MaxSteps * MaxCalls
<1> USE Bounds
<1>1. \A s, t \in Nat : s * MaxCalls \in Nat /\ (s + t) * MaxCalls = s * MaxCalls + t * MaxCalls
  OBVIOUS
<1>2. ASSUME NEW s \in 0 .. MaxSteps
      PROVE  s * MaxCalls <= MaxSteps * MaxCalls
  <2>1. (s + (MaxSteps - s)) * MaxCalls = s * MaxCalls + (MaxSteps - s) * MaxCalls
    BY <1>1
  <2>2. s * MaxCalls \in Nat /\ (MaxSteps - s) * MaxCalls \in Nat
    BY <1>1
  <2>3. s + (MaxSteps - s) = MaxSteps
    OBVIOUS
  <2> QED
    BY <2>1, <2>2, <2>3
<1> QED
  BY <1>1, <1>2

LEMMA Initially == Init => IInv /\ Conversation
<1> SUFFICES ASSUME Init PROVE IInv /\ Conversation
  OBVIOUS
<1> USE Bounds DEF Init
<1>1. RunType /\ TalkType
  BY DEF RunType, TalkType, Phases, Messages
<1>2. NoRow \in Summary
  BY DEF NoRow, Summary
<1>3. OutType /\ ResultType
  BY <1>2 DEF OutType, Clients, ResultType
<1>4. Gathered
  BY DEF Gathered, NoStream
<1>5. Numbered
  BY FS_EmptySet DEF Numbered
<1>6. Place /\ Replaying /\ Announced
  BY DEF Place, Replaying, Announced, NoResult
<1>7. Summarized /\ BrokenOff
  BY DEF Summarized, BrokenOff, NoRow
<1>8. Conversation
  BY DEF Conversation, InOrder, Asks, Answers, Range, Last
<1> QED
  BY <1>1, <1>3, <1>4, <1>5, <1>6, <1>7, <1>8 DEF IInv
-----------------------------------------------------------------------------
(* The stream.                                                              *)

LEMMA SaidIsYielded ==
  ASSUME Gathered
  PROVE  Yielded(provider, stream.said, stream.slots) = stream.said
<1>1. CASE Adapter(provider) = "anthropic"
  BY <1>1 DEF Yielded
<1>2. CASE Adapter(provider) = "openai"
  <2>1. stream.slots = stream.said /\ stream.said \in Seq(Called)
    BY <1>2, Bounds DEF Gathered
  <2>2. [k \in 1 .. Len(stream.said) |-> stream.said[k]] = stream.said
    BY <2>1
  <2> QED
    BY <1>2, <2>1, <2>2 DEF Yielded
<1> QED
  BY <1>1, <1>2 DEF Adapter

\* The fragments of a call, whatever calls the fragments between them belong to, add up
\* in the slot of its index to what the model says.
LEMMA OneMorePiece ==
  ASSUME NEW c \in Called, c.args < MaxPieces
  PROVE  LET more == [name |-> c.name, args |-> c.args + 1] IN
         more \in Called /\ [c EXCEPT !.args = @ + 1] = more
  BY BoundsAssumption DEF Called

LEMMA GatherIsSaid ==
  ASSUME stream.said \in Slots, NEW f \in Fragments
  PROVE  Said(f) \in Slots /\ Gather(stream.said, f) = Said(f)
<1> USE Bounds, ToolsAssumption
<1> DEFINE said == stream.said
           n == Len(said)
<1>0. said \in Seq(Called) /\ n \in Nat /\ n <= MaxCalls
  OBVIOUS
<1>1. CASE f \in [index : {n + 1}, name : Names, args : 0 .. 1] /\ n < MaxCalls
  <2>1. f.index = n + 1 /\ f.name \in Names /\ f.args \in 0 .. 1 /\ f.name # NoName
    BY <1>1 DEF Names
  <2> DEFINE new == [name |-> f.name, args |-> f.args]
  <2>2. Said(f) = Append(said, new)
    BY <2>1 DEF Said
  <2>3. new \in Called
    BY <2>1 DEF Called
  <2>4. f.index \notin DOMAIN said /\ DOMAIN said = 1 .. n
    BY <1>0, <2>1
  <2>5. 0 + f.args = f.args /\ (1 .. n) \cup {n + 1} = 1 .. n + 1
    BY <1>0, <2>1
  <2>6. Gather(said, f) = [i \in 1 .. n + 1 |-> IF i = n + 1 THEN new ELSE said[i]]
    BY <2>1, <2>4, <2>5 DEF Gather, NewSlot
  <2>7. Append(said, new) = [i \in 1 .. n + 1 |-> IF i = n + 1 THEN new ELSE said[i]]
    BY <1>0, <2>3
  <2>8. Append(said, new) \in Seq(Called) /\ Len(Append(said, new)) = n + 1
    <3> HIDE DEF new, n
    <3> QED
      BY <1>0, <2>3 DEF n
  <2>9. Append(said, new) \in Slots
    <3>1. Len(Append(said, new)) <= MaxCalls
      BY <1>0, <1>1, <2>8
    <3> QED
      BY <2>8, <3>1
  <2> QED
    BY <2>2, <2>6, <2>7, <2>9
<1>2. CASE f \in [index : {i \in 1 .. n : said[i].args < MaxPieces}, name : {NoName}, args : {1}]
  <2>1. f.index \in 1 .. n /\ said[f.index].args < MaxPieces /\ f.name = NoName /\ f.args = 1
    BY <1>2
  <2> DEFINE old == said[f.index]
             more == [name |-> old.name, args |-> old.args + 1]
  <2>2. old \in Called /\ old.args < MaxPieces
    BY <1>0, <2>1
  <2>3. more \in Called /\ [old EXCEPT !.args = @ + 1] = more
    <3> HIDE DEF old
    <3> QED
      BY <2>1, <2>2, OneMorePiece
  <2>4. Said(f) = [said EXCEPT ![f.index] = more]
    BY <2>1, <2>3 DEF Said
  <2>5. DOMAIN said = 1 .. n /\ (1 .. n) \cup {f.index} = 1 .. n
    BY <1>0, <2>1
  <2>6. Gather(said, f) = [i \in 1 .. n |-> IF i = f.index THEN more ELSE said[i]]
    BY <2>1, <2>5 DEF Gather
  <2> HIDE DEF more, n
  <2>7. [said EXCEPT ![f.index] = more] = [i \in 1 .. n |-> IF i = f.index THEN more ELSE said[i]]
    BY <2>5
  <2>8. [said EXCEPT ![f.index] = more] \in Seq(Called) /\ Len([said EXCEPT ![f.index] = more]) = n
    BY <1>0, <2>1, <2>3 DEF n
  <2> QED
    BY <1>0, <2>4, <2>6, <2>7, <2>8
<1> QED
  BY <1>1, <1>2 DEF Fragments
-----------------------------------------------------------------------------
(* What a step of the loop is.                                              *)

\* The stream ends in a turn that asks for what was said.
TurnOf(asked) ==
    /\ pc = "stream" /\ asked \in Turns
    /\ transcript' = Append(transcript, asked)
    /\ TurnWithCalls(asked) \/ TurnWithoutCalls(asked)
    /\ stream' = NoStream
    /\ UNCHANGED <<body, provider, row, steps, successful, dataVars, audits, client>>

\* A call has returned, with anything but a retrieval for the client to take.
Returns(ok) ==
    /\ pc \in {"call", "replayed"}
    /\ Answer(ok, Hear("result"))
    /\ objects' = objects /\ noted \subseteq noted' /\ noted' \subseteq noted \cup objects
    /\ used' \in {used, used \cup {Head(calls)}}
    /\ Head(calls) \in Offered => Head(calls) \in used'
    /\ ok => Head(calls) # Replay

\* A replay has returned its result.
Delivers ==
    /\ pc = "replayed"
    /\ Answer(TRUE, HearResult(Cardinality(objects)))
    /\ noted' = noted \cup {Cardinality(objects)}
    /\ UNCHANGED <<objects, used>>

\* A replay has stored its result.
Stores ==
    /\ pc = "call" /\ pc' = "replayed" /\ Head(calls) = Replay
    /\ used' = used \cup {Replay}
    /\ objects' = objects \cup {Cardinality(objects) + 1}
    /\ UNCHANGED <<still, row, loopVars, emitted, audits, client, noted>>

LEMMA TurnKinds ==
  ASSUME IInv, Turn
  PROVE  \E asked : TurnOf(asked)
<1> DEFINE yielded == Yielded(provider, stream.said, stream.slots)
           asked == [k \in DOMAIN yielded |-> yielded[k].name]
<1>1. yielded \in Seq(Called) /\ Len(yielded) <= MaxCalls
  BY SaidIsYielded, Bounds DEF IInv, Gathered
<1>2. asked \in Turns
  <2>1. asked \in [1 .. Len(yielded) -> Names]
    <3> HIDE DEF yielded
    <3>1. DOMAIN yielded = 1 .. Len(yielded) /\ \A k \in 1 .. Len(yielded) : yielded[k] \in Called
      BY <1>1
    <3>2. \A c \in Called : c.name \in Names
      BY DEF Called
    <3> QED
      BY <3>1, <3>2
  <2>2. asked \in Seq(Names) /\ Len(asked) = Len(yielded)
    <3> HIDE DEF asked, yielded
    <3> QED
      BY <1>1, <2>1
  <2> QED
    BY <1>1, <2>2, Bounds
<1>3. TurnOf(asked)
  BY <1>2 DEF Turn, TurnOf
<1> QED
  BY <1>3

LEMMA CallKinds ==
  ASSUME IInv, Call
  PROVE  CallRaises \/ Stores \/ Delivers \/ \E ok \in BOOLEAN : Returns(ok)
<1> USE ToolsAssumption DEF IInv
<1>1. CASE CallNotOffered
  <2>1. Returns(FALSE)
    BY <1>1 DEF CallNotOffered, Dispatching, Returns, dataVars
  <2> QED
    BY <2>1
<1>2. ASSUME CallLocal \/ CallRemote \/ CallRoute
      PROVE  \E ok \in BOOLEAN : Returns(ok)
  <2>1. PICK ok \in BOOLEAN : Answer(ok, Hear("result"))
    BY <1>2 DEF CallLocal, CallRemote, CallRoute
  <2>2. Head(calls) # Replay /\ pc = "call"
    BY <1>2 DEF CallLocal, CallRemote, CallRoute, Dispatching
  <2>3. used' = used \cup {Head(calls)} /\ UNCHANGED <<objects, noted>>
    BY <1>2 DEF CallLocal, CallRemote, CallRoute
  <2>4. Returns(ok)
    BY <2>1, <2>2, <2>3 DEF Returns
  <2> QED
    BY <2>4
<1>3. CASE CallReplay
  <2>1. pc = "call" /\ Head(calls) = Replay /\ used' = used \cup {Replay} /\ UNCHANGED noted
    BY <1>3 DEF CallReplay, Dispatching
  <2>2. CASE Answer(FALSE, Hear("result")) /\ UNCHANGED objects
    <3>1. Returns(FALSE)
      BY <2>1, <2>2 DEF Returns
    <3> QED
      BY <3>1
  <2>3. CASE ~(Answer(FALSE, Hear("result")) /\ UNCHANGED objects)
    BY <1>3, <2>1, <2>3 DEF CallReplay, Stores
  <2> QED
    BY <2>2, <2>3
<1>4. CASE RecordReplay
  <2> DEFINE n == Cardinality(objects)
  <2>1. PICK o \in Outcomes("tool_audit") :
          /\ noted' = IF Effective(o) THEN noted \cup {n} ELSE noted
          /\ IF o = "ok" THEN Answer(TRUE, HearResult(n)) ELSE Answer(FALSE, Hear("result"))
    BY <1>4 DEF RecordReplay
  <2>2. pc = "replayed" /\ UNCHANGED <<objects, used>>
    BY <1>4 DEF RecordReplay
  <2>3. Head(calls) = Replay /\ Replay \in used
    BY <2>2 DEF Replaying
  <2>4. n \in objects
    <3>1. objects = 1 .. n /\ n \in Nat
      BY DEF Numbered
    <3>2. n # 0
      BY <2>2, <3>1 DEF Replaying
    <3> QED
      BY <3>1, <3>2
  <2>5. CASE o = "ok"
    BY <2>1, <2>2, <2>5 DEF Delivers, Effective
  <2>6. CASE o # "ok"
    <3>1. Returns(FALSE)
      BY <2>1, <2>2, <2>3, <2>4, <2>6 DEF Returns
    <3> QED
      BY <3>1
  <2> QED
    BY <2>5, <2>6
<1> QED
  BY <1>1, <1>2, <1>3, <1>4 DEF Call
-----------------------------------------------------------------------------
(* The types are kept.                                                      *)

LEMMA RunTypeStep ==
  ASSUME IInv, [Next]_vars
  PROVE  RunType'
<1> USE Bounds, ToolsAssumption DEF IInv, RunType, Phases
<1>1. CASE Request \/ Insert \/ Done \/ Persist \/ Audit \/ Abandon
  BY <1>1 DEF Request, Insert, Done, Persist, Audit, Abandon, still, loopVars, dataVars
<1>2. CASE Ask \/ Fragment \/ TurnFails
  BY <1>2 DEF Ask, Fragment, TurnFails, still, loopVars, dataVars, Place
<1>3. ASSUME NEW asked, TurnOf(asked)
      PROVE  RunType'
  BY <1>3 DEF TurnOf, TurnWithCalls, TurnWithoutCalls, LoopTop, dataVars
<1>4. Head(calls) \in Names \/ calls = <<>>
  BY DEF TalkType
<1>5. ASSUME NEW ok \in BOOLEAN, Returns(ok)
      PROVE  RunType'
  <2>1. calls # <<>>
    BY <1>5 DEF Returns, Place
  <2> QED
    BY <1>4, <1>5, <2>1 DEF Returns, Answer, LoopTop, still
<1>6. CASE Delivers
  <2>1. calls # <<>>
    BY <1>6 DEF Delivers, Place
  <2> QED
    BY <1>4, <1>6, <2>1 DEF Delivers, Answer, LoopTop, still
<1>7. CASE Stores
  BY <1>7 DEF Stores, still, loopVars, Names
<1>8. CASE CallRaises
  BY <1>8 DEF CallRaises, Dispatching, still, loopVars, Names
<1>9. CASE UNCHANGED vars
  BY <1>9 DEF vars, still, loopVars, dataVars
<1> QED
  BY <1>1, <1>2, <1>3, <1>5, <1>6, <1>7, <1>8, <1>9, TurnKinds, CallKinds DEF Next, ServerStep

LEMMA TalkTypeStep ==
  ASSUME IInv, [Next]_vars
  PROVE  TalkType'
<1> USE DEF IInv, TalkType
<1>1. ASSUME UNCHANGED loopVars \/ UNCHANGED <<calls, successful, messages, transcript>>
      PROVE  TalkType'
  BY <1>1 DEF loopVars
<1>2. ASSUME NEW asked, TurnOf(asked)
      PROVE  TalkType'
  <2>1. asked \in Turns
    BY <1>2 DEF TurnOf
  <2>2. transcript' \in Seq(Turns)
    BY <1>2, <2>1 DEF TurnOf
  <2>3. calls' \in Turns
    BY <1>2, <2>1 DEF TurnOf, TurnWithCalls, TurnWithoutCalls
  <2>4. /\ [role |-> "assistant", calls |-> asked] \in Messages
        /\ [role |-> "user", calls |-> <<>>] \in Messages
    BY <2>1, Bounds DEF Messages
  <2>5. messages' \in Seq(Messages)
    <3>1. \/ messages' = messages
          \/ messages' = Append(messages, [role |-> "assistant", calls |-> asked])
          \/ messages' = Append(messages, [role |-> "user", calls |-> <<>>])
      BY <1>2 DEF TurnOf, TurnWithCalls, TurnWithoutCalls
    <3>2. \A m \in Messages : Append(messages, m) \in Seq(Messages)
      <4> HIDE DEF Messages
      <4> QED
        OBVIOUS
    <3> QED
      BY <2>4, <3>1, <3>2, Zenon
  <2> QED
    BY <2>2, <2>3, <2>5
<1>3. ASSUME NEW ok \in BOOLEAN, NEW heard, Answer(ok, heard), pc \in {"call", "replayed"}
      PROVE  TalkType'
  <2>1. calls # <<>> /\ calls' = Tail(calls)
    BY <1>3 DEF Answer, Place
  <2>2. calls' \in Turns
    BY <2>1, TailOfTurn
  <2>3. Last(messages) \in Messages
    BY DEF Last, Place
  <2>4. [role |-> "tool", calls |-> Last(messages).calls] \in Messages
    BY <2>3 DEF Messages
  <2>5. messages' = messages \/ messages' = Append(messages, [role |-> "tool", calls |-> Last(messages).calls])
    BY <1>3 DEF Answer
  <2>6. transcript' = transcript
    BY <1>3 DEF Answer
  <2> QED
    BY <2>2, <2>4, <2>5, <2>6
<1>4. CASE UNCHANGED vars
  BY <1>1, <1>4 DEF vars
<1> QED
  BY <1>1, <1>2, <1>3, <1>4, TurnKinds, CallKinds
  DEF Next, ServerStep, Request, Insert, Ask, Fragment, TurnFails, CallRaises, Stores, Delivers,
      Returns, Done, Persist, Audit, Abandon

\* A step to the end of the run makes a summary of it.
LEMMA SummaryMade ==
  ASSUME IInv, NEW status \in {"done", "aborted"}, transcript' \in Seq(Turns)
  PROVE  [status |-> status, steps |-> steps, transcript |-> transcript'] \in Summary
  BY DEF Summary, IInv, RunType

LEMMA OutTypeStep ==
  ASSUME IInv, [Next]_vars
  PROVE  OutType'
<1> USE DEF IInv, OutType
<1>1. NoRow \in Summary /\ [NoRow EXCEPT !.status = "running"] \in Summary
      /\ [status |-> "failed", steps |-> 0, transcript |-> <<>>] \in Summary
  <2>1. <<>> \in Seq(Turns) /\ 0 \in 0 .. MaxSteps
    BY Bounds
  <2>2. [NoRow EXCEPT !.status = "running"] = [status |-> "running", steps |-> 0, transcript |-> <<>>]
    BY DEF NoRow
  <2>3. \A status \in {"none", "running", "failed"} :
          [status |-> status, steps |-> 0, transcript |-> <<>>] \in Summary
    BY <2>1, Zenon DEF Summary
  <2> QED
    BY <2>2, <2>3 DEF NoRow
<1>2. row' \in Summary
  <2>1. row' = row \/ row' = [NoRow EXCEPT !.status = "running"] \/ row' = emitted
    BY TurnKinds, CallKinds DEF Next, ServerStep, Request, Insert, Ask, Fragment, TurnFails,
       CallRaises, Stores, Delivers, Returns, Answer, Done, Persist, Audit, Abandon, TurnOf, vars
  <2> QED
    BY <1>1, <2>1
<1>3. emitted' \in Summary
  <2>1. transcript' \in Seq(Turns)
    BY TalkTypeStep DEF TalkType
  <2>2. \/ emitted' = emitted
        \/ emitted' = [status |-> "failed", steps |-> 0, transcript |-> <<>>]
        \/ \E status \in {"done", "aborted"} :
              emitted' = [status |-> status, steps |-> steps, transcript |-> transcript']
    BY TurnKinds, CallKinds DEF Next, ServerStep, Request, Insert, Ask, Fragment, TurnFails,
       CallRaises, Stores, Delivers, Returns, Answer, Done, Persist, Audit, Abandon, TurnOf,
       TurnWithCalls, TurnWithoutCalls, LoopTop, vars
  <2> QED
    BY <1>1, <2>1, <2>2, SummaryMade
<1>4. client' \in Clients
  <2>1. \/ client' = client \/ client' = StreamBreaks \/ client' = Hear("error")
        \/ client' = Hear("result") \/ client' = HearDone(emitted) \/ client' = StreamEnds
        \/ pc = "replayed" /\ client' = HearResult(Cardinality(objects))
    BY TurnKinds, CallKinds DEF Next, ServerStep, Request, Insert, Ask, Fragment, TurnFails,
       CallRaises, Stores, Delivers, Returns, Answer, Done, Persist, Audit, Abandon, TurnOf, vars
  <2>2. pc = "replayed" => Cardinality(objects) \in Results
    BY DEF Numbered, Replaying, ResultType
  <2> QED
    BY <2>1, <2>2 DEF Clients, StreamBreaks, Hear, HearDone, HearResult, StreamEnds
<1> QED
  BY <1>2, <1>3, <1>4
-----------------------------------------------------------------------------
(* Where the loop is, and how many results there can be by then.            *)

LEMMA Limit ==
  ASSUME IInv
  PROVE  /\ Cardinality(objects) \in Nat /\ steps * MaxCalls \in Nat
         /\ (steps + 1) * MaxCalls = steps * MaxCalls + MaxCalls
         /\ (steps - 1) * MaxCalls = steps * MaxCalls - MaxCalls
         /\ Len(calls) \in Nat /\ Len(calls) <= MaxCalls
         /\ pc \in {"call", "replayed"} => Len(calls) > 0
         /\ Cardinality(objects) <= steps * MaxCalls
<1> USE Bounds DEF IInv
<1>1. steps \in Nat /\ Cardinality(objects) \in Nat
  BY DEF RunType, Numbered
<1>2. steps * MaxCalls \in Nat /\ (steps + 1) * MaxCalls = steps * MaxCalls + MaxCalls
  BY <1>1, Room
<1>3. (steps - 1) * MaxCalls = steps * MaxCalls - MaxCalls
  BY <1>1
<1>4. Len(calls) \in Nat /\ Len(calls) <= MaxCalls
  BY DEF TalkType
<1>5. pc \in {"call", "replayed"} => Len(calls) > 0
  BY TailOfTurn DEF TalkType, Place
<1>6. Cardinality(objects) <= steps * MaxCalls
  BY <1>1, <1>2, <1>3, <1>4, <1>5 DEF Numbered
<1> QED
  BY <1>1, <1>2, <1>3, <1>4, <1>5, <1>6

\* A turn is left before the model is asked, a call before one is dispatched.
LEMMA PlaceStep ==
  ASSUME IInv, [Next]_vars
  PROVE  Place'
<1> USE Bounds DEF IInv, Place
<1>1. CASE Request \/ Insert \/ Done \/ Persist \/ Audit \/ Abandon
  BY <1>1 DEF Request, Insert, Done, Persist, Audit, Abandon, still, loopVars, dataVars
<1>2. CASE Ask \/ Fragment \/ TurnFails
  BY <1>2 DEF Ask, Fragment, TurnFails, still, loopVars, dataVars, RunType
<1>3. ASSUME NEW asked, TurnOf(asked)
      PROVE  Place'
  <2>1. steps \in Nat /\ steps > 0 /\ Len(transcript) = steps - 1 /\ steps' = steps
    BY <1>3 DEF TurnOf, RunType
  <2>2. Len(transcript') = steps
    <3>1. transcript \in Seq(Turns) /\ asked \in Turns /\ transcript' = Append(transcript, asked)
      BY <1>3 DEF TurnOf, TalkType
    <3>2. Len(Append(transcript, asked)) = Len(transcript) + 1
      BY <3>1
    <3> QED
      BY <2>1, <3>1, <3>2
  <2>3. messages' # <<>>
    <3>1. \A m : Append(messages, m) # <<>>
      BY AppendIsSome DEF TalkType
    <3> QED
      BY <1>3, <3>1 DEF TurnOf, TurnWithCalls, TurnWithoutCalls
  <2>4. pc' = "model" => steps < MaxSteps
    BY <1>3 DEF TurnOf, TurnWithCalls, TurnWithoutCalls, LoopTop
  <2>5. pc' \in {"call", "model", "done"} /\ (pc' = "call" => calls' # <<>>)
    BY <1>3 DEF TurnOf, TurnWithCalls, TurnWithoutCalls, LoopTop
  <2>6. provider' = provider /\ provider # "none"
    BY <1>3 DEF TurnOf
  <2> QED
    BY <2>1, <2>2, <2>3, <2>4, <2>5, <2>6
<1>4. ASSUME NEW ok \in BOOLEAN, NEW heard, Answer(ok, heard), pc \in {"call", "replayed"}
      PROVE  Place'
  <2>1. Len(transcript') = steps /\ steps' = steps
    BY <1>4 DEF Answer
  <2>2. messages' # <<>>
    <3>1. \A m : Append(messages, m) # <<>>
      BY AppendIsSome DEF TalkType
    <3> QED
      BY <1>4, <3>1 DEF Answer
  <2>3. pc' = "model" => steps < MaxSteps
    BY <1>4 DEF Answer, LoopTop
  <2>4. pc' \in {"call", "model", "done"}
    BY <1>4 DEF Answer, LoopTop
  <2>5. pc' = "call" => calls' # <<>>
    <3>1. calls \in Turns /\ calls # <<>> /\ calls' = Tail(calls)
      BY <1>4 DEF Answer, TalkType
    <3>2. pc' = "call" => Len(calls) > 1
      BY <1>4 DEF Answer, LoopTop
    <3>3. Len(calls) > 1 => Len(Tail(calls)) > 0
      BY <3>1, TailOfTurn
    <3> QED
      BY <3>1, <3>2, <3>3
  <2>6. provider' = provider /\ provider # "none"
    BY <1>4 DEF Answer, still
  <2> QED
    BY <2>1, <2>2, <2>3, <2>4, <2>5, <2>6
<1>5. CASE Stores \/ CallRaises
  BY <1>5 DEF Stores, CallRaises, Dispatching, still, loopVars
<1>6. CASE UNCHANGED vars
  BY <1>6 DEF vars, still, loopVars
<1>7. CASE Delivers \/ \E ok \in BOOLEAN : Returns(ok)
  BY <1>4, <1>7 DEF Delivers, Returns
<1> QED
  BY <1>1, <1>2, <1>3, <1>5, <1>6, <1>7, TurnKinds, CallKinds DEF Next, ServerStep

LEMMA NumberedStep ==
  ASSUME IInv, [Next]_vars
  PROVE  Numbered'
<1> DEFINE n == Cardinality(objects)
<1> USE Bounds, Limit DEF IInv
<1>0. n \in Nat /\ objects = 1 .. n /\ steps \in Nat
  BY DEF Numbered, RunType
<1>1. ASSUME objects' = objects, n <= IF pc' = "stream" THEN (steps' - 1) * MaxCalls
                                 ELSE IF pc' = "call" THEN steps' * MaxCalls - Len(calls')
                                 ELSE steps' * MaxCalls,
             pc' # "replayed"
      PROVE  Numbered'
  BY <1>0, <1>1 DEF Numbered
<1>2. CASE Request \/ Insert \/ Done \/ Persist \/ Audit \/ Abandon
  <2>1. objects' = objects /\ steps' = steps /\ pc' \notin {"stream", "call", "replayed"}
    BY <1>2 DEF Request, Insert, Done, Persist, Audit, Abandon, loopVars, dataVars
  <2> QED
    BY <1>1, <2>1
<1>3. CASE Ask
  <2>1. objects' = objects /\ steps' = steps + 1 /\ pc' \in {"stream", "persist"}
    BY <1>3 DEF Ask, dataVars
  <2>2. (steps' - 1) * MaxCalls = steps * MaxCalls
    BY <1>0, <2>1
  <2>3. n <= (steps + 1) * MaxCalls
    BY <1>0
  <2> QED
    BY <1>1, <2>1, <2>2, <2>3
<1>4. CASE Fragment \/ TurnFails
  <2>1. /\ objects' = objects /\ steps' = steps /\ pc = "stream"
        /\ pc' \in {"stream", "persist"}
    BY <1>4 DEF Fragment, TurnFails, loopVars, dataVars
  <2>2. n <= (steps - 1) * MaxCalls
    BY <2>1 DEF Numbered
  <2> QED
    BY <1>1, <2>1, <2>2
<1>5. ASSUME NEW asked, TurnOf(asked)
      PROVE  Numbered'
  <2>1. objects' = objects /\ steps' = steps /\ pc = "stream"
    BY <1>5 DEF TurnOf, dataVars
  <2>2. pc' \in {"call", "model", "done"} /\ (pc' = "call" => calls' = asked)
    BY <1>5 DEF TurnOf, TurnWithCalls, TurnWithoutCalls, LoopTop
  <2>3. asked \in Turns /\ Len(asked) \in Nat /\ Len(asked) <= MaxCalls
    BY <1>5 DEF TurnOf
  <2>4. n <= steps * MaxCalls - MaxCalls
    BY <2>1 DEF Numbered
  <2>5. n <= steps * MaxCalls - Len(asked)
    BY <1>0, <2>3, <2>4
  <2> QED
    BY <1>1, <2>1, <2>2, <2>5
<1>6. ASSUME NEW ok \in BOOLEAN, NEW heard, Answer(ok, heard), pc \in {"call", "replayed"},
             objects' = objects
      PROVE  Numbered'
  <2>1. steps' = steps /\ pc' \in {"call", "model", "done"} /\ calls' = Tail(calls)
    BY <1>6 DEF Answer, LoopTop
  <2>2. Len(calls') = Len(calls) - 1
    BY <1>6, <2>1, TailOfTurn DEF TalkType, Place
  <2>3. n <= steps * MaxCalls - Len(calls) + 1
    BY <1>0, <1>6 DEF Numbered
  <2>4. n <= steps * MaxCalls - Len(calls')
    BY <1>0, <2>2, <2>3
  <2> QED
    BY <1>1, <1>6, <2>1, <2>4
<1>7. CASE Delivers \/ \E ok \in BOOLEAN : Returns(ok)
  BY <1>6, <1>7 DEF Delivers, Returns
<1>8. CASE Stores
  <2>1. /\ objects' = objects \cup {n + 1} /\ pc = "call" /\ pc' = "replayed"
        /\ steps' = steps /\ calls' = calls
    BY <1>8 DEF Stores, loopVars
  <2>2. objects' = 1 .. n + 1
    BY <1>0, <2>1
  <2>3. Cardinality(1 .. n + 1) = n + 1
    <3> DEFINE k == n + 1
    <3>1. 1 \in Int /\ k \in Int /\ k >= 1
      BY <1>0
    <3> HIDE DEF k
    <3>2. Cardinality(1 .. k) = IF 1 > k THEN 0 ELSE k - 1 + 1
      BY <3>1, FS_Interval
    <3>3. Cardinality(1 .. k) = k
      BY <3>1, <3>2
    <3> QED
      BY <3>3 DEF k
  <2>4. n + 1 <= steps * MaxCalls - Len(calls) + 1
    BY <1>0, <2>1 DEF Numbered
  <2>5. Cardinality(objects') = n + 1
    BY <2>2, <2>3
  <2>6. Cardinality(objects') \in Nat /\ objects' = 1 .. Cardinality(objects')
    BY <1>0, <2>2, <2>5
  <2>7. Cardinality(objects') <= steps' * MaxCalls - Len(calls') + 1
    BY <2>1, <2>4, <2>5
  <2> QED
    BY <2>1, <2>6, <2>7 DEF Numbered
<1>9. CASE CallRaises
  <2>1. objects' = objects /\ steps' = steps /\ pc' = "persist"
    BY <1>9 DEF CallRaises, loopVars
  <2> QED
    BY <1>1, <2>1
<1>10. CASE UNCHANGED vars
  BY <1>10 DEF vars, loopVars, dataVars, Numbered
<1> QED
  BY <1>2, <1>3, <1>4, <1>5, <1>7, <1>8, <1>9, <1>10, TurnKinds, CallKinds DEF Next, ServerStep

LEMMA ResultTypeStep ==
  ASSUME IInv, [Next]_vars
  PROVE  ResultType' /\ objects \subseteq objects' /\ noted \subseteq noted'
<1> USE Bounds DEF IInv
<1>1. RunType' /\ TalkType' /\ Place' /\ Numbered'
  BY RunTypeStep, TalkTypeStep, PlaceStep, NumberedStep
<1>2. objects' \subseteq Results
  <2> DEFINE k == Cardinality(objects')
  <2>1. k \in Nat /\ objects' = 1 .. k /\ steps' \in 0 .. MaxSteps
    BY <1>1 DEF Numbered, RunType
  <2>2. steps' * MaxCalls \in Nat /\ steps' * MaxCalls <= MaxSteps * MaxCalls
        /\ MaxSteps * MaxCalls \in Nat
    <3>1. steps' \in Nat /\ MaxSteps \in Nat
      BY <2>1
    <3>2. \A m \in Nat : m * MaxCalls \in Nat
      BY Room
    <3> QED
      BY <2>1, <3>1, <3>2, Room
  <2>3. (steps' - 1) * MaxCalls = steps' * MaxCalls - MaxCalls
    BY <2>1
  <2>4. Len(calls') \in Nat /\ (pc' \in {"call", "replayed"} => Len(calls') > 0)
    BY <1>1, TailOfTurn DEF TalkType, Place
  <2>5. k <= steps' * MaxCalls
    <3> DEFINE m == steps' * MaxCalls
               n == Len(calls')
               l == (steps' - 1) * MaxCalls
    <3>1. k <= (CASE pc' = "stream" -> l [] pc' = "call" -> m - n
                  [] pc' = "replayed" -> m - n + 1 [] OTHER -> m)
      BY <1>1 DEF Numbered
    <3>2. m \in Nat /\ n \in Nat /\ l = m - MaxCalls /\ MaxCalls \in Nat
      BY <2>2, <2>3, <2>4, Bounds
    <3>3. pc' = "replayed" => n > 0
      BY <2>4
    <3> HIDE DEF k, m, n, l
    <3>4. k \in Nat
      BY <2>1
    <3>5. k <= m
      BY <3>1, <3>2, <3>3, <3>4
    <3> QED
      BY <3>5 DEF m
  <2> QED
    BY <2>1, <2>2, <2>5 DEF Results
<1>3. objects \subseteq objects' /\ noted \subseteq noted' /\ noted' \subseteq noted \cup objects
  <2>1. CASE Delivers
    <3>1. Cardinality(objects) \in objects
      BY <2>1 DEF Numbered, Replaying, Delivers
    <3> QED
      BY <2>1, <3>1 DEF Delivers
  <2>2. ASSUME NEW asked, TurnOf(asked)
        PROVE  objects' = objects /\ noted' = noted
    BY <2>2 DEF TurnOf, dataVars
  <2>3. CASE ~Delivers
    BY <2>2, <2>3, TurnKinds, CallKinds
    DEF Next, ServerStep, Request, Insert, Ask, Fragment, TurnFails, CallRaises, Stores,
        Returns, Done, Persist, Audit, Abandon, dataVars, vars
  <2> QED
    BY <2>1, <2>3
<1> QED
  BY <1>2, <1>3 DEF ResultType
-----------------------------------------------------------------------------
(* Fragments, results and summaries.                                        *)

LEMMA GatheredStep ==
  ASSUME IInv, [Next]_vars
  PROVE  Gathered'
<1> USE Bounds DEF IInv, Gathered
<1>1. CASE Fragment
  <2>1. PICK f \in Fragments :
          stream' = [said |-> Said(f),
                     slots |-> IF Adapter(provider) = "openai" THEN Gather(stream.slots, f) ELSE <<>>]
    BY <1>1 DEF Fragment
  <2>2. Said(f) \in Slots /\ Gather(stream.said, f) = Said(f)
    BY GatherIsSaid
  <2>3. provider' = provider /\ pc' = pc /\ pc = "stream"
    BY <1>1 DEF Fragment
  <2>4. stream'.said = Said(f)
        /\ stream'.slots = IF Adapter(provider) = "openai" THEN Said(f) ELSE <<>>
    BY <2>1, <2>2
  <2> QED
    BY <2>2, <2>3, <2>4
<1>2. ASSUME stream' = NoStream, provider' = provider
      PROVE  Gathered'
  BY <1>2 DEF NoStream
<1>3. CASE Turn \/ TurnFails
  BY <1>2, <1>3 DEF Turn, TurnFails
<1>4. CASE Ask
  BY <1>4 DEF Ask, still
<1>5. CASE ~(Fragment \/ Turn \/ TurnFails \/ Ask)
  <2>1. stream' = stream /\ provider' = provider
    BY <1>5, CallKinds DEF Next, ServerStep, Request, Insert, CallRaises, Stores, Delivers,
       Returns, Answer, Done, Persist, Audit, Abandon, still, vars
  <2>2. pc = "stream" => pc' \in {"stream", "gone"}
    BY <1>5, CallKinds DEF Next, ServerStep, Request, Insert, CallRaises, Dispatching, Stores,
       Delivers, Returns, Done, Persist, Audit, Abandon, vars
  <2>3. pc = "gone" => pc' = "gone"
    BY <1>5, CallKinds DEF Next, ServerStep, Request, Insert, CallRaises, Dispatching, Stores,
       Delivers, Returns, Done, Persist, Audit, Abandon, vars
  <2> QED
    BY <2>1, <2>2, <2>3
<1> QED
  BY <1>1, <1>3, <1>4, <1>5

LEMMA ReplayingStep ==
  ASSUME IInv, [Next]_vars
  PROVE  Replaying'
<1>1. CASE pc' # "replayed"
  BY <1>1 DEF Replaying
<1>2. CASE pc' = "replayed" /\ Stores
  BY <1>2 DEF Stores, loopVars, Replaying
<1>3. CASE pc' = "replayed" /\ ~Stores
  <2>1. UNCHANGED vars
    BY <1>3, TurnKinds, CallKinds
    DEF Next, ServerStep, Request, Insert, Ask, Fragment, TurnFails, CallRaises, Delivers,
        Returns, Answer, TurnOf, TurnWithCalls, TurnWithoutCalls, LoopTop, Done, Persist, Audit,
        Abandon
  <2> QED
    BY <1>3, <2>1 DEF vars, loopVars, dataVars, IInv, Replaying
<1> QED
  BY <1>1, <1>2, <1>3 DEF Replaying

\* Who tells the client of a result, and which tool has succeeded by then.
LEMMA AnnouncedStep ==
  ASSUME IInv, [Next]_vars
  PROVE  Announced'
<1> USE DEF IInv
<1>1. objects \subseteq objects' /\ noted \subseteq noted'
  BY ResultTypeStep
<1>2. CASE Delivers
  <2> DEFINE n == Cardinality(objects)
  <2>1. n \in objects /\ n # NoResult
    BY <1>2 DEF Numbered, Replaying, Delivers, NoResult
  <2>2. n \in objects' \cap noted'
    BY <1>2, <2>1 DEF Delivers
  <2>3. client'.result = n
    BY <1>2 DEF Delivers, Answer, HearResult, OutType, Clients
  <2> QED
    BY <2>1, <2>2, <2>3 DEF Announced
<1>3. CASE ~Delivers
  <2>1. client'.result = client.result
    <3>1. \/ client' = client \/ client' = StreamBreaks \/ client' = Hear("error")
          \/ client' = Hear("result") \/ client' = HearDone(emitted) \/ client' = StreamEnds
      BY <1>3, TurnKinds, CallKinds DEF Next, ServerStep, Request, Insert, Ask, Fragment,
         TurnFails, CallRaises, Stores, Returns, Answer, Done, Persist, Audit, Abandon, TurnOf, vars
    <3> QED
      BY <3>1 DEF StreamBreaks, Hear, HearDone, StreamEnds, OutType, Clients
  <2>2. Replay \in successful' => Replay \in successful
    <3>1. ASSUME NEW ok \in BOOLEAN, Returns(ok)
          PROVE  Replay \in successful' => Replay \in successful
      BY <3>1 DEF Returns, Answer
    <3>2. CASE ~\E ok \in BOOLEAN : Returns(ok)
      BY <1>3, <3>2, TurnKinds, CallKinds DEF Next, ServerStep, Request, Insert, Ask, Fragment,
         TurnFails, CallRaises, Stores, Done, Persist, Audit, Abandon, TurnOf, loopVars, vars
    <3> QED
      BY <3>1, <3>2
  <2> QED
    BY <1>1, <2>1, <2>2 DEF Announced
<1> QED
  BY <1>2, <1>3

LEMMA SummarizedStep ==
  ASSUME IInv, [Next]_vars
  PROVE  Summarized'
<1> USE DEF IInv, Summarized
<1>0. NoRow.status = "none" /\ client \in Clients
  BY DEF NoRow, OutType
<1>1. ASSUME NEW asked, TurnOf(asked)
      PROVE  Summarized'
  <2>1. /\ pc = "stream" /\ emitted = NoRow /\ client' = client /\ row' = row
        /\ steps' = steps /\ successful' = successful /\ body' = body
    BY <1>1 DEF TurnOf
  <2>2. Len(transcript') = steps
    BY <1>1, <2>1, PlaceStep DEF TurnOf, Place, TurnWithCalls, TurnWithoutCalls, LoopTop
  <2>3. \/ pc' \in {"call", "model"} /\ emitted' = NoRow
        \/ /\ pc' = "done" /\ Required \subseteq successful
           /\ emitted' = [status |-> "done", steps |-> steps, transcript |-> transcript']
        \/ /\ pc' = "done"
           /\ emitted' = [status |-> "aborted", steps |-> steps, transcript |-> transcript']
    BY <1>1, <2>1 DEF TurnOf, TurnWithCalls, TurnWithoutCalls, LoopTop
  <2> QED
    BY <1>0, <2>1, <2>2, <2>3 DEF Required, UseSkill
<1>2. ASSUME NEW ok \in BOOLEAN, NEW heard, Answer(ok, heard), pc \in {"call", "replayed"},
             heard.told = client.told
      PROVE  Summarized'
  <2>1. /\ emitted = NoRow /\ client'.told = client.told /\ row' = row
        /\ steps' = steps /\ transcript' = transcript /\ Len(transcript) = steps
    BY <1>2 DEF Answer, still, Place
  <2>2. \/ pc' \in {"call", "model"} /\ emitted' = NoRow
        \/ /\ pc' = "done"
           /\ emitted' = [status |-> "aborted", steps |-> steps, transcript |-> transcript]
    BY <1>2, <2>1 DEF Answer, LoopTop
  <2> QED
    BY <1>0, <1>2, <2>1, <2>2
<1>3. CASE Delivers \/ \E ok \in BOOLEAN : Returns(ok)
  <2>1. HearResult(Cardinality(objects)).told = client.told /\ Hear("result").told = client.told
    BY <1>0 DEF HearResult, Hear, Clients
  <2> QED
    BY <1>2, <1>3, <2>1 DEF Delivers, Returns
<1>4. CASE CallRaises
  <2>1. /\ emitted = NoRow /\ client'.told = client.told /\ row' = row /\ pc' = "persist"
        /\ emitted' = [status |-> "failed", steps |-> 0, transcript |-> <<>>] /\ client.told = NoRow
    BY <1>0, <1>4 DEF CallRaises, Dispatching, Hear, Clients
  <2> QED
    BY <1>0, <2>1
<1>5. CASE Request \/ Insert \/ Ask \/ Fragment \/ TurnFails \/ Stores \/ Abandon \/ UNCHANGED vars
  <2>1. /\ emitted' = emitted /\ successful' = successful /\ body' = body
        /\ transcript' = transcript /\ client'.told = client.told
    BY <1>0, <1>5 DEF Request, Insert, Ask, Fragment, TurnFails, Stores, Abandon, still, loopVars,
       vars, Hear, StreamBreaks, Clients
  <2>2. row' = row \/ (row' = [NoRow EXCEPT !.status = "running"] /\ emitted = NoRow)
    <3>1. pc = "insert" => emitted = NoRow
      OBVIOUS
    <3> HIDE DEF IInv, Summarized
    <3>2. CASE Insert
      BY <3>1, <3>2 DEF Insert
    <3>3. CASE ~Insert
      BY <1>5, <3>3 DEF Request, Ask, Fragment, TurnFails, Stores, Abandon, vars
    <3> QED
      BY <3>2, <3>3
  <2>3. emitted # NoRow => steps' = steps
    <3>1. pc = "model" => emitted = NoRow
      OBVIOUS
    <3> HIDE DEF IInv, Summarized
    <3>2. CASE Ask
      BY <3>1, <3>2 DEF Ask
    <3>3. CASE ~Ask
      BY <1>5, <3>3 DEF Request, Insert, Fragment, TurnFails, Stores, Abandon, still, loopVars, vars
    <3> QED
      BY <3>2, <3>3
  <2>4. \/ pc' = pc /\ row' = row
        \/ pc' \in {"insert", "model", "stream", "replayed", "call"} /\ emitted = NoRow
              /\ client.told = NoRow
        \/ pc' = "persist" /\ emitted = NoRow
        \/ pc' \in {"rejected", "gone"}
    <3>1. pc \in {"request", "insert", "model", "stream", "call", "replayed"} =>
              emitted = NoRow /\ client.told = NoRow
      OBVIOUS
    <3> HIDE DEF IInv, Summarized
    <3>2. CASE Request \/ Insert \/ Ask \/ TurnFails \/ Stores
      BY <3>1, <3>2 DEF Request, Insert, Ask, TurnFails, Stores
    <3>3. CASE Fragment \/ Abandon \/ UNCHANGED vars
      BY <3>3 DEF Fragment, Abandon, vars
    <3> QED
      BY <1>5, <3>2, <3>3
  <2> QED
    BY <1>0, <2>1, <2>2, <2>3, <2>4 DEF Required, UseSkill
<1>6. CASE Done \/ Persist \/ Audit
  <2>1. /\ emitted' = emitted /\ successful' = successful /\ body' = body
        /\ transcript' = transcript /\ steps' = steps
    BY <1>6 DEF Done, Persist, Audit, still, loopVars
  <2>2. client'.told \in {client.told, emitted}
    BY <1>0, <1>6 DEF Done, Persist, Audit, HearDone, StreamBreaks, StreamEnds, Clients
  <2>3. \/ pc' \in {"persist", "gone"} /\ row' \in {row, emitted}
        \/ pc' = "audit" /\ ((emitted = NoRow /\ row' = row) \/ row' = emitted)
        \/ pc = "audit" /\ pc' = "end" /\ row' = row
    BY <1>6 DEF Done, Persist, Audit, Effective
  <2> QED
    BY <1>0, <2>1, <2>2, <2>3 DEF Required, UseSkill
<1> QED
  BY <1>1, <1>3, <1>4, <1>5, <1>6, TurnKinds, CallKinds DEF Next, ServerStep

LEMMA BrokenOffStep ==
  ASSUME IInv, [Next]_vars
  PROVE  BrokenOff'
<1>1. BrokenOff /\ TalkType
  BY DEF IInv
<1>2. ASSUME NEW asked, TurnOf(asked)
      PROVE  BrokenOff'
  BY <1>1, <1>2 DEF BrokenOff, TurnOf, TurnWithCalls, TurnWithoutCalls, LoopTop
<1>3. ASSUME NEW ok \in BOOLEAN, NEW heard, Answer(ok, heard), pc \in {"call", "replayed"}
      PROVE  BrokenOff'
  BY <1>1, <1>3 DEF BrokenOff, Answer, LoopTop, TalkType
<1>4. CASE Delivers \/ \E ok \in BOOLEAN : Returns(ok)
  BY <1>3, <1>4 DEF Delivers, Returns
<1>5. CASE CallRaises
  BY <1>1, <1>5 DEF BrokenOff, CallRaises
<1>6. CASE Request \/ Insert \/ Ask \/ Fragment \/ TurnFails \/ Stores \/ Abandon \/ UNCHANGED vars
  BY <1>1, <1>6 DEF BrokenOff, Request, Insert, Ask, Fragment, TurnFails, Stores, Abandon,
     still, loopVars, vars
<1>7. CASE Done \/ Persist \/ Audit
  BY <1>1, <1>7 DEF BrokenOff, Done, Persist, Audit, still, loopVars
<1> QED
  BY <1>2, <1>4, <1>5, <1>6, <1>7, TurnKinds, CallKinds DEF Next, ServerStep

LEMMA IInvStep ==
  ASSUME IInv, [Next]_vars
  PROVE  IInv'
  BY RunTypeStep, TalkTypeStep, OutTypeStep, ResultTypeStep, GatheredStep, PlaceStep,
     NumberedStep, ReplayingStep, AnnouncedStep, SummarizedStep,
     BrokenOffStep DEF IInv

LEMMA Invariant == Spec => []IInv
<1>1. Init => IInv
  BY Initially
<1>2. IInv /\ [Next]_vars => IInv'
  BY IInvStep
<1> QED
  BY <1>1, <1>2, PTL DEF Spec
-----------------------------------------------------------------------------
(* The conversation.                                                        *)

\* A message that is in order stays so: the next one is there already if it asks.
LEMMA InOrderStays ==
  ASSUME IInv, NEW m, messages' = messages \/ messages' = Append(messages, m),
         used \subseteq used', body' = body, NEW i \in 1 .. Len(messages), InOrder(i)
  PROVE  InOrder(i)'
<1>1. messages \in Seq(Messages) /\ Len(messages) \in Nat
  BY DEF IInv, TalkType
<1>2. Len(messages') \in Nat /\ Len(messages) <= Len(messages')
      /\ \A j \in 1 .. Len(messages) : messages'[j] = messages[j]
  BY <1>1
<1>3. Offered' = Offered
  BY DEF Offered, UseSkill
<1>4. messages'[i] = messages[i]
  BY <1>2
<1>5. ASSUME Asks(messages[i]) # <<>>
      PROVE  /\ i < Len(messages') /\ messages'[i + 1].role = "tool"
             /\ messages'[i + 1].calls = messages[i].calls
  <2>1. i + 1 \in 1 .. Len(messages)
    BY <1>1, <1>5 DEF InOrder
  <2> QED
    BY <1>1, <1>2, <1>5, <2>1 DEF InOrder
<1>6. ASSUME messages[i].role = "tool"
      PROVE  /\ i > 1 /\ messages'[i - 1].role = "assistant"
             /\ messages'[i - 1].calls = messages[i].calls
  <2>1. i - 1 \in 1 .. Len(messages)
    BY <1>1, <1>6 DEF InOrder
  <2> QED
    BY <1>2, <1>6, <2>1 DEF InOrder
<1>7. Range(Answers(messages[i])) \cap Offered \subseteq used'
  BY DEF InOrder
<1> QED
  BY <1>3, <1>4, <1>5, <1>6, <1>7 DEF InOrder

LEMMA ConversationOfTurn ==
  ASSUME IInv, Conversation, NEW asked, TurnOf(asked)
  PROVE  Conversation'
<1>1. /\ pc = "stream" /\ body' = body /\ used' = used /\ asked \in Turns
      /\ pc' \in {"call", "model", "done"}
  BY DEF TurnOf, TurnWithCalls, TurnWithoutCalls, LoopTop, dataVars
<1>2. \A i \in 1 .. Len(messages) : InOrder(i)
  BY <1>1 DEF Conversation
<1>3. messages \in Seq(Messages) /\ Len(messages) \in Nat
  BY DEF IInv, TalkType
<1>4. CASE TurnWithCalls(asked)
  <2> DEFINE m == [role |-> "assistant", calls |-> asked]
  <2>1. messages' = Append(messages, m) /\ pc' = "call" /\ calls' = asked
    BY <1>4 DEF TurnWithCalls
  <2>2. \A i \in 1 .. Len(messages) : InOrder(i)'
    BY <1>1, <1>2, <2>1, InOrderStays
  <2>3. Len(messages') = Len(messages) + 1 /\ messages'[Len(messages) + 1] = m
    <3> HIDE DEF m
    <3> QED
      BY <1>3, <2>1
  <2>4. Last(messages') = m /\ Len(messages') - 1 = Len(messages)
    BY <1>3, <2>3 DEF Last
  <2> QED
    BY <2>1, <2>2, <2>4 DEF Conversation
<1>5. CASE TurnWithoutCalls(asked)
  <2> DEFINE m == [role |-> "user", calls |-> <<>>]
  <2>1. (messages' = messages \/ messages' = Append(messages, m)) /\ pc' \in {"model", "done"}
    BY <1>5 DEF TurnWithoutCalls, LoopTop
  <2>2. \A i \in 1 .. Len(messages) : InOrder(i)'
    BY <1>1, <1>2, <2>1, InOrderStays
  <2>3. CASE messages' = messages
    BY <2>1, <2>2, <2>3 DEF Conversation
  <2>4. CASE messages' = Append(messages, m)
    <3>1. Len(messages') = Len(messages) + 1 /\ messages'[Len(messages) + 1] = m
      <4> HIDE DEF m
      <4> QED
        BY <1>3, <2>4
    <3>2. Asks(m) = <<>> /\ Answers(m) = <<>> /\ m.role = "user" /\ Range(<<>>) = {}
      BY DEF Asks, Answers, Range
    <3>4. \A i \in 1 .. Len(messages') : i \in 1 .. Len(messages) \/ i = Len(messages) + 1
      BY <1>3, <3>1
    <3>5. \A i \in 1 .. Len(messages') : InOrder(i)'
      <4> TAKE i \in 1 .. Len(messages')
      <4>1. CASE i \in 1 .. Len(messages)
        BY <2>2, <4>1
      <4>2. CASE i = Len(messages) + 1
        BY <3>1, <3>2, <4>2 DEF InOrder
      <4> QED
        BY <3>4, <4>1, <4>2
    <3> QED
      BY <2>1, <3>5 DEF Conversation
  <2> QED
    BY <2>1, <2>3, <2>4
<1> QED
  BY <1>4, <1>5 DEF TurnOf

LEMMA ConversationOfAnswer ==
  ASSUME IInv, Conversation, NEW ok \in BOOLEAN, NEW heard, Answer(ok, heard),
         pc \in {"call", "replayed"}, used \subseteq used',
         Head(calls) \in Offered => Head(calls) \in used'
  PROVE  Conversation'
<1> DEFINE n == Len(messages)
           m == [role |-> "tool", calls |-> Last(messages).calls]
<1>1. /\ calls \in Turns /\ calls # <<>> /\ calls' = Tail(calls) /\ body' = body
      /\ pc' \in {"call", "model", "done"}
  BY DEF IInv, TalkType, Place, Answer, LoopTop, still
<1>2. Offered' = Offered
  BY <1>1 DEF Offered, UseSkill
<1>3. messages \in Seq(Messages) /\ n \in Nat /\ n > 0
  <2>1. messages \in Seq(Messages) /\ messages # <<>>
    BY DEF IInv, TalkType, Place
  <2> HIDE DEF Messages
  <2> QED
    BY <2>1
<1>4. Last(messages) = messages[n] /\ n \in 1 .. n
  BY <1>3 DEF Last
<1>5. /\ \A i \in 1 .. n - 1 : InOrder(i)
      /\ messages[n].role = "assistant"
      /\ Range(messages[n].calls) \cap Offered \subseteq used \cup Range(calls)
  BY <1>4 DEF Conversation
<1>6. Range(calls) \subseteq {Head(calls)} \cup Range(calls')
  BY <1>1, TailOfTurn
<1>7. Range(messages[n].calls) \cap Offered \subseteq used' \cup Range(calls')
  BY <1>5, <1>6
<1>8. CASE Len(calls) > 1
  <2>1. messages' = messages /\ pc' = "call"
    BY <1>8 DEF Answer
  <2>2. \A i \in 1 .. n - 1 : InOrder(i)'
    <3>1. \A i \in 1 .. n - 1 : i \in 1 .. n
      BY <1>3
    <3> QED
      BY <1>1, <1>5, <2>1, <3>1, InOrderStays
  <2> QED
    BY <1>2, <1>4, <1>5, <1>7, <2>1, <2>2 DEF Conversation
<1>9. CASE ~(Len(calls) > 1)
  <2>1. messages' = Append(messages, m) /\ pc' \in {"model", "done"}
    BY <1>9 DEF Answer, LoopTop
  <2>2. calls' = <<>>
    <3>1. Len(calls) = 1
      <4>1. Len(calls) \in Nat /\ Len(calls) > 0
        BY <1>1, TailOfTurn
      <4>2. \A k \in Nat : k > 0 /\ ~(k > 1) => k = 1
        OBVIOUS
      <4> QED
        BY <1>9, <4>1, <4>2, Zenon
    <3> QED
      BY <1>1, <3>1, TailOfTurn
  <2>3. /\ Len(messages') = n + 1 /\ messages'[n + 1] = m
        /\ \A i \in 1 .. n : messages'[i] = messages[i]
    <3> HIDE DEF m
    <3> QED
      BY <1>3, <2>1
  <2>4. \A i \in 1 .. n - 1 : InOrder(i)'
    <3>1. \A i \in 1 .. n - 1 : i \in 1 .. n
      BY <1>3
    <3> QED
      BY <1>1, <1>5, <2>1, <3>1, InOrderStays
  <2>5. Range(<<>>) = {}
    BY DEF Range
  <2>6. Range(messages[n].calls) \cap Offered \subseteq used'
    BY <1>7, <2>2, <2>5
  <2>7. messages'[n].role = "assistant" /\ messages'[n] = messages[n]
    BY <1>4, <1>5, <2>3
  <2>8. ASSUME NEW i, i = n
        PROVE  InOrder(i)'
    <3>1. Answers(messages'[i]) = <<>>
      BY <2>7, <2>8 DEF Answers
    <3>2. /\ i < Len(messages') /\ messages'[i + 1].role = "tool"
          /\ messages'[i + 1].calls = messages'[i].calls
      BY <1>3, <1>4, <2>3, <2>7, <2>8
    <3>3. messages'[i].role # "tool"
      BY <2>7, <2>8
    <3> QED
      BY <2>5, <3>1, <3>2, <3>3 DEF InOrder
  <2>9. ASSUME NEW i, i = n + 1
        PROVE  InOrder(i)'
    <3>1. messages'[i] = m
      BY <2>3, <2>9
    <3>2. Asks(m) = <<>> /\ Answers(m) = messages[n].calls
      BY <1>4 DEF Asks, Answers
    <3>3. i > 1 /\ i - 1 = n
      BY <1>3, <2>9
    <3>4. m.calls = messages[n].calls
      BY <1>4
    <3>5. messages'[i - 1].role = "assistant" /\ messages'[i - 1].calls = messages[n].calls
      BY <2>7, <3>3
    <3> HIDE DEF m
    <3> QED
      BY <1>2, <2>6, <3>1, <3>2, <3>3, <3>4, <3>5 DEF InOrder
  <2>10. \A i \in 1 .. Len(messages') : i \in 1 .. n - 1 \/ i = n \/ i = n + 1
    BY <1>3, <2>3
  <2>11. \A i \in 1 .. Len(messages') : InOrder(i)'
    BY <2>4, <2>8, <2>9, <2>10
  <2> QED
    BY <2>1, <2>11 DEF Conversation
<1> QED
  BY <1>8, <1>9

LEMMA ConversationStep ==
  ASSUME IInv, Conversation, [Next]_vars
  PROVE  Conversation'
<1>1. ASSUME NEW asked, TurnOf(asked)
      PROVE  Conversation'
  BY <1>1, ConversationOfTurn
<1>2. CASE Delivers \/ \E ok \in BOOLEAN : Returns(ok)
  <2>1. CASE Delivers
    <3>1. Head(calls) \in used /\ used' = used
      BY <2>1 DEF IInv, Replaying, Delivers
    <3> QED
      BY <2>1, <3>1, ConversationOfAnswer DEF Delivers
  <2>2. ASSUME NEW ok \in BOOLEAN, Returns(ok)
        PROVE  Conversation'
    <3>1. used \subseteq used'
      BY <2>2 DEF Returns
    <3> QED
      BY <2>2, <3>1, ConversationOfAnswer DEF Returns
  <2> QED
    BY <1>2, <2>1, <2>2
<1>3. CASE Request \/ Insert \/ Ask \/ Fragment \/ TurnFails \/ CallRaises \/ Stores \/ Done
           \/ Persist \/ Audit \/ Abandon \/ UNCHANGED vars
  <2>1. messages' = messages /\ body' = body /\ used \subseteq used'
    BY <1>3 DEF Request, Insert, Ask, Fragment, TurnFails, CallRaises, Stores, Done, Persist, Audit,
       Abandon, vars, still, loopVars, dataVars
  <2>2. /\ pc' \in {"request", "insert", "model", "stream", "done"} =>
              pc \in {"request", "insert", "model", "stream", "done"}
        /\ pc' \in {"call", "replayed"} => pc \in {"call", "replayed"} /\ calls' = calls
    BY <1>3 DEF Request, Insert, Ask, Fragment, TurnFails, CallRaises, Dispatching, Stores, Done,
       Persist, Audit, Abandon, vars, still, loopVars, dataVars
  <2>3. \A i \in 1 .. Len(messages) : InOrder(i) => InOrder(i)'
    BY <2>1, InOrderStays
  <2>4. \A i \in 1 .. Len(messages) - 1 : i \in 1 .. Len(messages)
    BY DEF IInv, TalkType
  <2>5. Offered' = Offered
    BY <2>1 DEF Offered, UseSkill
  <2> QED
    BY <2>1, <2>2, <2>3, <2>4, <2>5 DEF Conversation
<1> QED
  BY <1>1, <1>2, <1>3, TurnKinds, CallKinds DEF Next, ServerStep
-----------------------------------------------------------------------------
(* The theorems.                                                            *)

\* The state of a run always has its type: the summaries, the conversation, the streamed
\* answer and the numbers of the results stay within what the request allows.
THEOREM RunTypes == Spec => []TypeOK
<1>1. IInv => TypeOK
  BY DEF IInv, RunType, TalkType, OutType, ResultType, Gathered, TypeOK, Phases, Messages, Clients
<1> QED
  BY <1>1, Invariant, PTL

\* A retrieval the client is told to be done has delivered a result, and a result the
\* client has taken is stored under a key of its own and audited, for every skill, request,
\* number of turns and set of faults.
THEOREM DoneIsDelivered == Spec => []RetrievalIsDelivered
<1>1. IInv => RetrievalIsDelivered
  BY DEF IInv, RetrievalIsDelivered, Announced, Summarized, Required, NoRow
<1> QED
  BY <1>1, Invariant, PTL

\* The agent_runs row of a run that was not broken off has all its turns, and says what
\* the client was told; that of a run a tool request broke off says it failed.
THEOREM RowIsTrue == Spec => []RowTellsTheRun
<1>1. IInv => RowTellsTheRun
  BY DEF IInv, RowTellsTheRun, Summarized, BrokenOff, NoRow
<1> QED
  BY <1>1, Invariant, PTL

\* However the fragments of a streamed turn are cut and mixed, the calls the loop runs are
\* those the model made.
THEOREM CallsAreThoseSaid == Spec => []CallsAsSaid
<1>1. IInv => CallsAsSaid
  BY SaidIsYielded DEF IInv, CallsAsSaid
<1> QED
  BY <1>1, Invariant, PTL

\* Every provider but plain OpenAI, whose adapter sends results without the ids of their
\* calls, is only ever sent conversations it takes, and every offered call that has an
\* answer was run.
THEOREM ConversationsAreTaken ==
  Spec => [](provider # "openai" => ProviderUnderstands)
<1>1. Init => IInv /\ Conversation
  BY Initially
<1>2. IInv /\ Conversation /\ [Next]_vars => Conversation'
  BY ConversationStep
<1>3. ASSUME IInv, Conversation, provider # "openai"
      PROVE  ProviderUnderstands
  <2>1. provider \in {"anthropic", "openai_compat", "none"}
    BY <1>3, RequestAssumption DEF IInv, RunType, ProviderNames
  <2>2. messages \in Seq(Messages) /\ DOMAIN messages = 1 .. Len(messages)
    BY <1>3 DEF IInv, TalkType
  <2>3. ASSUME pc \in {"model", "done"}, NEW i \in DOMAIN messages
        PROVE  InOrder(i)
    BY <1>3, <2>2, <2>3 DEF Conversation
  <2>4. ASSUME pc = "model", provider = "anthropic"
        PROVE  Accepts(provider, Wire(provider, messages))
    <3> DEFINE wire == Wire(provider, messages)
    <3>1. DOMAIN wire = 1 .. Len(messages) /\ Len(wire) = Len(messages)
          /\ \A i \in 1 .. Len(messages) : wire[i] = ToAnthropic(messages[i])
      BY <2>2, <2>4 DEF Wire, Adapter
    <3>2. \A i \in 1 .. Len(messages) :
             /\ wire[i].role = IF messages[i].role = "tool" THEN "user" ELSE messages[i].role
             /\ wire[i].asks = Asks(messages[i]) /\ wire[i].answers = Answers(messages[i])
      BY <3>1 DEF ToAnthropic
    <3> HIDE DEF wire
    <3>3. ASSUME NEW i \in DOMAIN wire
          PROVE  /\ wire[i].role \in {"user", "assistant"}
                 /\ wire[i].asks # <<>> =>
                       /\ i < Len(wire) /\ wire[i + 1].role = "user"
                       /\ wire[i + 1].answers = wire[i].asks
                 /\ wire[i].answers # <<>> => i > 1 /\ wire[i - 1].asks = wire[i].answers
      <4>1. i \in 1 .. Len(messages) /\ InOrder(i) /\ Len(messages) \in Nat
        BY <2>2, <2>3, <2>4, <3>1
      <4>2. messages[i] \in Messages
        BY <2>2, <4>1
      <4>3. wire[i].role \in {"user", "assistant"}
        BY <3>2, <4>1, <4>2 DEF Messages
      <4>4. ASSUME wire[i].asks # <<>>
            PROVE  /\ i < Len(wire) /\ wire[i + 1].role = "user"
                   /\ wire[i + 1].answers = wire[i].asks
        <5>1. Asks(messages[i]) = messages[i].calls /\ i < Len(messages)
              /\ messages[i + 1].role = "tool" /\ messages[i + 1].calls = messages[i].calls
          BY <3>2, <4>1, <4>4 DEF InOrder, Asks
        <5>2. i + 1 \in 1 .. Len(messages)
          BY <4>1, <5>1
        <5> QED
          BY <3>1, <3>2, <4>1, <5>1, <5>2 DEF Answers
      <4>5. ASSUME wire[i].answers # <<>>
            PROVE  i > 1 /\ wire[i - 1].asks = wire[i].answers
        <5>1. messages[i].role = "tool" /\ Answers(messages[i]) = messages[i].calls
          BY <3>2, <4>1, <4>5 DEF Answers
        <5>2. i > 1 /\ messages[i - 1].role = "assistant" /\ messages[i - 1].calls = messages[i].calls
          BY <4>1, <5>1 DEF InOrder
        <5>3. i - 1 \in 1 .. Len(messages)
          BY <4>1, <5>2
        <5> QED
          BY <3>2, <4>1, <5>1, <5>2, <5>3 DEF Asks
      <4> QED
        BY <4>3, <4>4, <4>5
    <3>4. Accepts("anthropic", wire)
      BY <3>3 DEF Accepts
    <3> QED
      BY <2>4, <3>4 DEF wire
  <2>5. pc = "model" => Accepts(provider, Wire(provider, messages))
    BY <1>3, <2>1, <2>4 DEF Accepts, IInv, Place
  <2>6. pc \in {"model", "done"} =>
          \A i \in DOMAIN messages : Range(Answers(messages[i])) \cap Offered \subseteq used
    BY <2>3 DEF InOrder
  <2> QED
    BY <2>5, <2>6 DEF ProviderUnderstands
<1>4. IInv /\ Conversation => (provider # "openai" => ProviderUnderstands)
  BY <1>3
<1> QED
  BY <1>1, <1>2, <1>4, Invariant, PTL DEF Spec
=============================================================================
