------------------------------ MODULE AgentRun ------------------------------
(***************************************************************************)
(* One POST /agent/v1 from end to end: the request handler and its         *)
(* response generator (server/routers/agent.py), the tool-use loop         *)
(* (agent/runner.py), the skill tables (server/skills.py), the replay tool *)
(* (server/services/retrieval_tools.py) and the client that consumes the   *)
(* event stream (Client.retrieve of the SDK).  Runs share no state but the *)
(* database, in which each has a row of its own, so one run is modelled.   *)
(* The adapters between the loop and a provider are in ChatAdapters.       *)
(*                                                                         *)
(* The server's generator is suspended at each await and at each yield;    *)
(* `pc' names the suspension point, and what happens up to the next one is *)
(* one step.  A peer that goes away, or the death of the process, ends the *)
(* generator at its suspension point with an exception that none of its    *)
(* handlers catches (GeneratorExit, CancelledError).                       *)
(***************************************************************************)
EXTENDS ChatAdapters, FiniteSets, SequencesExt

CONSTANTS
    Catalog,       \* names of all tools the service can offer
    Local,         \* those that have a handler in the process
    Remote,        \* those of the remote MCP client
    Routes,        \* those that are routes of the service itself
    Unoffered,     \* a name the model makes up
    Replay,        \* replay_retrieval_plan
    SkillTools,    \* tool_allowlist of the data_retrieval skill
    Previews,      \* tools whose results such a run may read
    Bodies,        \* the requests: [skill : "none", "data_retrieval" or "unknown",
                   \*                tools : tools_allowed, {} for none]
    Providers,     \* LLM providers the service may be configured for; "none" for no adapter
    MaxSteps,      \* max_steps of the request
    MaxCalls,      \* bound: tool calls in one turn of the model
    MaxPieces,     \* bound: fragments with arguments of one call
    Faults         \* what may fail, out of FaultNames

FaultNames ==
    {"insert", "adapter", "local", "remote", "http", "unreachable",
     "tool_audit", "persist", "audit", "peer"}

ASSUME ToolsAssumption ==
    /\ Local \cup Remote \cup Routes = Catalog
    /\ Local \cap Remote = {} /\ Local \cap Routes = {} /\ Remote \cap Routes = {}
    /\ Replay \in Local
    /\ Unoffered \notin Catalog /\ NoName \notin Catalog \cup {Unoffered}
    /\ SkillTools \subseteq Catalog /\ Previews \subseteq Catalog
ASSUME BoundsAssumption == MaxSteps \in Nat \ {0} /\ MaxCalls \in Nat \ {0} /\ MaxPieces \in Nat \ {0}
ASSUME RequestAssumption ==
    /\ Bodies \subseteq [skill : {"none", "data_retrieval", "unknown"},
                         tools : SUBSET Catalog]
    /\ Providers \subseteq ProviderNames \cup {"none"}
ASSUME FaultsAssumption == Faults \subseteq FaultNames

VARIABLES
    body,        \* the request
    provider,    \* settings.llm_provider
    stream,      \* the answer that is being streamed: what the model has said (history)
                 \* and pending_calls of the adapter
    pc,          \* suspension point of the response generator
    row,         \* the agent_runs row, or NoRow
    steps,       \* turns of the model so far
    calls,       \* tool calls of the turn that have not been dispatched yet
    successful,  \* successful_tools
    messages,    \* the conversation: [role, names of the calls asked or answered]
    transcript,  \* per turn, the names of the calls
    emitted,     \* emitted_done: the payload of the event, or NoRow for None
    objects,     \* materialized results retrievals/<n>/..., n by order of creation
    noted,       \* results with an audit row of the tool
    audits,      \* audit rows of the run itself
    used,        \* tools that were run, whatever came of it (history)
    client       \* the consumer of the events

loopVars == <<steps, calls, successful, messages, transcript>>
dataVars == <<objects, noted, used>>
still == <<body, provider, stream>>
vars == <<still, pc, row, loopVars, emitted, dataVars, audits, client>>

Names == Catalog \cup {Unoffered}
Turns == BoundedSeq(Names, MaxCalls)
NoRow == [status |-> "none", steps |-> 0, transcript |-> <<>>]
Summary == [status : {"none", "running", "done", "failed", "aborted"},
            steps : 0 .. MaxSteps, transcript : Seq(Turns)]
Slots == BoundedSeq([name : Names, args : 0 .. MaxPieces], MaxCalls)
NoStream == [said |-> <<>>, slots |-> <<>>]
Results == 1 .. MaxSteps * MaxCalls
NoResult == 0

Outcomes(op) == IF op \in Faults THEN {"ok", "lost", "applied"} ELSE {"ok"}
Effective(o) == o \in {"ok", "applied"}

TypeOK ==
    /\ body \in Bodies /\ provider \in Providers
    /\ stream.said \in Slots /\ stream.slots \in Slots
    /\ pc \in {"request", "insert", "model", "stream", "call", "replayed", "done", "persist",
               "audit", "end", "gone", "rejected"}
    /\ row \in Summary /\ emitted \in Summary
    /\ steps \in 0 .. MaxSteps
    /\ calls \in Turns
    /\ successful \subseteq Names /\ used \subseteq Names
    /\ messages \in Seq([role : {"user", "assistant", "tool"}, calls : Turns])
    /\ transcript \in Seq(Turns)
    /\ objects \subseteq Results /\ noted \subseteq Results
    /\ audits \in {0, 1}
    /\ client \in [outcome : {"waiting", "returned", "raised"},
                   last : {"none", "result", "error", "done"},
                   result : Results \cup {NoResult}, told : Summary]

Init ==
    /\ body \in Bodies /\ provider \in Providers
    /\ pc = "request" /\ stream = NoStream
    /\ row = NoRow
    /\ steps = 0 /\ calls = <<>> /\ successful = {}
    /\ messages = <<[role |-> "user", calls |-> <<>>]>>
    /\ transcript = <<>>
    /\ emitted = NoRow
    /\ objects = {} /\ noted = {} /\ used = {} /\ audits = 0
    /\ client = [outcome |-> "waiting", last |-> "none", result |-> NoResult, told |-> NoRow]
-----------------------------------------------------------------------------
(* What the run may use and must use.                                      *)

UseSkill == body.skill = "data_retrieval"

\* skill_tool_allowlist and the filter of the request handler: an empty
\* tools_allowed counts as none.
Offered ==
    (IF UseSkill THEN SkillTools ELSE Catalog)
        \cap (IF body.tools # {} THEN body.tools ELSE Catalog)

\* _tool_result_content_for_model, which withholds a body that is not a dict, as that of a
\* replay is; of a failed replay it keeps the keys of a summary, of which there are none.
Shown(t) ==
    IF t \notin Offered THEN {"error"}
    ELSE IF UseSkill /\ t \notin Previews THEN {"status_code"}
    ELSE {"status_code", "body"}

\* skill_required_success_tools.
Required == IF UseSkill THEN {Replay} ELSE {}

-----------------------------------------------------------------------------
(* The client: what Client.retrieve does with an event.                    *)

Hear(kind) == [client EXCEPT !.last = kind]
HearResult(n) == [client EXCEPT !.last = "result", !.result = n]

HearDone(payload) == [client EXCEPT !.last = "done", !.told = payload]

\* The stream ends: the last materialized result, or an exception.
StreamEnds == [client EXCEPT !.outcome = IF @ # "waiting" THEN @
                                         ELSE IF client.result # NoResult THEN "returned"
                                         ELSE "raised"]

\* The stream breaks: the HTTP library raises.
StreamBreaks == [client EXCEPT !.outcome = "raised"]
-----------------------------------------------------------------------------
(* The request handler and the start of the generator.                     *)

\* 503 without an adapter, 400 for a skill that is not registered.
Request ==
    /\ pc = "request"
    /\ IF provider # "none" /\ body.skill # "unknown"
       THEN pc' = "insert" /\ UNCHANGED client
       ELSE pc' = "rejected" /\ client' = StreamBreaks
    /\ UNCHANGED <<still, row, loopVars, emitted, dataVars, audits>>

Insert ==
    /\ pc = "insert"
    /\ \E o \in Outcomes("insert") :
        /\ row' = IF Effective(o) THEN [NoRow EXCEPT !.status = "running"] ELSE row
        /\ IF o = "ok"
           THEN pc' = "model" /\ UNCHANGED client
           ELSE pc' = "gone" /\ client' = StreamBreaks
    /\ UNCHANGED <<still, loopVars, emitted, dataVars, audits>>
-----------------------------------------------------------------------------
(* The loop.                                                               *)

\* Seeded fault: the run is cut off a turn late.
LoopTopLate(n) ==
    IF n <= MaxSteps THEN pc' = "model" /\ UNCHANGED emitted
    ELSE /\ pc' = "done"
         /\ emitted' = [status |-> "aborted", steps |-> n, transcript |-> transcript']

\* while steps < max_steps: the next turn, or the run is aborted.
LoopTop(n) ==
    IF n < MaxSteps THEN pc' = "model" /\ UNCHANGED emitted
    ELSE /\ pc' = "done"
         /\ emitted' = [status |-> "aborted", steps |-> n, transcript |-> transcript']

\* A turn that asks for tools: they are dispatched one after the other.
TurnWithCalls(asked) ==
    /\ asked # <<>>
    /\ calls' = asked
    /\ messages' = Append(messages, [role |-> "assistant", calls |-> asked])
    /\ pc' = "call"
    /\ UNCHANGED emitted

\* A turn that asks for none: the run is over, unless a required tool has
\* not succeeded yet, which the model is told.
TurnWithoutCalls(asked) ==
    /\ asked = <<>>
    /\ IF Required \subseteq successful
       THEN /\ pc' = "done"
            /\ emitted' = [status |-> "done", steps |-> steps, transcript |-> transcript']
            /\ UNCHANGED messages
       ELSE /\ messages' = Append(messages, [role |-> "user", calls |-> <<>>])
            /\ LoopTop(steps)
    /\ UNCHANGED calls

\* The next request to the provider, which turns down what it does not understand.
Ask ==
    /\ pc = "model"
    /\ steps' = steps + 1
    /\ IF Accepts(provider, Wire(provider, messages))
       THEN pc' = "stream" /\ UNCHANGED client
       ELSE pc' = "persist" /\ client' = Hear("error")
    /\ UNCHANGED <<still, row, calls, successful, messages, transcript, emitted, dataVars, audits>>

\* What the provider may send next: the beginning of a call, or more of one.
Fragments ==
    LET n == Len(stream.said) IN
    {f \in [index : {n + 1}, name : Names, args : 0 .. 1] : n < MaxCalls}
        \cup [index : {i \in 1 .. n : stream.said[i].args < MaxPieces}, name : {NoName}, args : {1}]

Said(f) ==
    IF f.name # NoName THEN Append(stream.said, [name |-> f.name, args |-> f.args])
    ELSE [stream.said EXCEPT ![f.index].args = @ + f.args]

Fragment ==
    /\ pc = "stream"
    /\ \E f \in Fragments :
        stream' = [said |-> Said(f),
                   slots |-> IF Adapter(provider) = "openai" THEN Gather(stream.slots, f) ELSE <<>>]
    /\ UNCHANGED <<body, provider, pc, row, loopVars, emitted, dataVars, audits, client>>

\* Seeded fault: a turn without calls is left out of the transcript.
TurnUnrecorded ==
    /\ pc = "stream"
    /\ LET yielded == Yielded(provider, stream.said, stream.slots)
           asked == [k \in DOMAIN yielded |-> yielded[k].name] IN
        /\ transcript' = IF asked = <<>> THEN transcript ELSE Append(transcript, asked)
        /\ TurnWithCalls(asked) \/ TurnWithoutCalls(asked)
    /\ stream' = NoStream
    /\ UNCHANGED <<body, provider, row, steps, successful, dataVars, audits, client>>

\* The answer ends, wherever max_tokens ends it, and the turn is made of what it holds.
Turn ==
    /\ pc = "stream"
    /\ LET yielded == Yielded(provider, stream.said, stream.slots)
           asked == [k \in DOMAIN yielded |-> yielded[k].name] IN
        /\ transcript' = Append(transcript, asked)
        /\ TurnWithCalls(asked) \/ TurnWithoutCalls(asked)
    /\ stream' = NoStream
    /\ UNCHANGED <<body, provider, row, steps, successful, dataVars, audits, client>>

\* The provider cannot be reached, or the answer breaks off: an error event, and run returns.
TurnFails ==
    /\ pc = "stream" /\ "adapter" \in Faults
    /\ client' = Hear("error")
    /\ pc' = "persist"
    /\ stream' = NoStream
    /\ UNCHANGED <<body, provider, row, loopVars, emitted, dataVars, audits>>
-----------------------------------------------------------------------------
(* ToolDispatcher.call and what run does with the result.                  *)

\* Seeded fault: a tool counts as successful whatever its result.
AnswerAll(success, heard) ==
    /\ successful' = successful \cup {Head(calls)}
    /\ client' = heard
    /\ calls' = Tail(calls)
    /\ IF Len(calls) > 1
       THEN pc' = "call" /\ UNCHANGED <<messages, transcript, emitted>>
       ELSE /\ messages' = Append(messages, [role |-> "tool", calls |-> Last(messages).calls])
            /\ UNCHANGED transcript
            /\ LoopTop(steps)
    /\ UNCHANGED <<still, row, steps, audits>>

\* Seeded fault: the turn ends at the first call that fails.
AnswerBreaking(success, heard) ==
    /\ successful' = IF success THEN successful \cup {Head(calls)} ELSE successful
    /\ client' = heard
    /\ calls' = IF success THEN Tail(calls) ELSE <<>>
    /\ IF success /\ Len(calls) > 1
       THEN pc' = "call" /\ UNCHANGED <<messages, transcript, emitted>>
       ELSE /\ messages' = IF success THEN Append(messages, [role |-> "tool", calls |-> Last(messages).calls])
                           ELSE messages
            /\ UNCHANGED transcript
            /\ LoopTop(steps)
    /\ UNCHANGED <<still, row, steps, audits>>

\* The call has returned; result is what the client makes of its event.
Answer(success, heard) ==
    /\ successful' = IF success THEN successful \cup {Head(calls)} ELSE successful
    /\ client' = heard
    /\ calls' = Tail(calls)
    /\ IF Len(calls) > 1
       THEN pc' = "call" /\ UNCHANGED <<messages, transcript, emitted>>
       ELSE /\ messages' = Append(messages, [role |-> "tool", calls |-> Last(messages).calls])
            /\ UNCHANGED transcript
            /\ LoopTop(steps)
    /\ UNCHANGED <<still, row, steps, audits>>

Dispatching(t) == pc = "call" /\ Head(calls) = t

\* Not in tools_by_name: a result without a status code.
CallNotOffered ==
    /\ \E t \in Names \ Offered : Dispatching(t)
    /\ Answer(FALSE, Hear("result"))
    /\ UNCHANGED dataVars

\* A handler in the process other than the replay; its exceptions become 500.
CallLocal ==
    /\ \E t \in (Offered \cap Local) \ {Replay} : Dispatching(t)
    /\ \E ok \in IF "local" \in Faults THEN BOOLEAN ELSE {TRUE} :
        Answer(ok, Hear("result"))
    /\ used' = used \cup {Head(calls)}
    /\ UNCHANGED <<objects, noted>>

\* The remote client turns every exception into 502.
CallRemote ==
    /\ \E t \in Offered \cap Remote : Dispatching(t)
    /\ \E ok \in IF "remote" \in Faults THEN BOOLEAN ELSE {TRUE} :
        Answer(ok, Hear("result"))
    /\ used' = used \cup {Head(calls)}
    /\ UNCHANGED <<objects, noted>>

\* A request to the service itself: any status.
CallRoute ==
    /\ \E t \in Offered \cap Routes : Dispatching(t)
    /\ \E ok \in IF "http" \in Faults THEN BOOLEAN ELSE {TRUE} :
        Answer(ok, Hear("result"))
    /\ used' = used \cup {Head(calls)}
    /\ UNCHANGED <<objects, noted>>

\* Seeded fault: nothing is noted of the run the request breaks off.
CallRaisesUnnoticed ==
    /\ "unreachable" \in Faults
    /\ \E t \in Offered \cap Routes : Dispatching(t)
    /\ used' = used \cup {Head(calls)}
    /\ client' = Hear("error")
    /\ pc' = "persist"
    /\ UNCHANGED <<still, row, loopVars, emitted, objects, noted, audits>>

\* The request raises (a refused connection, a timeout): nothing catches it
\* before the request handler, which makes up a summary.
CallRaises ==
    /\ "unreachable" \in Faults
    /\ \E t \in Offered \cap Routes : Dispatching(t)
    /\ used' = used \cup {Head(calls)}
    /\ client' = Hear("error")
    /\ emitted' = [status |-> "failed", steps |-> 0, transcript |-> <<>>]
    /\ pc' = "persist"
    /\ UNCHANGED <<still, row, loopVars, objects, noted, audits>>

\* replay_retrieval_plan up to its audit record: the plan fails, or its
\* result is stored under a key of its own.
CallReplay ==
    /\ Replay \in Offered /\ Dispatching(Replay)
    /\ used' = used \cup {Replay}
    /\ \/ /\ "local" \in Faults
          /\ Answer(FALSE, Hear("result"))
          /\ UNCHANGED objects
       \/ /\ objects' = objects \cup {Cardinality(objects) + 1}
          /\ pc' = "replayed"
          /\ UNCHANGED <<still, row, loopVars, emitted, audits, client>>
    /\ UNCHANGED noted

\* Seeded fault: the result is announced although its audit record failed.
RecordReplayAnyway ==
    /\ pc = "replayed"
    /\ LET n == Cardinality(objects) IN
       \E o \in Outcomes("tool_audit") :
        /\ noted' = IF Effective(o) THEN noted \cup {n} ELSE noted
        /\ Answer(TRUE, HearResult(n))
    /\ UNCHANGED <<objects, used>>

\* The audit record of the replay, and its answer.
RecordReplay ==
    /\ pc = "replayed"
    /\ LET n == Cardinality(objects) IN
       \E o \in Outcomes("tool_audit") :
        /\ noted' = IF Effective(o) THEN noted \cup {n} ELSE noted
        /\ IF o = "ok" THEN Answer(TRUE, HearResult(n)) ELSE Answer(FALSE, Hear("result"))
    /\ UNCHANGED <<objects, used>>

-----------------------------------------------------------------------------
(* The end of the run.                                                     *)

\* The generator comes back from the yield of the done event, and notes it.
Done ==
    /\ pc = "done"
    /\ client' = HearDone(emitted)
    /\ pc' = "persist"
    /\ UNCHANGED <<still, row, loopVars, emitted, dataVars, audits>>

\* Seeded fault: the summary of a run that was cut off is not written.
PersistDoneOnly ==
    /\ pc = "persist"
    /\ IF emitted.status # "done"
       THEN pc' = "audit" /\ UNCHANGED <<row, client>>
       ELSE pc' = "audit" /\ row' = emitted /\ UNCHANGED client
    /\ UNCHANGED <<still, loopVars, emitted, dataVars, audits>>

\* Seeded fault: the end of the generator waits for a summary.
PersistSummary ==
    /\ pc = "persist" /\ emitted # NoRow
    /\ row' = emitted
    /\ pc' = "audit"
    /\ UNCHANGED <<still, client, loopVars, emitted, dataVars, audits>>

\* The row takes the summary, if there is one.
Persist ==
    /\ pc = "persist"
    /\ IF emitted = NoRow
       THEN pc' = "audit" /\ UNCHANGED <<row, client>>
       ELSE \E o \in Outcomes("persist") :
            /\ row' = IF Effective(o) THEN emitted ELSE row
            /\ IF o = "ok"
               THEN pc' = "audit" /\ UNCHANGED client
               ELSE pc' = "gone" /\ client' = StreamBreaks
    /\ UNCHANGED <<still, loopVars, emitted, dataVars, audits>>

Audit ==
    /\ pc = "audit"
    /\ \E o \in Outcomes("audit") :
        /\ audits' = IF Effective(o) THEN 1 ELSE 0
        /\ IF o = "ok"
           THEN pc' = "end" /\ client' = StreamEnds
           ELSE pc' = "gone" /\ client' = StreamBreaks
    /\ UNCHANGED <<still, row, loopVars, emitted, dataVars>>

\* The peer disconnects or the process dies, at any suspension point.
Abandon ==
    /\ "peer" \in Faults
    /\ pc \in {"insert", "model", "stream", "call", "replayed", "done", "persist", "audit"}
    /\ pc' = "gone"
    /\ client' = StreamBreaks
    /\ UNCHANGED <<still, row, loopVars, emitted, dataVars, audits>>

Call == CallNotOffered \/ CallLocal \/ CallRemote \/ CallRoute \/ CallRaises
            \/ CallReplay \/ RecordReplay

ServerStep == Request \/ Insert \/ Ask \/ Fragment \/ Turn \/ TurnFails \/ Call \/ Done \/ Persist \/ Audit

Next == ServerStep \/ Abandon

Spec == Init /\ [][Next]_vars

\* The event loop runs a generator that can go on; adapters and tool requests give up after
\* a timeout of theirs, and the database, for which the code sets none, answers or fails.
FairSpec == Spec /\ WF_vars(ServerStep)
-----------------------------------------------------------------------------
(* Properties.                                                             *)

\* A retrieval that is told to be done has delivered its result, and whatever the client
\* takes for a result is stored, under a key of its own, and has its audit row: whichever
\* tools failed, however often they were called, and when the model gave up.
RetrievalIsDelivered ==
    /\ client.told.status = "done" /\ UseSkill => client.result # NoResult
    /\ client.result # NoResult => client.result \in objects \cap noted

\* The row tells the run: when the response ends in good order it says what the client was
\* told, and of a run that was not broken off it accounts for every turn of the model, in
\* particular for those that asked for no tool and were sent back. A run that a raising tool
\* request broke off between the calls of a turn is never left to be taken for running or done.
RowTellsTheRun ==
    /\ pc = "end" /\ client.told # NoRow => row = client.told
    /\ pc = "end" /\ calls # <<>> => row.status = "failed"
    /\ row.status \in {"done", "aborted"} =>
        row.steps = steps /\ Len(row.transcript) = steps /\ row.transcript = transcript

\* The loop never sends a conversation the provider does not take: each call of a turn,
\* refused, failed or done, has its answer before the model is asked again, and what was
\* answered was run if it was offered.
ProviderUnderstands ==
    /\ pc = "model" => Accepts(provider, Wire(provider, messages))
    /\ pc \in {"model", "done"} =>
        \A i \in DOMAIN messages : Range(Answers(messages[i])) \cap Offered \subseteq used

\* The calls that are run are those the model made, with their arguments, in whatever
\* pieces they came and however the pieces of several calls were mixed.
CallsAsSaid ==
    pc = "stream" => Yielded(provider, stream.said, stream.slots) = stream.said

\* Every request is answered: the response ends, or breaks.
ResponseEnds == <>(pc \in {"end", "gone", "rejected"} /\ client.outcome # "waiting")

(* Claims of the repository that the code does not keep.                   *)

\* "The final event is ("done", {...})" (Client.agent_run).
FinalEventIsDone == pc = "end" => client.last = "done"

\* agent_runs.status is "running|done|failed|aborted": a run whose response
\* has ended in good order is not running any more.
EndedIsSettled == pc = "end" => row.status # "running"

\* "If replay reports an identifier or SQL error, correct the plan" (retrieval_tools.py).
ReplayIsReported ==
    UseSkill /\ pc = "call" /\ Head(calls) = Replay => Shown(Replay) \cap {"error", "body"} # {}

\* "transcripts kept for replay + audit" (db/models.py, AgentRun).
TranscriptIsKept == pc = "end" /\ row.status # "running" => row.transcript = transcript
=============================================================================
