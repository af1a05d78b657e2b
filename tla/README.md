# Verification of lumid.data

lumid.data is a FastAPI service that puts one front on a PostgreSQL database, an
S3-compatible object store and streams of messages: raw SQL and storage routes with an
audit log, stream sources that are drained into tables or buckets, and an LLM agent that
uses all of this as tools. This directory holds TLA+ models of its stateful parts, two abstract
specifications they implement, the TLC runs that check them on small instances, and proofs, for
instances of every size, of every safety property the runs check. Paths below are relative to the repository, and
`src/lumid_data/` is left off where it is obvious.

| file | what it is |
| --- | --- |
| `KafkaGroup`, `StreamRunner` | the broker as the code uses it; the supervised consumer tasks, state requests and the lifespan |
| `WorkerSlots`, `MessageFate` | abstract: one worker per source; what may become of a message |
| `StreamRunnerProofs` | theorems about `StreamRunner`, with their proofs: types and supervision, both refinements, sources that are on, counters, copies |
| `StreamIngestProofs`, `AgentRunProofs`, `DataPlaneProofs`, `SchemaCardsProofs`, `PlanReplayProofs`, `ToolCatalogProofs` | theorems about the module of that name |
| `SequenceFacts` | lemmas about sequences, loops over them and `FlattenSeq`, with the induction they rest on |
| `StreamIngest` | registration, webhooks, websockets, dead letters and their replay, the two sinks; it implements `MessageFate`, as `StreamRunner` does |
| `ChatAdapters` | the LLM adapters: conversations for each provider, tool calls from streamed pieces |
| `AgentRun` | one agent run: request, tool loop, event stream, stored summary, client |
| `DataPlane` | storage and SQL routes with the audit log |
| `ScopeText` | how a scope of schema cards is read, character by character |
| `SchemaCards` | the schema-card cache and the builder behind it |
| `PlanReplay` | the execution of a retrieval plan and the tool around it |
| `ToolCatalog` | the tool names of routes and remote servers, and the two dispatchers |
| `MC*` | the same modules on small instances; one `.cfg` per run |
| `PROJECT.json` | which definition models which lines, runs, seeded faults, hazards, theorems |

## 1. Inventory

### Components, their state and operations

**Stream runner** (`streams/runner.py`, `streams/kafka.py`, `streams/registry.py`,
`streams/sinks.py`). State: `_tasks`, a dict from source id to asyncio task, and in the
database `stream_sources.state`, `stream_runs` (status, counters) and `stream_dlq`.
Operations: `start_all_active`, `spawn`, `stop`, `stop_all`; the supervisor `_supervise`,
which restarts `_run_once` after a crash; `_run_once`, which reads the source, opens a run,
starts a consumer and takes each message through state check, sink and counter, or on an
exception to the dead letters. *Interactions:* `POST /v1/streams/{id}/state` commits the new
state and then calls `spawn` or `stop`; the lifespan calls `start_all_active` and `stop_all`;
the Kafka group decides who gets which record and commits positions on a timer. *Hard:*
every await is a point where a request, a cancellation or a failure gets in. *Correct when:*
a source has one task at most that was not told to stop, an active one has one, a switched
off one is quiet once the request is answered, a task that was told to stop is awaited, and
a message that was taken is stored or parked, the counters accounting for it.

**Passive ingest** (`server/routers/streams.py`, `StreamRunner.deliver`, `streams/sinks.py`).
State: the source row, the landing table or the bucket, `stream_dlq`. Operations: `register_stream`
with its checks and the landing table it makes, the webhook and the websocket handler, `deliver`,
`write_dlq`, `replay_dlq`, `set_stream_state`. *Hard:* a sink that registration accepts and a
write does not, the switch thrown while a body is awaited, two replays of one row, a crash
between delivery and mark, object keys made of a millisecond and a frame number. *Correct when:*
what is accepted is in the sink and nothing but a message with the same name takes its place there,
nothing a handler got hold of vanishes, what comes to a source that is off stays out, and no dead letter is closed before the sink has it.

**Agent run** (`server/routers/agent.py`, `agent/runner.py`, `agent/providers/`,
`server/skills.py`, `server/services/retrieval_tools.py`, `sdk/core.py`). State: the `agent_runs`
row, the conversation, the answer that is being streamed, the transcript, the set of successful
tools, what the client has heard. Operations: the request, each turn of the model with its
fragments, each tool call by kind, the end of the run. *Hard:* calls whose fragments arrive mixed,
several calls in a turn of which some fail, a provider that demands an answer to each, the required
tool that never succeeds, exceptions at each await, a peer that goes away. *Correct when:* the calls
that are run are those the model made, a conversation is one the provider takes, a run told as done
has its result stored and audited, and row and event agree, those of a run that was broken off included.

**Storage, SQL, audit** (`server/routers/storage.py`, `server/services/s3.py`,
`server/routers/sql.py`, `server/services/audit.py`). State: bucket, objects, effects of
statements, `audit_log`, the NATS fan-out. *Hard:* HEAD and PUT as two calls, a repeated
request, uploads with presigned URLs past the service, a crash between effect and log.
*Correct when:* a PUT writes once, an answered call is in the log, and the log does not claim
what did not happen.

**Schema cards** (`retrieve/card_store.py`, `retrieve/card_builder.py`,
`retrieve/schema_card.py`). State: one object per key, the key made of the text of a scope.
*Hard:* names with quotes, commas and dots that two tokenizers read; two callers that rebuild at
once while tables come and go; cards of different ages in one bundle; entries that are written
and cannot be read. *Correct when:* the cards a caller gets are of the tables it means, but for
what changed or failed, no unreadable entry or missing table fails a call, and a table that is gone
is forgotten within a lifetime.

**Plan replay** (`retrieve/replay.py`). State: the output file, its csv header, the access
path, the effects of statements. *Hard:* a failure in the middle of a plan, reads of a moving
database, an object whose stream breaks off, one writer for queries with different columns.
*Correct when:* only a whole result is stored and the answer describes it.

**Tool catalog** (`agent/tools.py`, `agent/runner.py`, `mcp_server/server.py`,
`remote/client.py`). State: what the remote server offered at start-up and offers now, what a
run was offered. *Hard:* a route is read four times (name, template, schema, router), a
remote server that changes. *Correct when:* a call reaches the handler it was made of with
its arguments, what is listed is served, a run uses only what it was offered.

**Left out:** the text checks of `sql.py` and the role of its session, `retrieve/planner.py`
(pure parsing that nothing calls), identity providers (a loop that no route calls), admin and health
queries, configuration, the command line (one
SDK call per command) and the release scripts. `PROJECT.json` lists every source file.

### What is hard to test here

`PROJECT.json` lists the hazards by line. The recurring ones: (1) the gap between the commit
of a state and the action on it, (2) exceptions that replace a cancellation in a `finally`,
(3) calls that fail after they took effect, (4) auto-commit of positions of records that are
still in hand, (5) the order of effect, log and answer, (6) cached or listed things that are
stale when used, (7) a text or a record that one piece of code writes or accepts and another reads
by rules of its own. Some are covered in part only, or by no property of a run. For most of
those the code breaks the property they call for (section 7): a `finally` clause that raises, a dead letter or error counter that fails, the switch
thrown while a request or a connection is at work, an adapter error without a summary, an S3 error
or a crash before the audit record, a failed card that is cached as a gap, csv rows that lose columns. The
other is a Kafka record in the hand of a task that is cancelled: auto-commit gives it up, and
`MessageFate` says so.

## 2. Modelling conventions

* *One await, one step.* asyncio runs a coroutine without interruption up to its next
  await, so an action is the code from one await to the next. A `pc` names the suspension.
* *Failures.* An awaited call whose name is in `Faults` has the outcomes `ok`, `lost`
  (raised, no effect) and `applied` (raised, took effect all the same). A cancelled task gets
  `CancelledError` in the await it is suspended in, with the same two outcomes.
* *A message is a name:* an offset, a request, a connection and a frame number. Payloads are
  left out: no decision of the code depends on them except whether they can be read.
* *History variables* (marked so) record what happened for the sake of a property and are
  read by no action.
* *Seeded faults.* An operator whose comment begins "Seeded fault" is a variant of its
  neighbour with a plausible bug. No specification uses it; `PROJECT.json` names, for every
  property of every passing run, the variant that violates it.

What the abstraction gives away: there is no clock but in `SchemaCards` and `StreamIngest`,
so the backoff of the supervisor is a step of any length; a failed `open` of a consumer leaves
no group member behind; a deserialisation error is one outcome of taking a record; the
synchronous S3 client holds the event loop between its calls in `DataPlane` (`loop`), which
is what makes HEAD and PUT atomic there, and nowhere else; tool names keep their words apart
where the code joins them by underscores and cuts at 64 characters.

## 3. Modules

### StreamRunner and KafkaGroup

| code | model |
| --- | --- |
| `StreamRunner._tasks` | `registered` |
| a task object and where it is suspended | an element of `Tasks`, `pc`, `exit`, `cancelReq` |
| `stream_sources.state`, `stream_runs` | `state`, `row` |
| `_run_once` | `Get`, `Leave` (the end of the session when the source is off), `OpenRun`, `NoBootstrap`, `Open`, `TakeRecord`, `PollRaises`, `Check`, `Write`, `Bump`, `WriteDlq`, `BumpErr`, `Close`, `CloseRun` |
| `_supervise` | `Backoff`, `Escape` |
| `spawn`, `stop`, `stop_all` | `Spawn`, `Stop` and `Return`, `StopNext` and `StopReturns` |
| `POST /v1/streams`, `POST .../state` | `Register`; `SetState` (the commit) and `Act` (what follows) |
| lifespan | `Boot`, `BeginShutdown`, `Exit`; `Crash` is the death of the process |
| consumer group | `Join`, `Assign`, `Take`, `AutoCommit`, `Depart`, `LoseMembers` |

A task identity is used again only when nothing refers to the old task (`Free`), as with
objects in Python. The group has one partition per source: who owns it is the part of the
protocol that matters when a draining task and its successor are both members. A group without a
committed position starts at one end of the log: `Earliest`. The code's default is `"latest"`, which
`stream_live` uses; the other runs start at the first record, where one more may come again.

### StreamIngest

The body of the `POST /v1/streams` that makes the source is chosen at the start (`setup`); `Register`
is the handler with its checks, and `LandingMade` what `ensure_postgres_landing` asks of names and
hypertables. `Deliver` and `Park` are `StreamRunner.deliver`; `Delivered` and `Raised` are what its three
callers make of it. An object key is a millisecond and a tag, as in `_write_s3` and `_offset_tag`: the tag
is the number of the frame for a websocket, and the same word for every webhook and every replay, so two of
them in a millisecond have one object, which `put_object` overwrites. `WriteOutcomes` says that a sink
without a prefix cannot be written to. The history variable `written` keeps when each message was
written, and with which offset; *twins* are two messages with one such entry in common.

### WorkerSlots and MessageFate

`WorkerSlots`: every source has a slot. A worker comes into an empty slot only; it leaves the slot by
ending or by being told to stop, and from then on it drains. `StreamRunner` implements it under
`SlotOf` (the entry in `_tasks` while that task is not done) and `DrainingOf` (tasks at work that are not
the entry).

`MessageFate`: a message that was received is held until it is kept; a held one may be lost only if the
process changed its life or if it was *cut off*. Both stream modules implement it, `FateOf` being
"stored or parked", "in hand", "taken and nowhere" or "unseen". What each calls `CutOff` is the whole
list of exceptions: in the runner a record in the hand of a task that is cancelled, finds its
source off, cannot read the state or cannot park; in passive ingest a message whose dead-letter
insert fails. Both specifications speak of all sources, or all messages, at once, because one step of
the code may move several: a crash takes whatever is in hand.

### AgentRun and ChatAdapters

One run, since runs share nothing but the database, where each has its row. The request
(`body`) is one of a set, and so is the provider, `"none"` for a service without one. `Offered` and
`Required` are the skill tables and the filter of the handler, `Shown` what of a result the model is
let to read. `openai` and `openai_compat` are one adapter; what differs is the server behind it. The
interface of OpenAI demands the ids of calls; of a compatible server the code knows nothing but its address,
so `Accepts` lets it take every conversation, and `ProviderUnderstands` says nothing about it: that claim is
about `anthropic`, where it holds, and `openai`, where it does not (section 7). Every fragment has an
index and every first fragment a name; a missing index, read as 0, a missing id, for which the name is taken,
and arguments that are no JSON, kept as text (`agent/providers/openai.py:61-87`), are not modelled. A turn is `Ask` (the request to the provider,
which turns down a conversation it does not understand: `Wire` is the conversion of the adapter,
`Accepts` what the two interfaces demand), any number of `Fragment`s, and `Turn` when the answer ends
or `TurnFails` when it breaks off. A fragment has the index of its call, and a name only if it is the
first of that call; `Gather` is `pending_calls` of the OpenAI adapter, while the library of the other
gathers by itself. `Call...` are the branches of `ToolDispatcher.call`; `CallReplay` and `RecordReplay` are the
two awaits of the replay tool; `client` is what `Client.retrieve` makes of the events.
`Abandon` ends the generator at any suspension point.

### DataPlane

`ReadBody`, `Head`, `PutObject`, `MakeBucket` are `put_idempotent`, `StoreCall` the other routes,
`Execute` is `_execute` of `sql.py`, `Commit` and `Publish` are `AuditWriter.record`. Clients
send a request again when its answer was a 500 or none.

### ScopeText and SchemaCards

`ScopeText` reads a scope as the code does, over sequences of characters: the builder's
`_split_scope_parts` and `_split_top_level`, which know quotes, the cache key, which splits at every
comma and strips the pieces, and the names a card shows and PostgreSQL is given. `SchemaCards`: a
caller *means* a set of tables (`Scopes`, `Means`) and
writes it down (`Written`), so that a property can compare what is meant with what comes back.
`Get`, `Refresh` and `Save` are `SchemaCardCache`, `Resolve` and `BuildCard` the builder; `Change` is
another session that creates or drops a table.

### PlanReplay, ToolCatalog

`PlanReplay`: one action per operation kind (`RunSelect`, `RunWrite`, `RunGet`, `RunRaw`), then `Store`
and `Answer` of the tool; a row of a result is known by its operation and the columns it lacks. `Change` is
another client between any two of these steps: it inserts or deletes a row, uploads or deletes an object.
`ToolCatalog`: `Routes` is the real route table, `Catalog` and `RouteByName` the two readings of it,
`Filled` the substitution of path parameters and `Reached` the router that gets the result.

## 4. Runs

| run | instance | what it shows |
| --- | --- | --- |
| `stream_control` | one source, three tasks, two state requests at a time, a crash, one record | `OneTaskPerSource`, `CancelHasWaiter`, `PauseIsPending`, `PauseIsQuiet`, `SlotsImplemented` |
| `stream_faults` | two sources of which one has no bootstrap address, requests one at a time, every await but the commit of a state may fail, a crash | `RunAccounts`, `TwiceOnlyIfUnclean`, `ActiveHasTask`, `FatesImplemented` |
| `stream_live` | one source, one request at a time whose commit may stay without its action, `"latest"`, two records, fair | `EventuallyTaken`, `StopAnswers`, `ShutdownEnds` |
| `ingest_passive` | two posts into a table or into objects, or a websocket into objects, with and without a prefix, bodies that are refused, two replayers, failures, a crash | `OnlyTwinsReplace`, `ParkedUntilStored`, `OffAtTheDoor`, `FatesImplemented` |
| `agent_run` | four requests, three providers, two turns of up to two streamed calls, all failures | `RetrievalIsDelivered`, `RowTellsTheRun`, `ProviderUnderstands`, `CallsAsSaid`, `ResponseEnds` |
| `data_requests` | two requests of any route, each sent up to twice, an upload, a crash, all failures | `AnsweredIsAudited`, `PutIsIdempotent`, `LoggedHasHappened` |
| `cards_cache` | two callers, three scopes over three tables, lifetime one, a change of the catalog, all failures | `AnswerFitsScope`, `FailsOnlyByFault`, `GoneIsForgotten` |
| `replay_tool` | two calls, eight plans, three formats, all failures, another client | `AnswerFitsResult`, `StoredIsWhole`, `EffectsInOrder` |
| `tools_calls` | the route table, both callers, every tool and argument, a remote server that changes twice | `RouteIsReached`, `ListedIsServed` |
| `stream_lost_activation` | two overlapping requests | finding: `ActiveHasTask` is violated |
| `ingest_prefix` | a webhook into objects without a prefix, no failure | finding: `RegisteredSinkWorks` is violated |
| `tools_path` | calls of object tools | finding: `ArgumentsAreObeyed` is violated |

Each module's `TypeOK` is an invariant of one of its runs.

**Bounds.** *Tasks, handlers:* a source has at any time the task in the table and those that
drain; two handlers make every overlap of two requests, and a third identity lets a draining
task, a finished one that is still in the table and a new one exist together. `stream_live`
has two identities, so a spawn waits while two tasks drain, and two records, so that one may
be left when a task ends with the other; `stream_faults` has two for its two
sources, so that either may have a successor beside its draining task. *Records:* elsewhere one is enough for the fate of
a record, and a second consumer that starts from a committed position sees it again.
`MaxCopies = 2` saturates counters that are only compared with 0 and 1. *Crashes:* one; what a
crash leaves behind is a state of the stores that the next start finds, and a second one
finds nothing of another kind. *Agent:* with two turns of two calls there is a turn after a
failure, a second replay, a call not offered beside one that is, and the last turn allowed; two
pieces of arguments for each call let the pieces of two calls alternate.
*Ingest:* two posts, or two replays of two posts, may share a millisecond or not (`MaxClock = 1`), and
a frame may be written by its connection and again by a replay. *DataPlane:* two requests of one key, each repeated, give every order of two writers and a
deletion. *Cards:* with a lifetime of one and one tick an entry expires, a card may be built
before the tick and the next one after it, and a table may go at either moment. One table has a comma
in its name, one is in a system schema, one has a card that cannot be read back. *Replay:* eight
plans with each kind of operation alone, repeated and mixed.
The symmetry sets are of interchangeable identities and used in safety runs only.

**Deadlock** is checked in the runs of `StreamRunner`, `SchemaCards` and `ToolCatalog`, where something can always
happen. In the others requests are finite and all of them answered is an end.

## 5. Fairness

`StreamRunner!Fairness` asks for weak fairness of each task's step, of the second half of a
request (`Act`, `Return`), of the steps of `stop_all`, and of the broker giving an owner to a group
that has none. The event loop runs every callback that is ready. That the awaited calls come back is assumed
of what they talk to, not guaranteed by the code: the service sets no timeout for PostgreSQL,
so a database that neither answers nor closes its connections stops a task, or a
response, for good. A broker that never assigns is a broker that is down. Nothing is
assumed of requests, records, shutdowns and crashes. A task in `fetch` has no step without a record or a
cancellation, so fairness does not make up records. `AgentRun` asks for fairness of the server's
step: its generator is resumed while the response is read, adapters and tool requests time out, and the
database is assumed to answer or to fail, as above; that a streamed answer ends is bounded by `MaxCalls` and `MaxPieces`, as
`max_tokens` bounds it. `EventuallyTaken` is about a source with a task that has not decided to return
(`Attended`) and that is left alone by requests; that a source has a task is `ActiveHasTask`. The two do not meet when
the commit of a state fails after its effect: a task that saw "paused" and is on its way out is still in the
table, the next activation finds it there, and nobody takes its place (section 7).

## 6. Proofs

The theorems hold for all sets of sources, tasks, handlers, requests, callers, all bounds and, where
not said otherwise, all `Faults`. What is assumed of the constants is named where they are declared
(`...Assumption`) and evaluated by TLC on the instances.

| theorem | statement | extra assumption |
| --- | --- | --- |
| **`StreamRunnerProofs`** | | |
| `TypeCorrect` | `Spec => []TypeOK` | |
| `OneTask` | `Spec => [](NoOrphan /\ OneTaskPerSource)` | `CleanupReliable` |
| `CancelsAreAwaited` | `Spec => []CancelHasWaiter` | `CleanupReliable` |
| `PauseReachesTask` | `Spec => []PauseIsPending` | `CleanupReliable`, `StateCommitReliable` |
| `QuietAfterPause` | `Spec => PauseIsQuiet` | `CleanupReliable`, `StateCommitReliable` |
| `RunnerImplementsSlots` | `Spec => SlotsImplemented` | |
| `OnHasItsTask` | `Spec => []ActiveHasTask` | `StateCommitReliable`, `[]OneRequestEach` |
| `RunnerImplementsFates` | `Spec => FatesImplemented` | |
| `CountersAccount` | `Spec => []RunAccounts` | |
| `CopiesOnlyAfterUnclean` | `Spec => []TwiceOnlyIfUnclean` | |
| **`StreamIngestProofs`** | | |
| `IngestTypes` | `Spec => []TypeOK` | |
| `OffIsOffAtTheDoor` | `Spec => []OffAtTheDoor` | |
| `DeadLettersStayOpen` | `Spec => []ParkedUntilStored` | |
| `AcceptedStaysInSink` | `Spec => []OnlyTwinsReplace` | |
| `IngestImplementsFates` | `Spec => FatesImplemented` | |
| **`AgentRunProofs`** | | |
| `RunTypes` | `Spec => []TypeOK` | |
| `DoneIsDelivered` | `Spec => []RetrievalIsDelivered` | |
| `RowIsTrue` | `Spec => []RowTellsTheRun` | |
| `CallsAreThoseSaid` | `Spec => []CallsAsSaid` | |
| `ConversationsAreTaken` | `Spec => []ProviderUnderstands` | the provider is not `"openai"` |
| **`DataPlaneProofs`** | | |
| `DataPlaneTypes` | `Spec => []TypeOK` | |
| `PutsAreIdempotent` | `Spec => []PutIsIdempotent` | |
| `AnswersAreAudited` | `Spec => []AnsweredIsAudited` | |
| `LogIsTrue` | `Spec => []LoggedHasHappened` | |
| **`SchemaCardsProofs`** | | |
| `DroppedTablesAreForgotten` | `Spec => GoneIsForgotten` | |
| `TypeCorrect` | `Spec => []TypeOK` | |
| `FailuresHaveCauses` | `Spec => []FailsOnlyByFault` | |
| `AnswersFitScopes` | `Spec => []AnswerFitsScope` | `KeysTellApart` |
| `PlainAnswersFit` | `Spec => []AnswerFitsScope` | `PlainNames` |
| `ScopesAreComplete` | `Spec => []ScopeIsComplete` | `KeysTellApart`, `QuotelessNames`, `"card" \notin Faults` |
| **`PlanReplayProofs`** | | |
| `ReplayTypes` | `Spec => []TypeOK` | |
| `OnlyWholeIsStored` | `Spec => []StoredIsWhole` | |
| `EffectsAreInOrder` | `Spec => []EffectsInOrder` | |
| `AnswersFit` | `Spec => []AnswerFitsResult` | |
| **`ToolCatalogProofs`** | | |
| `TypeCorrect` | `Spec => []TypeOK` | |
| `Served` | `Spec => []ListedIsServed` | |
| `Arrives` | `Spec => []RouteIsReached` | `OneSegment` |

*The extra assumptions* are each the condition under which the code keeps the property; without
it there is a counterexample that section 7 describes.

* `CleanupReliable`: `source.close` and `close_run` in the `finally` clause do not raise. Otherwise
  a cancelled task comes back outside the table.
* `StateCommitReliable`: `set_state` does not raise after its commit; otherwise the row says
  "paused" and nobody acts on it.
* `OneRequestEach`: no two requests about one source are served at once, which is what the run
  `stream_lost_activation` breaks. It is a condition on behaviours, since nothing in the code ensures it.
* the provider: the adapter of the plain OpenAI interface sends calls and results as text.
* `KeysTellApart`: two scopes of the callers share a key only if they mean the same tables. The key splits
  at every comma, quotes or not, and strips the pieces, so a name with a comma may be taken for another with
  blanks after it, and the names of `"a,b".t,"c,d".u` for those of `"a,d".u,"c,b".t`. `PlainNames`, that no name has a
  comma, implies it; nothing else need be asked of names. The scopes of `cards_cache` satisfy the first and,
  having a comma in a name, not the second.
* `QuotelessNames`: no name has a quote in it. `regclass_literal` does not double quotes, so only then every table
  has a literal (`QuotelessIsNameable`).
* `OneSegment`: the argument for a bucket, a source, a dead letter or a run is one segment of a path.
  The dispatchers put arguments into the url as they are, so one with a "/" in it leads to another route or to none.

### Facts about sequences

The library's induction theorems have an operator as a parameter, which the provers do not take. `SequenceFacts`
proves an induction principle for *sets* instead, from the well-foundedness of the strict subsets of finite sets
(`FiniteSetTheorems`): a set of sequences that has the empty one and is closed under `Append` has all
(`SequenceInduction`). On it rests the lemma about loops, `Iterated`: a function that is defined by
recursion over the positions of a sequence is the one that takes a step for each element, and goes
on after a first part of the sequence from where that part left it. `FlattenSeq` of the community modules and the loops of
`ScopeText` and `SchemaCards` (`Scanned`, `Undoubled`, `Reading`, `Distinct`) are instances, so what they compute is
proved for texts and lists of any length.

### The stream runner

*Argument.* `TypeOK` is not inductive: that a message in hand is a record and a waiting request
names a task has to be said (`TypeInv`). `OneTaskPerSource` is not inductive either, because
`spawn` only looks at the task in the table. `SupervisionInv` adds what makes that look
sufficient: a task at work that was not told to stop *is* the one in the table (`NoOrphan`); the one
in the table belongs to that source (`RegisteredIsOurs`); how a task's try block ended fits where it
is (`ExitShape`); who waits for a task waits on behalf of its source (`WaiterKnowsSource`); and
while `stop_all` runs no request is being served (`ShutdownIsAlone`). A task leaves the table only in
`stop`, which cancels it in the same step, and a cancelled task can end only as cancelled as long as
the clean-up does not raise: that is where the assumption is used. `PauseIsPending` adds that a
commit of a state is followed by its action; `PauseIsQuiet` is then a property of single
steps: whoever writes is at work for a source that is on, or for one with an unanswered request.
The proofs go action by action, with one lemma for each group of actions and invariant.

*The refinement.* `RunnerImplementsSlots` needs less than the invariants above and no assumption
about faults: that the table maps a source to a task of that source (`OwnSource`) and that a server
that is down has no task (`ShutdownIsAlone`), together `SlotInv`. A step of a task can only empty the
slot it holds or end a draining one; `spawn` takes an identity nothing refers to and fills an empty
slot; `stop` turns the worker of a slot into a draining one; a start fills the slots of a table that
was empty; the end of a process empties all. What it does not say, and `OneTask` does, is that
what drains was told to: with a `finally` clause that raises, a task outside its slot may be at work
again, and for `WorkerSlots` it is still draining.

*A source that is on has its task.* `ActivationInv` adds to `ActiveHasTask` what a request holds on to: from
its commit to its answer the state of its source is the one it asked for, and one that waits for a task has
emptied the slot (`RequestsHold`); while the server is up, a source that is off has no task that is kept but by a
request that is about to stop it (`OffIsStopped`); a task does not return while its source is on
(`OnDoesNotReturn`), but for the one without a bootstrap address (`WithoutBootstrap`). It needs no
assumption about the `finally` clause: a task that is restarted outside the table does not take the slot.

*Records.* `FatesImplemented` needs one fact, `HandInv`: a record in a hand was handed over, and
one that is about to be counted is stored, or parked, already. Each step of a task is then one of six kinds
(`Idles`, `Picks`, `Carries`, `LetsGo`, `Writes`, `Parks`), and each kind is one of `MessageFate`. `Accounts` says
at every suspension point by how much the counters may lag behind, the case of a message counted as processed and
then parked included. For copies, `Once` follows the position of the group: as long as all consumers of a source
flushed, the group goes on after everything that was handed over, so nothing comes again.

### Passive ingest

`IInv` is the conjunction of the types by owner (`TypeInv`), of what a phase says of a hand
(`HandsFit`), of where messages come from (`NothingInvented`, `ReceivedOnce`), of requests that met a
source that was off (`TurnedAway`), and of `RowsLeft`: dead letters fill the table from the first row on, and the
rows left are enough for all hands that may still need one. `RowsLeft` is about the number of elements of sets
and is why the bound on dead letters never blocks a handler. `ParkedUntilStored` is inductive together
with `OpenUntilWritten`, whose core is that a replay that is about to mark a row has seen the message
written: two replays of one row only write it again. `WrittenFits` ties the history to the sink: what is in a
table or an object was written there, and where something was written there is something. So every message that was ever
written is in the sink, or each of its objects has another message, which wrote the same key: a twin
(`SinkHoldsWritten`). The refinement is shown for each
kind of step (a message arrives, is stored, is parked, is given up, the process dies), with all other
messages where they were.

### Agent run

`IInv` ties the pieces of a run together: what the adapter gathered is what the model said so far (`Gathered`);
which turn and which of its calls a suspension point is at (`Place`); results are numbered in
the order they are made, one for a call at most (`Numbered`); a replay that is being recorded
has stored its result (`Replaying`); what the client took for a result was announced by a replay that succeeded
(`Announced`); the summary is made at the end of the run, and client and row have theirs from there
(`Summarized`); calls are left over only by a run that was broken off, whose summary says so
(`BrokenOff`). `CallsAsSaid`, `RowTellsTheRun` and `RetrievalIsDelivered` follow.
`Conversation` says that every message that asks for calls is followed by the message with all their
results, and that while calls are made the last one asks for those: each is made already or left to make. `Wire` keeps this for each provider but the plain
OpenAI interface. The lemmas about `Gather` take one fragment at a time, so the bounds on calls and pieces are arbitrary.

### Storage, SQL, audit

`Shape` holds the types, what a phase says of the request and that a row is there before it is published;
`AbsentIsUnwritten` makes `PutIsIdempotent`
inductive (a key without an object has not been written since its last deletion, and a HEAD that found
nothing is still right at the PUT because the event loop is held); `RecordIsTrue` says that a request that is
about to be logged did what the row will say, which makes `LoggedHasHappened` inductive although later requests
may undo it; that nothing is announced which is not in the log is part of `Shape`. `AnsweredIsAudited` is about the very attempt, so a repetition cannot lean on the row of an
earlier one.

### Schema cards

*The text of a scope.* The tokenizer is a loop whose state is what it split off, the piece it is in, and whether it is
inside quotes. `ReadThrough` is the set of texts that take it from outside quotes to outside quotes and
split nothing; it is closed under concatenation, a plain name is in it, and so is any name in quotes with its
own quotes doubled. Hence what `SqlIdentifier` writes is read back as the name (`WrittenName`), what a caller
writes for an entry is read as that entry (`FormIsRead`), and a scope falls apart into its entries
(`ScopesAreTold`, `PartsAreEntries`), for names of any characters and any separator that is a comma between
blanks. Three facts come out of it, which the theorems use: a text is a scope unless an entry is a name
alone or a `*` has company (`WellFormedIsRead`); a scope resolves to the tables it names and those that
exist and are meant, each once (`ResolvedIs`); without commas in names the key is the set of entries with their
numbers and so tells scopes apart (`PlainKeys`).

*The cache.* `DatedInv` says of every card, in the cache or in a hand, that it is not of the future and that its table
is there or has changed since it was built; a card that is served is younger than the lifetime, so a table that was dropped a
lifetime ago has none. `AnswersInv` carries `Complete` along a build: what is still to do, what is in the
bundle, and what changed or failed meanwhile cover the scope, for calls and for what is stored, whoever
built it; `KeysTellApart` is used once, where a bundle that was built for one scope is found under the key of another.

*No gaps.* `ScopeIsComplete` is a claim of the text that the code does not always keep (section 7).
`ScopesAreComplete` says that the reasons found there are all there are: without a quote in a name the literal of a
table is split into its two names and read back as them (`QuotelessIsNameable`, from the lemmas on the
tokenizer), without a failing card nothing is left out on purpose (`NothingLeft`), and `AnswersInv` does the rest. TLC
agrees on the instance of `cards_cache` without `"card"` among the faults, and refutes the claim as soon as one of the
three assumptions is dropped.

### Plan replay

`IInv` says how far the effects of the plan are, in each phase (`Effects`), how many records of each operation are
in the output and in which order (`Counted`, `Ordered`), and what was answered (`Answered`). The tables occur in it
with their types only, so it holds whatever other clients do to them. Sequences of records and of the access chain are extended by one
operation at a time; the number of records of an operation is obtained from the sequence by the facts of
`FiniteSetTheorems`, without induction.

### Tool catalog

The route table is the real one, so the proofs go through its twenty-five rows; values, remote tools,
callers and limits are arbitrary. `Served` needs one fact beyond the types, `OfferedOwned`: a run is
offered remote tools only if there is a client, which from then on owns their names, open or closed, so a call of
one may fail but is not unknown. `Arrives`: `Filled` flattens one segment per word (`FlattenSingletons`), so with `OneSegment` the url
has as many segments as the template, and any two routes of a method differ in their number of segments or in
a word that both spell out. An argument equal to a word of another route does no harm for that reason.

### What is only model-checked

* Liveness, and whatever needs `ENABLED`: `EventuallyTaken`, `StopAnswers`, `ShutdownEnds`, `ResponseEnds`. The
  prover has no rules for them.
* That the extra assumptions are needed: the counterexamples of section 7 and the instances there.
* The name a card shows (`FqName`): that it is not always read back is a counterexample of section 7. Of the literal
  PostgreSQL gets (`Regclass`) it is proved that names without quotes are `Nameable`, not that others are never.

## 7. Where code and text disagree

Three disagreements are runs of their own:

* **`stream_lost_activation`** (`server/routers/streams.py:98`). State is committed in one step and acted on in
  another. A request that pauses and one that activates can commit in one order and act in the
  other: the spawn finds the old task running, the stop then removes it, and the source is
  `active` without a task until the next request or restart.
* **`ingest_prefix`** (`streams/sinks.py:105`). A source registered for objects without a prefix has
  `"prefix": null` in its sink; `sink.get("prefix", "")` finds the key and gives `None`, whose `rstrip`
  raises. Every message of such a source is parked and no replay can store it, although two lines
  on the key is made for a source that has no prefix.
* **`tools_path`** (`agent/runner.py:87`, `mcp_server/server.py:112`). Object routes have the template
  `{path:path}`; both dispatchers look for `{path}`, do not find it, and send the argument as a query
  parameter. The tools of objects act on the key `{path:path}`.

The others are stated as formulas at the end of their modules, under "claims", and can be seen by
checking the formula on the instance given:

| formula | place | what the code does | what the text says | instance |
| --- | --- | --- | --- | --- |
| `CrashMarksFailed` | `streams/runner.py:143` | the `finally` clause closes every run as "stopped" | "On crash: close_run(failed)", `streams/runner.py:6-8` | `stream_faults`, `Faults = {"poll"}` |
| `ErrorParksMessage` | `streams/runner.py:125`, `138` | a state check or a dead-letter insert that fails ends the run; the message is neither stored nor parked | "On error: park the message", `streams/runner.py:5-6` | `stream_faults`, `Faults = {"check"}`, `{"write", "dlq"}` |
| `ParkedIsFailed` | `streams/runner.py:132` | a failing counter parks a delivered message | "Failed payloads parked for replay", `db/models.py:129` | `stream_faults`, `Faults = {"bump"}` |
| `OneTaskPerSource` | `streams/runner.py:140` | an exception in `finally` replaces `CancelledError`; the task restarts outside the table | "one task per stream_sources row", `streams/runner.py:3-4` | `stream_control`, `Faults = {"close_run"}` |
| `ActiveHasTask`, `EventuallyTaken` with `Running` for `Attended` | `streams/runner.py:48` | when the commit of "paused" raises after its effect nobody stops the task; it sees the pause and returns, and an activation that comes meanwhile finds it still at work: the source is on and has no task | "one task per stream_sources row whose state is 'active'", `streams/runner.py:3-4` | `stream_faults` and `stream_live`, `Faults = {"set_state"}` |
| `OffIsOff` | `server/routers/streams.py:145`, `168` | a webhook in hand and an open websocket go on delivering after their source is switched off | "the user-facing on/off switch", `db/models.py:84-85` | `ingest_passive` |
| `ErrorMeansParked` | `server/routers/streams.py:184` | if the dead-letter insert fails too the frame is nowhere | "delivery failure already DLQ'd", same line | `ingest_passive`, `Faults = {"write", "dlq"}` |
| `AcceptedIsStored` | `streams/sinks.py:107-129` | two webhooks, or two replays, of one millisecond share an object key | `{"status": "accepted"}` | `ingest_passive` |
| `ProviderUnderstands` | `agent/providers/openai.py:107-117` | `_to_openai` sends calls and results as text blocks without ids, so after the first tool call the conversation is not one the OpenAI interface takes | "drives the tool-use loop without caring which provider is wired in", `agent/providers/base.py:3-5` | `agent_run`, `Providers = {"openai"}` |
| `ReplayIsReported` | `agent/runner.py:304-318` | the result of a replay is no dict, so even its summary is withheld from the model; of a failed one the error text is dropped with the rest of the body | "If replay reports an identifier or SQL error, correct the plan", `server/services/retrieval_tools.py:112-113` | `agent_run` |
| `EndedIsSettled` | `server/routers/agent.py:152` | an adapter error leaves the row at "running" | "running\|done\|failed\|aborted", `db/models.py:68` | `agent_run`, `Faults = {"adapter"}` |
| `FinalEventIsDone` | `agent/runner.py:196` | an adapter error ends the stream without a done event | "The final event is (\"done\", ...)", `sdk/core.py:276-277` | the same |
| `TranscriptIsKept` | `server/routers/agent.py:147` | a tool request that raises stores an empty transcript | "transcripts kept for replay + audit", `db/models.py:50` | `agent_run`, `Faults = {"unreachable"}` |
| `RowBeforeEffect` | `server/routers/sql.py:92` | the audit row follows the statement | "Write-ahead audit log", `server/services/audit.py:1` | `data_requests` |
| `OneRowPerCall` | `server/routers/sql.py:113`, `storage.py:125` | refused batches and S3 errors have no row | "One row per CRUD call", `db/models.py:23` | `data_requests` |
| `LogAgreesWithAnswer` | `server/routers/storage.py:84` | a new bucket is logged as 201 and answered with 200 | "Source of truth", `db/models.py:25` | `data_requests` |
| `AcknowledgedIsStored` | `server/routers/storage.py:115` | a PUT of an existing key is answered 201 with the checksum of what was not stored | "S3-compatible object storage", `README.md:5-6` | `data_requests` |
| `FreshIsServed` | `retrieve/card_builder.py:353` | the builder stores more common values than `schema_card.py:37` lets be read, so every get rebuilds | "returns the cached bundle if fresh", `retrieve/card_store.py:9-10` | `cards_cache` |
| `ScopeIsComplete` | `retrieve/card_builder.py:149` | a table whose card fails is left out and the bundle is cached | "all base tables in schema", `retrieve/card_builder.py:158` | `cards_cache` |
| `ScopeIsComplete` | `retrieve/card_builder.py:117` | `regclass_literal` does not double the quotes of a name, so a table with a quote in its name has no card | the same | `Tables <- MCQuotedTables`, `Scopes <- MCQuotedScopes`, no faults |
| `CombinationsAreScopes` | `retrieve/card_builder.py:168` | `*` is looked for as the whole text; among other entries it is "invalid scope entry" | "comma-separated combinations of the above", `retrieve/card_builder.py:161` | `Scopes <- MCCombinedScopes`, no faults |
| `ShownNameReadsBack` | `retrieve/card_builder.py:113` | a card shows the bare names joined by a dot, which a scope or a statement reads as another table when a name needs quotes | "Use SQL identifiers exactly as shown below", `retrieve/schema_card.py:83` | `cards_cache` |
| `AnswerFitsScope` | `retrieve/card_store.py:121` | the key splits inside quotes and strips blanks, so `"x,y"` and `"x, y"` share an entry | "Different scope specs ... are independent entries", `retrieve/card_store.py:39-42` | `Tables <- MCLookalikes`, `Scopes <- MCLookalikeScopes`, no wide table, no faults |
| `NothingIsDropped` | `retrieve/replay.py:86` | csv rows lose the columns the header lacks | "fall-through to JSONL", `retrieve/replay.py:11-12` | `replay_tool`, plans with different columns (`MCMixedPlans`) |
| `CatalogsAgree` | `server/routers/agent.py:95` | a run is offered two local tools that MCP does not list | "identical by construction", `mcp_server/server.py:4-5` | `tools_calls` |

Two more were seen and are not modelled. `SET LOCAL ROLE` (`server/routers/sql.py:82`,
`retrieve/card_builder.py:144-145`, `retrieve/replay.py`) is sent on connections that commit by
themselves, where PostgreSQL gives it no effect, while `sql.py:3` says that "every request runs under
the admin Postgres role"; the models do not distinguish roles. A turn that `max_tokens` cuts short
is not told from one that ended: the arguments of its last call may be incomplete, which the adapters
turn into an empty or a raw argument.

## 8. Plan

Done: the modules above, the stream runner first since it is where the program is concurrent; both
abstract specifications implemented, checked and proved; every invariant and every action property that a run
checks proved, some under the conditions of section 6.

Next, in this order:

1. *A composition* of `AgentRun` with `PlanReplay` and `SchemaCards` as its tools.
2. *A session module* for the roles of connections.
3. *Which names with quotes are `Nameable`*: the converse of `QuotelessIsNameable`, for which `Regclass` of a literal
   with stray quotes has to be followed.

**Not modelled**, and why: the admin, health and list routes, which only query; identity providers, a
loop without state that no route calls; settings, identifiers and the record of handles; the command
line, one call of the SDK or of docker compose for each command; release scripts; the plan parser,
which nothing in the service calls since the plan arrives as the argument of a tool. Of the parts that
are modelled partly: the text checks and wrappers of `sql.py` and the JSON of results (one pass over a
string, no state); the statistics of a card and their rendering; the transports of MCP; the methods of
the client other than `retrieve` and `agent_run`, one HTTP request each; the columns of the tables that
no decision reads.
