---------------------------- MODULE StreamRunner ----------------------------
(***************************************************************************)
(* The stream runner of lumid.data: one supervised asyncio task per Kafka  *)
(* source (streams/runner.py), the registry rows it reads and writes       *)
(* (streams/registry.py), the POST /v1/streams/{id}/state handler that     *)
(* switches a source on and off (server/routers/streams.py) and the        *)
(* lifespan that starts and stops everything (server/main.py).             *)
(*                                                                         *)
(* Every await is a step.  An await can fail if its name is in Faults, and *)
(* a failed database or broker call may or may not have taken effect.  A   *)
(* task whose cancellation was requested receives CancelledError at the    *)
(* await it is suspended in, with the same doubt about that call.          *)
(***************************************************************************)
EXTENDS KafkaGroup

CONSTANTS
    NoSource,      \* the source of a task identity never used so far
    Handlers,      \* concurrent POST /state requests
    Targets,       \* the states requests ask for, out of {active, paused, stopped}
    Unconfigured,  \* sources without a bootstrap address, own or default
    Faults,        \* the awaits that may raise
    MaxCrashes,    \* bound: process deaths
    MaxCopies      \* bound: counts of rows for one record saturate here

FaultNames ==
    {"get", "open_run", "open", "poll", "decode", "check", "write", "bump",
     "dlq", "bump_err", "close", "close_run", "set_state"}

ASSUME NoSourceAssumption == NoSource \notin Sources
ASSUME TargetsAssumption == Targets \subseteq {"active", "paused", "stopped"}
ASSUME FaultsAssumption == Faults \subseteq FaultNames
ASSUME UnconfiguredAssumption == Unconfigured \subseteq Sources
ASSUME MaxCrashesAssumption == MaxCrashes \in Nat
ASSUME MaxCopiesAssumption == MaxCopies \in Nat \ {0, 1}

VARIABLES
    server,      \* the process: "down", "up" or "stopping" (lifespan's finally)
    crashes,     \* process deaths so far
    state,       \* state[s]: stream_sources.state, or "absent" before POST /v1/streams
    registered,  \* registered[s]: StreamRunner._tasks[s], or NoTask
    lwait,       \* the task stop_all is awaiting, or NoTask
    pc,          \* pc[t]: the await task t is suspended in
    src,         \* src[t]: the source_id _supervise was called with
    cancelReq,   \* cancelReq[t]: task.cancel() was called, not delivered yet
    exit,        \* exit[t]: how the try block of _run_once ended
    msg,         \* msg[t]: offset of the message in hand, or NoOffset
    row,         \* row[t]: the last stream_runs row t opened
    got,         \* got[t]: messages the stream yielded to that run (history)
    hpc,         \* hpc[h]: "idle", "act" (committed, not yet acted) or "wait"
    hsrc,        \* hsrc[h]: source_id of the request
    htarget,     \* htarget[h]: body.state of the request
    hwait,       \* hwait[h]: the task stop() is awaiting, or NoTask
    sink,        \* sink[s][o]: rows or objects the sink holds for record o
    dlq,         \* dlq[s][o]: stream_dlq rows for record o
    taken,       \* taken[s]: offsets ever handed over by the consumer (history)
    unclean      \* unclean[s]: a consumer went away without flushing (history)

taskVars == <<pc, src, cancelReq, exit, msg>>
rowVars == <<row, got>>
handlerVars == <<hpc, hsrc, htarget, hwait>>
storeVars == <<sink, dlq>>
historyVars == <<taken, unclean>>
processVars == <<server, crashes, registered, lwait>>

vars == <<processVars, state, taskVars, rowVars, handlerVars, storeVars,
          historyVars, groupVars>>

Phases == {"get", "leave", "open_run", "no_bootstrap", "open", "fetch", "check", "write",
           "bump", "dlq", "bump_err", "close", "close_run", "backoff", "done"}

States == {"absent", "active", "paused", "stopped"}

NoRow == [status |-> "none", processed |-> 0, errors |-> 0]

Rows == [status : {"none", "running", "stopped", "failed"},
         processed : Nat, errors : Nat]

TypeOK ==
    /\ GroupTypeOK
    /\ server \in {"down", "up", "stopping"}
    /\ crashes \in 0 .. MaxCrashes
    /\ state \in [Sources -> States]
    /\ registered \in [Sources -> Tasks \cup {NoTask}]
    /\ lwait \in Tasks \cup {NoTask}
    /\ pc \in [Tasks -> Phases]
    /\ src \in [Tasks -> Sources \cup {NoSource}]
    /\ cancelReq \in [Tasks -> BOOLEAN]
    /\ exit \in [Tasks -> {"none", "return", "crash", "cancelled"}]
    /\ msg \in [Tasks -> {NoOffset} \cup Offsets]
    /\ row \in [Tasks -> Rows]
    /\ got \in [Tasks -> Nat]
    /\ hpc \in [Handlers -> {"idle", "act", "wait"}]
    /\ hsrc \in [Handlers -> Sources \cup {NoSource}]
    /\ htarget \in [Handlers -> Targets \cup {"none"}]
    /\ hwait \in [Handlers -> Tasks \cup {NoTask}]
    /\ sink \in [Sources -> [Offsets -> 0 .. MaxCopies]]
    /\ dlq \in [Sources -> [Offsets -> 0 .. MaxCopies]]
    /\ taken \in [Sources -> SUBSET Offsets]
    /\ unclean \in [Sources -> BOOLEAN]

Init ==
    /\ GroupInit
    /\ server = "down" /\ crashes = 0 /\ lwait = NoTask
    /\ state = [s \in Sources |-> "absent"]
    /\ registered = [s \in Sources |-> NoTask]
    /\ pc = [t \in Tasks |-> "done"]
    /\ src = [t \in Tasks |-> NoSource]
    /\ cancelReq = [t \in Tasks |-> FALSE]
    /\ exit = [t \in Tasks |-> "none"]
    /\ msg = [t \in Tasks |-> NoOffset]
    /\ row = [t \in Tasks |-> NoRow]
    /\ got = [t \in Tasks |-> 0]
    /\ hpc = [h \in Handlers |-> "idle"]
    /\ hsrc = [h \in Handlers |-> NoSource]
    /\ htarget = [h \in Handlers |-> "none"]
    /\ hwait = [h \in Handlers |-> NoTask]
    /\ sink = [s \in Sources |-> [o \in Offsets |-> 0]]
    /\ dlq = [s \in Sources |-> [o \in Offsets |-> 0]]
    /\ taken = [s \in Sources |-> {}]
    /\ unclean = [s \in Sources |-> FALSE]

-----------------------------------------------------------------------------
(* Tasks and the outcomes of an await.                                     *)

Live(t) == pc[t] # "done"

\* A task identity nothing refers to any more: asyncio made a new object.
Free(t) ==
    /\ ~Live(t)
    /\ \A s \in Sources : registered[s] # t
    /\ \A h \in Handlers : hwait[h] # t
    /\ lwait # t

\* "ok"; or an exception, the effect of the call "lost" or "applied" all the same.
Outcomes(t, op) ==
    IF cancelReq[t] THEN {"lost", "applied"}
    ELSE IF op \in Faults THEN {"ok", "lost", "applied"}
    ELSE {"ok"}

Effective(o) == o \in {"ok", "applied"}

\* t goes on at await p; x says how its try block is ending ("none": it is not).
Resume(t, p, x) ==
    /\ pc' = [pc EXCEPT ![t] = p]
    /\ exit' = [exit EXCEPT ![t] = x]
    /\ cancelReq' = [cancelReq EXCEPT ![t] = FALSE]
    /\ UNCHANGED src

\* Seeded fault: a supervisor that gives up on the first crash.
EscapeForGood(t) == "done"

\* Where _supervise sends an exception that escapes _run_once.
Escape(t) == IF cancelReq[t] THEN "done" ELSE "backoff"

\* An exception inside the async-for: on to the finally clause.
Unwind(t) ==
    /\ Resume(t, "close", IF cancelReq[t] THEN "cancelled" ELSE "crash")
    /\ msg' = [msg EXCEPT ![t] = NoOffset]

\* One more stored copy of the message t has in hand.
Stored(store, t) ==
    [store EXCEPT ![src[t]][msg[t]] = IF @ < MaxCopies THEN @ + 1 ELSE @]
-----------------------------------------------------------------------------
(* StreamRunner._supervise and _run_once, one action per await.            *)

\* _run_once reads the descriptor.
Get(t) ==
    /\ pc[t] = "get"
    /\ \E o \in Outcomes(t, "get") :
          \/ o # "ok" /\ Resume(t, Escape(t), "none")
          \/ o = "ok" /\ state[src[t]] = "active" /\ Resume(t, "open_run", "none")
          \/ o = "ok" /\ state[src[t]] # "active" /\ Resume(t, "leave", "return")
    /\ UNCHANGED <<msg, rowVars, state, processVars, handlerVars, storeVars,
                   historyVars, groupVars>>

\* An inactive source ends the task, once the session it was read in is closed.
Leave(t) ==
    /\ pc[t] = "leave"
    /\ \E o \in Outcomes(t, "get") :
          Resume(t, IF o = "ok" THEN "done" ELSE Escape(t), "none")
    /\ UNCHANGED <<msg, rowVars, state, processVars, handlerVars, storeVars,
                   historyVars, groupVars>>

\* registry.open_run, then the choice of a bootstrap address.
OpenRun(t) ==
    /\ pc[t] = "open_run"
    /\ \E o \in Outcomes(t, "open_run") :
          /\ row' = IF Effective(o)
                    THEN [row EXCEPT ![t] = [NoRow EXCEPT !.status = "running"]]
                    ELSE row
          /\ got' = IF Effective(o) THEN [got EXCEPT ![t] = 0] ELSE got
          /\ Resume(t, IF o # "ok" THEN Escape(t)
                       ELSE IF src[t] \in Unconfigured THEN "no_bootstrap"
                       ELSE "open",
                    "none")
    /\ UNCHANGED <<msg, state, processVars, handlerVars, storeVars, historyVars,
                   groupVars>>

\* Seeded fault: a status of agent_runs in a stream_runs row.
SetStatusOfAgent(t, o, status) ==
    row' = IF Effective(o) THEN [row EXCEPT ![t].status = "aborted"] ELSE row

\* registry.close_run with the given status.
SetStatus(t, o, status) ==
    row' = IF Effective(o) THEN [row EXCEPT ![t].status = status] ELSE row

\* No bootstrap configured: the run is closed as failed and the task returns.
NoBootstrap(t) ==
    /\ pc[t] = "no_bootstrap"
    /\ \E o \in Outcomes(t, "close_run") :
          /\ SetStatus(t, o, "failed")
          /\ Resume(t, IF o = "ok" THEN "done" ELSE Escape(t), "none")
    /\ UNCHANGED <<msg, got, state, processVars, handlerVars, storeVars,
                   historyVars, groupVars>>

\* KafkaSource.open, outside the try: a failure leaves the run as it is.
Open(t) ==
    /\ pc[t] = "open"
    /\ \E o \in Outcomes(t, "open") :
          /\ IF o = "ok" THEN Join(src[t], t) ELSE UNCHANGED groupVars
          /\ Resume(t, IF o = "ok" THEN "fetch" ELSE Escape(t), "none")
    /\ UNCHANGED <<msg, rowVars, state, processVars, handlerVars, storeVars,
                   historyVars>>

\* The stream yields the next record, or raises on one it cannot turn into a
\* message (no value, or a header without one) after the position has moved.
TakeRecord(t) ==
    LET s == src[t] IN
    /\ pc[t] = "fetch" /\ ~cancelReq[t]
    /\ owner[s] = t /\ Take(s)
    /\ taken' = [taken EXCEPT ![s] = @ \cup {position[s]}]
    /\ got' = [got EXCEPT ![t] = @ + 1]
    /\ \/ /\ Resume(t, "check", "none")
          /\ msg' = [msg EXCEPT ![t] = position[s]]
       \/ "decode" \in Faults /\ Unwind(t)
    /\ UNCHANGED <<row, state, processVars, handlerVars, storeVars, unclean>>

\* Seeded fault: the wait for a record goes on in spite of a cancellation.
PollDeaf(t) ==
    /\ pc[t] = "fetch"
    /\ \/ "poll" \in Faults /\ Unwind(t)
       \/ cancelReq[t] /\ UNCHANGED taskVars
    /\ UNCHANGED <<rowVars, state, processVars, handlerVars, storeVars,
                   historyVars, groupVars>>

\* The consumer raises, or the task is cancelled, while it waits for a record.
PollRaises(t) ==
    /\ pc[t] = "fetch"
    /\ cancelReq[t] \/ "poll" \in Faults
    /\ Unwind(t)
    /\ UNCHANGED <<rowVars, state, processVars, handlerVars, storeVars,
                   historyVars, groupVars>>

\* The per-message look at stream_sources.state, outside the inner try.
Check(t) ==
    /\ pc[t] = "check"
    /\ \E o \in Outcomes(t, "check") :
          \/ o # "ok" /\ Unwind(t)
          \/ /\ o = "ok" /\ state[src[t]] = "active"
             /\ Resume(t, "write", "none") /\ UNCHANGED msg
          \/ /\ o = "ok" /\ state[src[t]] # "active"
             /\ Resume(t, "close", "return")
             /\ msg' = [msg EXCEPT ![t] = NoOffset]
    /\ UNCHANGED <<rowVars, state, processVars, handlerVars, storeVars,
                   historyVars, groupVars>>

\* Seeded fault: the write is tried again instead of parking the message.
ParkByRetrying(t) ==
    \/ cancelReq[t] /\ Unwind(t)
    \/ ~cancelReq[t] /\ Resume(t, "write", "none") /\ UNCHANGED msg

\* Seeded fault: the message is skipped instead of parked.
ParkNowhere(t) ==
    \/ cancelReq[t] /\ Unwind(t)
    \/ /\ ~cancelReq[t] /\ Resume(t, "fetch", "none")
       /\ msg' = [msg EXCEPT ![t] = NoOffset]

\* What an exception of the inner try does: park the message, unless cancelled.
Park(t) ==
    \/ cancelReq[t] /\ Unwind(t)
    \/ ~cancelReq[t] /\ Resume(t, "dlq", "none") /\ UNCHANGED msg

\* sinks.write
Write(t) ==
    /\ pc[t] = "write"
    /\ \E o \in Outcomes(t, "write") :
          /\ sink' = IF Effective(o) THEN Stored(sink, t) ELSE sink
          /\ IF o = "ok" THEN Resume(t, "bump", "none") /\ UNCHANGED msg ELSE Park(t)
    /\ UNCHANGED <<rowVars, state, processVars, handlerVars, dlq, historyVars,
                   groupVars>>

\* Seeded fault: the loop is left after one message.
NextMessageReturning(t) ==
    /\ Resume(t, "close", "return")
    /\ msg' = [msg EXCEPT ![t] = NoOffset]

\* The message is done with; back to the stream.
NextMessage(t) ==
    /\ Resume(t, "fetch", "none")
    /\ msg' = [msg EXCEPT ![t] = NoOffset]

\* registry.bump_run(processed=1), still inside the inner try.
Bump(t) ==
    /\ pc[t] = "bump"
    /\ \E o \in Outcomes(t, "bump") :
          /\ row' = IF Effective(o) THEN [row EXCEPT ![t].processed = @ + 1] ELSE row
          /\ IF o = "ok" THEN NextMessage(t) ELSE Park(t)
    /\ UNCHANGED <<got, state, processVars, handlerVars, storeVars, historyVars,
                   groupVars>>

\* sinks.write_dlq, in the except clause.
WriteDlq(t) ==
    /\ pc[t] = "dlq"
    /\ \E o \in Outcomes(t, "dlq") :
          /\ dlq' = IF Effective(o) THEN Stored(dlq, t) ELSE dlq
          /\ IF o = "ok" THEN Resume(t, "bump_err", "none") /\ UNCHANGED msg
             ELSE Unwind(t)
    /\ UNCHANGED <<rowVars, state, processVars, handlerVars, sink, historyVars,
                   groupVars>>

\* Seeded fault: the error counter is left alone.
BumpErrForgotten(t) ==
    /\ pc[t] = "bump_err"
    /\ NextMessage(t)
    /\ UNCHANGED <<rowVars, state, processVars, handlerVars, storeVars, historyVars,
                   groupVars>>

\* registry.bump_run(errors=1)
BumpErr(t) ==
    /\ pc[t] = "bump_err"
    /\ \E o \in Outcomes(t, "bump_err") :
          /\ row' = IF Effective(o) THEN [row EXCEPT ![t].errors = @ + 1] ELSE row
          /\ IF o = "ok" THEN NextMessage(t) ELSE Unwind(t)
    /\ UNCHANGED <<got, state, processVars, handlerVars, storeVars, historyVars,
                   groupVars>>

\* source.close in the finally clause.  An exception here, CancelledError too,
\* replaces whatever was ending the try block, and skips close_run.
Close(t) ==
    LET s == src[t] IN
    /\ pc[t] = "close"
    /\ \E o \in Outcomes(t, "close") :
       \E flush \in IF o = "ok" THEN {TRUE} ELSE BOOLEAN :
          /\ Depart(s, t, flush)
          /\ unclean' = [unclean EXCEPT ![s] =
                            @ \/ (owner[s] = t /\ ~flush /\ Uncommitted(s))]
          /\ IF o = "ok" THEN Resume(t, "close_run", exit[t])
             ELSE Resume(t, Escape(t), "none")
    /\ UNCHANGED <<msg, rowVars, state, processVars, handlerVars, storeVars, taken>>

\* close_run(status="stopped") in the finally clause, whatever ended the run.
CloseRun(t) ==
    /\ pc[t] = "close_run"
    /\ \E o \in Outcomes(t, "close_run") :
          /\ SetStatus(t, o, "stopped")
          /\ Resume(t, IF o # "ok" THEN Escape(t)
                       ELSE IF exit[t] = "crash" THEN "backoff" ELSE "done",
                    "none")
    /\ UNCHANGED <<msg, got, state, processVars, handlerVars, storeVars,
                   historyVars, groupVars>>

\* asyncio.sleep(backoff), after which the supervisor starts over.
Backoff(t) ==
    /\ pc[t] = "backoff"
    /\ Resume(t, IF cancelReq[t] THEN "done" ELSE "get", "none")
    /\ UNCHANGED <<msg, rowVars, state, processVars, handlerVars, storeVars,
                   historyVars, groupVars>>

TaskStep(t) ==
    \/ Get(t) \/ Leave(t) \/ OpenRun(t) \/ NoBootstrap(t) \/ Open(t)
    \/ TakeRecord(t) \/ PollRaises(t) \/ Check(t)
    \/ Write(t) \/ Bump(t) \/ WriteDlq(t) \/ BumpErr(t)
    \/ Close(t) \/ CloseRun(t) \/ Backoff(t)
-----------------------------------------------------------------------------
(* StreamRunner.spawn and stop, and the requests that call them.           *)

Running(s) == registered[s] # NoTask /\ Live(registered[s])

\* Seeded fault: spawn without the look at the registered task.
SpawnAlways(s) ==
    \E t \in Tasks :
        /\ Free(t)
        /\ registered' = [registered EXCEPT ![s] = t]
        /\ src' = [src EXCEPT ![t] = s]
        /\ pc' = [pc EXCEPT ![t] = "get"]
        /\ UNCHANGED <<cancelReq, exit, msg>>

\* spawn: nothing if the registered task is not done, else a new task.
Spawn(s) ==
    \/ Running(s) /\ UNCHANGED <<registered, taskVars>>
    \/ /\ ~Running(s)
       /\ \E t \in Tasks :
             /\ Free(t)
             /\ registered' = [registered EXCEPT ![s] = t]
             /\ src' = [src EXCEPT ![t] = s]
             /\ pc' = [pc EXCEPT ![t] = "get"]
             /\ UNCHANGED <<cancelReq, exit, msg>>

\* The task stop(s) has to cancel and await, if any.
Victim(s) == IF Running(s) THEN registered[s] ELSE NoTask

\* Seeded fault: the task is looked up in _tasks and left there.
StopKeeping(s) ==
    /\ cancelReq' = IF Running(s)
                    THEN [cancelReq EXCEPT ![registered[s]] = TRUE] ELSE cancelReq
    /\ UNCHANGED <<registered, pc, src, exit, msg>>

\* stop, up to "await task": forget the task and cancel it if it is not done.
Stop(s) ==
    /\ registered' = [registered EXCEPT ![s] = NoTask]
    /\ cancelReq' = IF Running(s)
                    THEN [cancelReq EXCEPT ![registered[s]] = TRUE] ELSE cancelReq
    /\ UNCHANGED <<pc, src, exit, msg>>

\* POST /v1/streams: registry.register inserts the source, paused.
Register(s) ==
    /\ server = "up" /\ state[s] = "absent"
    /\ state' = [state EXCEPT ![s] = "paused"]
    /\ UNCHANGED <<processVars, taskVars, rowVars, handlerVars, storeVars,
                   historyVars, groupVars>>

\* POST /state, first half: registry.set_state commits.  If it raises, the
\* request ends there, whether or not the row was written.
SetState(h, s, target) ==
    /\ server = "up" /\ hpc[h] = "idle" /\ state[s] # "absent"
    /\ \/ /\ state' = [state EXCEPT ![s] = target]
          /\ hpc' = [hpc EXCEPT ![h] = "act"]
          /\ hsrc' = [hsrc EXCEPT ![h] = s]
          /\ htarget' = [htarget EXCEPT ![h] = target]
       \/ /\ "set_state" \in Faults
          /\ state' = [state EXCEPT ![s] = target]
          /\ UNCHANGED <<hpc, hsrc, htarget>>
    /\ UNCHANGED <<hwait, processVars, taskVars, rowVars, storeVars, historyVars,
                   groupVars>>

\* The request is over.
Answer(h) ==
    /\ hpc' = [hpc EXCEPT ![h] = "idle"]
    /\ hsrc' = [hsrc EXCEPT ![h] = NoSource]
    /\ htarget' = [htarget EXCEPT ![h] = "none"]
    /\ hwait' = [hwait EXCEPT ![h] = NoTask]

\* Seeded fault: the task is cancelled but not awaited.
ActNotAwaiting(h) ==
    LET s == hsrc[h] IN
    /\ hpc[h] = "act"
    /\ \/ htarget[h] = "active" /\ Spawn(s) /\ Answer(h)
       \/ htarget[h] # "active" /\ Stop(s) /\ Answer(h)
    /\ UNCHANGED <<server, crashes, lwait, state, rowVars, storeVars, historyVars,
                   groupVars>>

\* Seeded fault: no stop at all, the per-message check is trusted to do it.
ActNotStopping(h) ==
    LET s == hsrc[h] IN
    /\ hpc[h] = "act"
    /\ \/ htarget[h] = "active" /\ Spawn(s) /\ Answer(h)
       \/ htarget[h] # "active" /\ Answer(h) /\ UNCHANGED <<registered, taskVars>>
    /\ UNCHANGED <<server, crashes, lwait, state, rowVars, storeVars, historyVars,
                   groupVars>>

\* POST /state, second half: spawn, or stop and wait for the task to end.
Act(h) ==
    LET s == hsrc[h] IN
    /\ hpc[h] = "act"
    /\ \/ htarget[h] = "active" /\ Spawn(s) /\ Answer(h)
       \/ htarget[h] # "active" /\ ~Running(s) /\ Stop(s) /\ Answer(h)
       \/ /\ htarget[h] # "active" /\ Running(s) /\ Stop(s)
          /\ hpc' = [hpc EXCEPT ![h] = "wait"]
          /\ hwait' = [hwait EXCEPT ![h] = Victim(s)]
          /\ UNCHANGED <<hsrc, htarget>>
    /\ UNCHANGED <<server, crashes, lwait, state, rowVars, storeVars, historyVars,
                   groupVars>>

\* The awaited task ended: stop returns and so does the request.
Return(h) ==
    /\ hpc[h] = "wait" /\ ~Live(hwait[h])
    /\ Answer(h)
    /\ UNCHANGED <<processVars, state, taskVars, rowVars, storeVars, historyVars,
                   groupVars>>
-----------------------------------------------------------------------------
(* The lifespan of the process.                                            *)

\* Everything that lives in the memory of the process is gone.
Halt ==
    /\ pc' = [t \in Tasks |-> "done"]
    /\ cancelReq' = [t \in Tasks |-> FALSE]
    /\ exit' = [t \in Tasks |-> "none"]
    /\ msg' = [t \in Tasks |-> NoOffset]
    /\ registered' = [s \in Sources |-> NoTask]
    /\ lwait' = NoTask
    /\ hpc' = [h \in Handlers |-> "idle"]
    /\ hsrc' = [h \in Handlers |-> NoSource]
    /\ htarget' = [h \in Handlers |-> "none"]
    /\ hwait' = [h \in Handlers |-> NoTask]
    /\ LoseMembers
    /\ unclean' = [s \in Sources |-> unclean[s] \/ Uncommitted(s)]
    /\ UNCHANGED <<src, state, rowVars, storeVars, taken>>

\* Start-up: start_all_active spawns one task per source that is active.
Boot ==
    LET on == {s \in Sources : state[s] = "active"} IN
    /\ server = "down"
    /\ server' = "up"
    /\ \E f \in [on -> Tasks] :
          /\ \A s1, s2 \in on : f[s1] = f[s2] => s1 = s2
          /\ registered' = [s \in Sources |-> IF s \in on THEN f[s] ELSE NoTask]
          /\ pc' = [t \in Tasks |-> IF \E s \in on : f[s] = t THEN "get" ELSE "done"]
          /\ src' = [t \in Tasks |-> IF \E s \in on : f[s] = t
                                     THEN CHOOSE s \in on : f[s] = t ELSE src[t]]
    /\ UNCHANGED <<crashes, lwait, cancelReq, exit, msg, state, rowVars,
                   handlerVars, storeVars, historyVars, groupVars>>

\* The server has drained its requests and leaves the lifespan's yield.
BeginShutdown ==
    /\ server = "up" /\ \A h \in Handlers : hpc[h] = "idle"
    /\ server' = "stopping"
    /\ UNCHANGED <<crashes, registered, lwait, state, taskVars, rowVars,
                   handlerVars, storeVars, historyVars, groupVars>>

\* stop_all takes the sources one at a time.
StopNext(s) ==
    /\ server = "stopping" /\ lwait = NoTask /\ registered[s] # NoTask
    /\ Stop(s)
    /\ lwait' = Victim(s)
    /\ UNCHANGED <<server, crashes, state, rowVars, handlerVars, storeVars,
                   historyVars, groupVars>>

StopReturns ==
    /\ server = "stopping" /\ lwait # NoTask /\ ~Live(lwait)
    /\ lwait' = NoTask
    /\ UNCHANGED <<server, crashes, registered, state, taskVars, rowVars,
                   handlerVars, storeVars, historyVars, groupVars>>

\* stop_all is over; the process exits.
Exit ==
    /\ server = "stopping" /\ lwait = NoTask
    /\ \A s \in Sources : registered[s] = NoTask
    /\ server' = "down"
    /\ Halt
    /\ UNCHANGED crashes

Crash ==
    /\ server # "down" /\ crashes < MaxCrashes
    /\ server' = "down"
    /\ crashes' = crashes + 1
    /\ Halt

\* The broker's own steps; a source without a bootstrap address has no broker.
Broker(s) ==
    /\ s \notin Unconfigured
    /\ \/ Produce(s)
       \/ AutoCommit(s)
       \/ \E t \in Tasks : Assign(s, t)
    /\ UNCHANGED <<processVars, state, taskVars, rowVars, handlerVars, storeVars,
                   historyVars>>

\* The broker gives a group without an owner one.
FirstOwner(s) ==
    /\ owner[s] = NoTask
    /\ \E t \in Tasks : Assign(s, t)
    /\ UNCHANGED <<processVars, state, taskVars, rowVars, handlerVars, storeVars,
                   historyVars>>

Request(h) == \E s \in Sources, target \in Targets : SetState(h, s, target)

Lifespan == Boot \/ BeginShutdown \/ (\E s \in Sources : StopNext(s))
            \/ StopReturns \/ Exit \/ Crash

Next ==
    \/ \E t \in Tasks : TaskStep(t)
    \/ \E h \in Handlers : Request(h) \/ Act(h) \/ Return(h)
    \/ \E s \in Sources : Register(s) \/ Broker(s)
    \/ Lifespan

Spec == Init /\ [][Next]_vars

\* What the code's scheduling gives: the event loop runs every ready task, an
\* awaited call completes, a group without an owner gets one.  Requests, new
\* records, shutdowns and crashes are never promised.
Fairness ==
    /\ \A t \in Tasks : WF_vars(TaskStep(t))
    /\ \A h \in Handlers : WF_vars(Act(h)) /\ WF_vars(Return(h))
    /\ WF_vars(\E s \in Sources : StopNext(s))
    /\ WF_vars(StopReturns)
    /\ WF_vars(Exit)
    /\ \A s \in Sources : WF_vars(FirstOwner(s))

FairSpec == Spec /\ Fairness
-----------------------------------------------------------------------------
(* Properties.                                                             *)

\* task.cancel() was called on t and it has not run to its end yet.
Cancelled(t) == cancelReq[t] \/ exit[t] = "cancelled"

\* Nobody is serving a state request about s.
Undisturbed(s) == \A h \in Handlers : hsrc[h] # s

\* Every task that is still at work and was not told to stop is the one
\* StreamRunner._tasks knows for its source, so that stop can reach it.
NoOrphan ==
    \A t \in Tasks : Live(t) /\ ~Cancelled(t) =>
        src[t] \in Sources /\ registered[src[t]] = t

\* "One task per stream_sources row" (runner.py): a draining task aside, no two
\* tasks consume for the same source.
OneTaskPerSource ==
    \A t1, t2 \in Tasks :
        /\ Live(t1) /\ ~Cancelled(t1)
        /\ Live(t2) /\ ~Cancelled(t2)
        /\ src[t1] = src[t2]
        => t1 = t2

\* A task that was told to stop has a caller of stop waiting for its end.
CancelHasWaiter ==
    \A t \in Tasks : Live(t) /\ Cancelled(t) =>
        lwait = t \/ \E h \in Handlers : hpc[h] = "wait" /\ hwait[h] = t

\* A task that got past reading the row of a source that is off by now is about
\* to end by itself, or there is a request about that source that has committed
\* the state and will cancel the task, or has cancelled it and waits for it.
PauseIsPending ==
    \A t \in Tasks :
        pc[t] \notin {"get", "backoff", "done"} /\ state[src[t]] # "active" =>
            \/ exit[t] = "return"
            \/ \E h \in Handlers :
                  /\ hsrc[h] = src[t]
                  /\ \/ hpc[h] = "act" /\ htarget[h] # "active"
                     \/ hpc[h] = "wait" /\ hwait[h] = t

\* Once every state request about a switched-off source has been answered,
\* nothing reaches its sink or its dead letters any more.
PauseIsQuiet ==
    [][\A s \in Sources : state[s] # "active" /\ Undisturbed(s)
           => sink'[s] = sink[s] /\ dlq'[s] = dlq[s]]_vars

\* The abstract specification WorkerSlots, as the runner's table implements it: the
\* slot of a source is its entry in _tasks as long as that task is not done.
SlotOf == [s \in Sources |-> IF Running(s) THEN registered[s] ELSE NoTask]
DrainingOf ==
    [s \in Sources |-> {t \in Tasks : Live(t) /\ src[t] = s /\ registered[s] # t}]

Slots == INSTANCE WorkerSlots
    WITH Workers <- Tasks, Nobody <- NoTask, slot <- SlotOf, draining <- DrainingOf

\* "One task per stream_sources row" (runner.py), step by step: the runner fills
\* only empty slots and a task that lost its slot only drains.
SlotsImplemented == Slots!Spec

\* The abstract specification MessageFate, for the records of the topics.
Records == Sources \X Offsets

Held(r) == \E t \in Tasks : src[t] = r[1] /\ msg[t] = r[2]

FateOf == [r \in Records |->
    IF sink[r[1]][r[2]] > 0 \/ dlq[r[1]][r[2]] > 0 THEN "kept"
    ELSE IF Held(r) THEN "held"
    ELSE IF r[2] \in taken[r[1]] THEN "lost" ELSE "unseen"]

\* Records nothing parks: in the hand of a task that is cancelled, finds its source
\* off, cannot look at the state or cannot park; or one that is no message at all.
CutOff == {r \in Records :
    \/ "decode" \in Faults /\ r[2] \notin taken[r[1]]
    \/ \E t \in Tasks :
          /\ src[t] = r[1] /\ msg[t] = r[2]
          /\ \/ cancelReq[t]
             \/ pc[t] = "check" /\ (state[r[1]] # "active" \/ "check" \in Faults)
             \/ pc[t] = "dlq" /\ "dlq" \in Faults}

Fates == INSTANCE MessageFate
    WITH Msgs <- Records, fate <- FateOf, cut <- CutOff, life <- server

\* "On error: park the message" (runner.py): whatever fails, a failing write or counter
\* included, a record that was handed over is in hand, stored or parked unless cut off.
FatesImplemented == Fates!Spec

\* Auto-commit follows the position, so a record is stored twice, or parked twice,
\* only after a consumer of its source went away without flushing its position.
TwiceOnlyIfUnclean ==
    \A s \in Sources : \A o \in Offsets : sink[s][o] > 1 \/ dlq[s][o] > 1 => unclean[s]

\* The counters of a run count no message twice the same way.  Between two messages
\* they account for every message the stream yielded to the run; at any other time,
\* and for good once the run has ended in whatever way, for all but the last one.
RunAccounts ==
    \A t \in Tasks :
        LET counted == row[t].processed + row[t].errors IN
        /\ row[t].processed <= got[t]
        /\ row[t].errors <= got[t]
        /\ got[t] <= counted + 1
        /\ pc[t] = "fetch" => got[t] <= counted

\* "One task per row whose state is 'active'": once its requests are answered
\* an active source of a running server has a task at work.
ActiveHasTask ==
    \A s \in Sources \ Unconfigured :
        server = "up" /\ state[s] = "active" /\ Undisturbed(s) => Running(s)

\* stop returns: a request that waits for a task is eventually answered.
StopAnswers == \A h \in Handlers : hpc[h] = "wait" ~> hpc[h] # "wait"

\* stop_all, one source after the other, comes to its end.
ShutdownEnds == server = "stopping" ~> server = "down"

Serving(s) == server = "up" /\ state[s] = "active" /\ Undisturbed(s)

\* The task of s is at work and has not decided to return.
Attended(s) == Running(s) /\ exit[registered[s]] # "return"

\* A record the group has yet to hand over, of a source that is on, has a task that
\* is not leaving and is left alone by requests, eventually reaches the runner.
EventuallyTaken ==
    \A s \in Sources \ Unconfigured, o \in Offsets :
        /\ Serving(s) /\ Attended(s)
        /\ owner[s] # NoTask /\ position[s] <= o /\ o < logEnd[s]
        ~> (o \in taken[s] \/ ~Serving(s))
-----------------------------------------------------------------------------
(* What the docstrings promise and the code does not always do.            *)

\* "On crash: close_run(failed)" (runner.py).
CrashMarksFailed == \A t \in Tasks : pc[t] = "backoff" => row[t].status = "failed"

\* "Failed payloads parked for replay" (models.py): a parked payload is one the
\* sink does not have.
ParkedIsFailed ==
    \A s \in Sources : \A o \in Offsets : dlq[s][o] > 0 => sink[s][o] = 0

\* "On error: park the message in stream_dlq" (runner.py): an error that ends a
\* run leaves no message behind.
ErrorParksMessage ==
    \A t \in Tasks : exit[t] = "crash" => \A r \in Records : r[1] = src[t] => FateOf[r] # "lost"
=============================================================================
