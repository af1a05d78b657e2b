------------------------- MODULE StreamRunnerProofs -------------------------
(***************************************************************************)
(* Machine-checked facts about StreamRunner, for every number of sources,  *)
(* tasks, requests and records and every set of faults.                    *)
(***************************************************************************)
EXTENDS StreamRunner, TLAPS

(* The types, by owner, with what they leave unsaid: a task at work has a   *)
(* source, a message in hand is a record, a request being served names a    *)
(* source and a request that waits names a task.                            *)

InHand == {"check", "write", "bump", "dlq", "bump_err"}

Exits == {"none", "return", "crash", "cancelled"}

TaskType ==
    /\ pc \in [Tasks -> Phases]
    /\ src \in [Tasks -> Sources \cup {NoSource}]
    /\ cancelReq \in [Tasks -> BOOLEAN]
    /\ exit \in [Tasks -> Exits]
    /\ msg \in [Tasks -> {NoOffset} \cup Offsets]
    /\ \A t \in Tasks : pc[t] # "done" => src[t] \in Sources
    /\ \A t \in Tasks : pc[t] \in InHand => msg[t] \in Offsets

RowType ==
    /\ row \in [Tasks -> Rows]
    /\ got \in [Tasks -> Nat]

HandlerType ==
    /\ hpc \in [Handlers -> {"idle", "act", "wait"}]
    /\ hsrc \in [Handlers -> Sources \cup {NoSource}]
    /\ htarget \in [Handlers -> Targets \cup {"none"}]
    /\ hwait \in [Handlers -> Tasks \cup {NoTask}]
    /\ \A h \in Handlers : hpc[h] = "act" => hsrc[h] \in Sources
    /\ \A h \in Handlers : hpc[h] = "wait" => hwait[h] \in Tasks

ProcessType ==
    /\ server \in {"down", "up", "stopping"}
    /\ crashes \in 0 .. MaxCrashes
    /\ state \in [Sources -> States]
    /\ registered \in [Sources -> Tasks \cup {NoTask}]
    /\ lwait \in Tasks \cup {NoTask}

StoreType ==
    /\ sink \in [Sources -> [Offsets -> 0 .. MaxCopies]]
    /\ dlq \in [Sources -> [Offsets -> 0 .. MaxCopies]]
    /\ taken \in [Sources -> SUBSET Offsets]
    /\ unclean \in [Sources -> BOOLEAN]

TypeInv ==
    TaskType /\ RowType /\ HandlerType /\ ProcessType /\ StoreType /\ GroupTypeOK

LEMMA TypeInvImpliesTypeOK == TypeInv => TypeOK
  BY DEF TypeInv, TaskType, RowType, HandlerType, ProcessType, StoreType, TypeOK, Exits

LEMMA TypeInit == Init => TypeInv
  BY NoTaskAssumption, NoSourceAssumption, MaxOffsetAssumption, MaxCrashesAssumption,
     MaxCopiesAssumption
  DEF Init, GroupInit, TypeInv, TaskType, RowType, HandlerType, ProcessType, StoreType,
      GroupTypeOK, InHand, Exits, Offsets, NoOffset, States, Phases, Rows, NoRow
-----------------------------------------------------------------------------
(* A task that goes on at p keeps the task types if p fits what it holds.   *)
LEMMA ResumeType ==
  ASSUME TaskType, NEW t \in Tasks, src[t] \in Sources,
         NEW p \in Phases, NEW x \in Exits, Resume(t, p, x),
         NEW m \in {NoOffset} \cup Offsets,
         msg' = msg \/ msg' = [msg EXCEPT ![t] = m],
         p \in InHand => msg'[t] \in Offsets
  PROVE  TaskType'
  BY DEF TaskType, Resume

(* The steps of a task touch nothing of the process and the requests.       *)
LEMMA TaskStepFrame ==
  ASSUME NEW t \in Tasks, TaskStep(t)
  PROVE  UNCHANGED <<processVars, state, handlerVars>>
  BY DEF TaskStep, Get, Leave, OpenRun, NoBootstrap, Open, TakeRecord, PollRaises, Check, Write,
         Bump, WriteDlq, BumpErr, Close, CloseRun, Backoff

LEMMA TaskStepTaskType ==
  ASSUME TypeInv, NEW t \in Tasks, TaskStep(t)
  PROVE  TaskType'
<1> USE DEF TypeInv
<1>0. /\ TaskType
      /\ NoOffset \in {NoOffset} \cup Offsets
  OBVIOUS
<1>1. CASE Get(t)
  BY <1>0, <1>1, ResumeType DEF TaskType, Get, Phases, Exits, InHand, Escape
<1>2. CASE OpenRun(t)
  BY <1>0, <1>2, ResumeType DEF TaskType, OpenRun, Phases, Exits, InHand, Escape
<1>3. CASE NoBootstrap(t)
  BY <1>0, <1>3, ResumeType DEF TaskType, NoBootstrap, Phases, Exits, InHand, Escape
<1>4. CASE Open(t)
  BY <1>0, <1>4, ResumeType DEF TaskType, Open, Phases, Exits, InHand, Escape
<1>5. CASE TakeRecord(t)
  <2>1. position[src[t]] \in Offsets
    BY <1>5, MaxOffsetAssumption DEF TakeRecord, Take, TaskType, GroupTypeOK, Offsets
  <2>2. src[t] \in Sources
    BY <1>5 DEF TakeRecord, TaskType
  <2>3. CASE Resume(t, "check", "none") /\ msg' = [msg EXCEPT ![t] = position[src[t]]]
    <3>1. msg'[t] \in Offsets
      BY <1>0, <2>1, <2>3 DEF TaskType
    <3> QED
      BY <1>0, <2>1, <2>2, <2>3, <3>1, ResumeType DEF Phases, Exits
  <2>4. CASE Unwind(t)
    BY <1>0, <2>2, <2>4, ResumeType DEF Unwind, Phases, Exits, InHand
  <2> QED
    BY <1>5, <2>3, <2>4 DEF TakeRecord
<1>6. CASE PollRaises(t)
  BY <1>0, <1>6, ResumeType DEF TaskType, PollRaises, Unwind, Phases, Exits, InHand
<1>7. CASE Check(t)
  BY <1>0, <1>7, ResumeType DEF TaskType, Check, Unwind, Phases, Exits, InHand
<1>8. CASE Write(t)
  BY <1>0, <1>8, ResumeType DEF TaskType, Write, Park, Unwind, Phases, Exits, InHand
<1>9. CASE Bump(t)
  BY <1>0, <1>9, ResumeType DEF TaskType, Bump, NextMessage, Park, Unwind, Phases, Exits, InHand
<1>10. CASE WriteDlq(t)
  BY <1>0, <1>10, ResumeType DEF TaskType, WriteDlq, Unwind, Phases, Exits, InHand
<1>11. CASE BumpErr(t)
  BY <1>0, <1>11, ResumeType DEF TaskType, BumpErr, NextMessage, Unwind, Phases, Exits, InHand
<1>12. CASE Close(t)
  BY <1>0, <1>12, ResumeType DEF TaskType, Close, Phases, Exits, InHand, Escape
<1>13. CASE CloseRun(t)
  BY <1>0, <1>13, ResumeType DEF TaskType, CloseRun, Phases, Exits, InHand, Escape
<1>14. CASE Backoff(t)
  BY <1>0, <1>14, ResumeType DEF TaskType, Backoff, Phases, Exits, InHand
<1>15. CASE Leave(t)
  BY <1>0, <1>15, ResumeType DEF TaskType, Leave, Phases, Exits, InHand, Escape
<1> QED
  BY <1>1, <1>2, <1>3, <1>4, <1>5, <1>6, <1>7, <1>8, <1>9, <1>10, <1>11, <1>12, <1>13,
     <1>14, <1>15 DEF TaskStep

LEMMA TaskStepRowType ==
  ASSUME TypeInv, NEW t \in Tasks, TaskStep(t)
  PROVE  RowType'
<1> USE DEF TypeInv, RowType, Rows, rowVars
<1>1. CASE OpenRun(t)
  BY <1>1 DEF OpenRun, NoRow
<1>2. CASE NoBootstrap(t) \/ CloseRun(t)
  BY <1>2 DEF NoBootstrap, CloseRun, SetStatus
<1>3. CASE TakeRecord(t)
  BY <1>3 DEF TakeRecord
<1>4. CASE Bump(t) \/ BumpErr(t)
  BY <1>4 DEF Bump, BumpErr
<1>5. CASE UNCHANGED rowVars
  BY <1>5
<1> QED
  BY <1>1, <1>2, <1>3, <1>4, <1>5 DEF TaskStep, Get, Leave, Open, PollRaises, Check, Write,
     WriteDlq, Close, Backoff

(* One more copy of the message in hand, up to the saturation bound.        *)
LEMMA StoredType ==
  ASSUME TaskType, NEW t \in Tasks, pc[t] \in InHand,
         NEW store \in [Sources -> [Offsets -> 0 .. MaxCopies]]
  PROVE  Stored(store, t) \in [Sources -> [Offsets -> 0 .. MaxCopies]]
<1>1. src[t] \in Sources /\ msg[t] \in Offsets
  BY DEF TaskType, InHand
<1>2. store[src[t]] \in [Offsets -> 0 .. MaxCopies]
  BY <1>1
<1>3. (IF store[src[t]][msg[t]] < MaxCopies THEN store[src[t]][msg[t]] + 1
       ELSE store[src[t]][msg[t]]) \in 0 .. MaxCopies
  BY <1>1, <1>2, MaxCopiesAssumption
<1> QED
  BY <1>1, <1>2, <1>3 DEF Stored

LEMMA TaskStepStoreType ==
  ASSUME TypeInv, NEW t \in Tasks, TaskStep(t)
  PROVE  StoreType'
<1> USE DEF TypeInv, StoreType, storeVars, historyVars
<1>1. CASE Write(t)
  BY <1>1, StoredType DEF Write, InHand
<1>2. CASE WriteDlq(t)
  BY <1>2, StoredType DEF WriteDlq, InHand
<1>3. CASE TakeRecord(t)
  <2>1. src[t] \in Sources /\ position[src[t]] \in Offsets
    BY <1>3, MaxOffsetAssumption DEF TakeRecord, Take, TaskType, GroupTypeOK, Offsets
  <2> QED
    BY <1>3, <2>1 DEF TakeRecord
<1>4. CASE Close(t)
  BY <1>4 DEF Close
<1>5. CASE UNCHANGED <<storeVars, historyVars>>
  BY <1>5
<1> QED
  BY <1>1, <1>2, <1>3, <1>4, <1>5 DEF TaskStep, Get, Leave, OpenRun, NoBootstrap, Open,
     PollRaises, Check, Bump, BumpErr, CloseRun, Backoff

LEMMA TaskStepGroupType ==
  ASSUME TypeInv, NEW t \in Tasks, TaskStep(t)
  PROVE  GroupTypeOK'
<1> USE MaxOffsetAssumption DEF TypeInv, GroupTypeOK, groupVars
<1>1. CASE Open(t)
  BY <1>1 DEF Open, Join, TaskType
<1>2. CASE TakeRecord(t)
  BY <1>2 DEF TakeRecord, Take, TaskType
<1>3. CASE Close(t)
  BY <1>3 DEF Close, Depart, TaskType
<1>4. CASE UNCHANGED groupVars
  BY <1>4
<1> QED
  BY <1>1, <1>2, <1>3, <1>4 DEF TaskStep, Get, Leave, OpenRun, NoBootstrap, PollRaises, Check,
     Write, Bump, WriteDlq, BumpErr, CloseRun, Backoff

LEMMA TaskStepType ==
  ASSUME TypeInv, NEW t \in Tasks, TaskStep(t)
  PROVE  TypeInv'
<1>1. HandlerType' /\ ProcessType'
  BY TaskStepFrame DEF TypeInv, HandlerType, ProcessType, handlerVars, processVars
<1> QED
  BY <1>1, TaskStepTaskType, TaskStepRowType, TaskStepStoreType, TaskStepGroupType
  DEF TypeInv
-----------------------------------------------------------------------------
(* Requests, the lifespan and the broker.                                   *)

LEMMA StopType ==
  ASSUME TypeInv, NEW s \in Sources, Stop(s)
  PROVE  TaskType' /\ registered' \in [Sources -> Tasks \cup {NoTask}]
  BY DEF TypeInv, TaskType, ProcessType, Stop, Running

LEMMA SpawnType ==
  ASSUME TypeInv, NEW s \in Sources, Spawn(s)
  PROVE  TaskType' /\ registered' \in [Sources -> Tasks \cup {NoTask}]
  BY DEF TypeInv, TaskType, ProcessType, Spawn, taskVars, Phases, InHand

LEMMA HandlerStepType ==
  ASSUME TypeInv, NEW h \in Handlers, Request(h) \/ Act(h) \/ Return(h)
  PROVE  TypeInv'
<1> USE DEF TypeInv
<1>1. CASE Request(h)
  <2>1. UNCHANGED <<processVars, taskVars, rowVars, storeVars, historyVars, groupVars>>
    BY <1>1 DEF Request, SetState
  <2>2. TaskType' /\ RowType' /\ StoreType' /\ GroupTypeOK'
    BY <2>1 DEF TaskType, RowType, StoreType, GroupTypeOK, taskVars, rowVars, storeVars,
       historyVars, groupVars
  <2>3. ProcessType'
    BY <1>1, <2>1, TargetsAssumption DEF Request, SetState, ProcessType, processVars, States
  <2>4. HandlerType'
    BY <1>1 DEF Request, SetState, HandlerType
  <2> QED
    BY <2>2, <2>3, <2>4
<1>2. CASE Return(h)
  BY <1>2 DEF Return, Answer, TaskType, RowType, HandlerType, ProcessType, StoreType,
     GroupTypeOK, taskVars, rowVars, processVars, storeVars, historyVars, groupVars
<1>3. CASE Act(h)
  <2>1. hsrc[h] \in Sources
    BY <1>3 DEF Act, HandlerType
  <2>2. RowType' /\ StoreType' /\ GroupTypeOK'
    BY <1>3 DEF Act, RowType, StoreType, GroupTypeOK, rowVars, storeVars, historyVars, groupVars
  <2>3. CASE htarget[h] = "active" /\ Spawn(hsrc[h]) /\ Answer(h)
    BY <1>3, <2>1, <2>2, <2>3, SpawnType DEF Act, Answer, HandlerType, ProcessType
  <2>4. CASE htarget[h] # "active" /\ ~Running(hsrc[h]) /\ Stop(hsrc[h]) /\ Answer(h)
    BY <1>3, <2>1, <2>2, <2>4, StopType DEF Act, Answer, HandlerType, ProcessType
  <2>5. CASE /\ htarget[h] # "active" /\ Running(hsrc[h]) /\ Stop(hsrc[h])
             /\ hpc' = [hpc EXCEPT ![h] = "wait"]
             /\ hwait' = [hwait EXCEPT ![h] = Victim(hsrc[h])]
             /\ UNCHANGED <<hsrc, htarget>>
    <3>1. Victim(hsrc[h]) \in Tasks
      BY <2>1, <2>5 DEF Victim, Running, ProcessType
    <3> QED
      BY <1>3, <2>1, <2>2, <2>5, <3>1, StopType DEF Act, HandlerType, ProcessType
  <2> QED
    BY <1>3, <2>3, <2>4, <2>5 DEF Act
<1> QED
  BY <1>1, <1>2, <1>3

LEMMA SourceStepType ==
  ASSUME TypeInv, NEW s \in Sources, Register(s) \/ Broker(s)
  PROVE  TypeInv'
<1> USE DEF TypeInv
<1>1. UNCHANGED <<processVars, taskVars, rowVars, handlerVars, storeVars, historyVars>>
  BY DEF Register, Broker
<1>2. TaskType' /\ RowType' /\ HandlerType' /\ StoreType'
  BY <1>1 DEF TaskType, RowType, HandlerType, StoreType, taskVars, rowVars, handlerVars,
     storeVars, historyVars
<1>3. ProcessType'
  BY <1>1 DEF Register, Broker, ProcessType, processVars, States
<1>4. GroupTypeOK'
  <2>1. CASE Register(s)
    BY <2>1 DEF Register, GroupTypeOK, groupVars
  <2>2. CASE Produce(s)
    BY <2>2, MaxOffsetAssumption DEF Produce, GroupTypeOK
  <2>3. CASE AutoCommit(s)
    BY <2>3 DEF AutoCommit, GroupTypeOK
  <2>4. ASSUME NEW t \in Tasks, Assign(s, t)
        PROVE  GroupTypeOK'
    BY <2>4, MaxOffsetAssumption DEF Assign, Flushed, StartAt, GroupTypeOK
  <2> QED
    BY <2>1, <2>2, <2>3, <2>4 DEF Broker
<1> QED
  BY <1>2, <1>3, <1>4

LEMMA HaltType ==
  ASSUME TypeInv, Halt
  PROVE  /\ TaskType' /\ RowType' /\ HandlerType' /\ StoreType' /\ GroupTypeOK'
         /\ registered' \in [Sources -> Tasks \cup {NoTask}]
         /\ lwait' \in Tasks \cup {NoTask}
         /\ state' \in [Sources -> States]
<1> USE DEF TypeInv, Halt
<1>1. TaskType'
  BY DEF TaskType, Phases, Exits, InHand
<1>2. RowType' /\ HandlerType'
  BY DEF RowType, HandlerType, rowVars
<1>3. StoreType'
  BY DEF StoreType, storeVars, Uncommitted
<1>4. GroupTypeOK'
  BY MaxOffsetAssumption DEF GroupTypeOK, LoseMembers
<1> QED
  BY <1>1, <1>2, <1>3, <1>4 DEF ProcessType

LEMMA LifespanStepType ==
  ASSUME TypeInv, Lifespan
  PROVE  TypeInv'
<1> USE DEF TypeInv
<1>1. CASE Boot
  <2>1. RowType' /\ HandlerType' /\ StoreType' /\ GroupTypeOK'
    BY <1>1 DEF Boot, RowType, HandlerType, StoreType, GroupTypeOK, rowVars, handlerVars,
       storeVars, historyVars, groupVars
  <2>2. PICK f \in [{s \in Sources : state[s] = "active"} -> Tasks] :
          /\ registered' = [s \in Sources |->
                             IF s \in {r \in Sources : state[r] = "active"}
                             THEN f[s] ELSE NoTask]
          /\ pc' = [t \in Tasks |->
                     IF \E s \in {r \in Sources : state[r] = "active"} : f[s] = t
                     THEN "get" ELSE "done"]
          /\ src' = [t \in Tasks |->
                      IF \E s \in {r \in Sources : state[r] = "active"} : f[s] = t
                      THEN CHOOSE s \in {r \in Sources : state[r] = "active"} : f[s] = t
                      ELSE src[t]]
    BY <1>1 DEF Boot
  <2>3. ProcessType'
    BY <1>1, <2>2 DEF Boot, ProcessType
  <2>4. TaskType'
    BY <1>1, <2>2 DEF Boot, TaskType, Phases, InHand
  <2> QED
    BY <2>1, <2>3, <2>4
<1>2. CASE BeginShutdown \/ StopReturns
  BY <1>2 DEF BeginShutdown, StopReturns, TaskType, RowType, HandlerType, ProcessType,
     StoreType, GroupTypeOK, taskVars, rowVars, handlerVars, storeVars, historyVars,
     groupVars
<1>3. ASSUME NEW s \in Sources, StopNext(s)
      PROVE  TypeInv'
  <2>1. RowType' /\ HandlerType' /\ StoreType' /\ GroupTypeOK'
    BY <1>3 DEF StopNext, RowType, HandlerType, StoreType, GroupTypeOK, rowVars,
       handlerVars, storeVars, historyVars, groupVars
  <2>2. lwait' \in Tasks \cup {NoTask}
    BY <1>3 DEF StopNext, Victim, ProcessType
  <2> QED
    BY <1>3, <2>1, <2>2, StopType DEF StopNext, ProcessType
<1>4. CASE Exit \/ Crash
  BY <1>4, HaltType, MaxCrashesAssumption DEF Exit, Crash, ProcessType
<1> QED
  BY <1>1, <1>2, <1>3, <1>4 DEF Lifespan

LEMMA StutterType ==
  ASSUME TypeInv, UNCHANGED vars
  PROVE  TypeInv'
  BY DEF TypeInv, TaskType, RowType, HandlerType, ProcessType, StoreType, GroupTypeOK,
     vars, taskVars, rowVars, handlerVars, processVars, storeVars, historyVars, groupVars

LEMMA TypeStep == TypeInv /\ [Next]_vars => TypeInv'
  BY TaskStepType, HandlerStepType, SourceStepType, LifespanStepType, StutterType DEF Next

LEMMA TypeInvariant == Spec => []TypeInv
  BY TypeInit, TypeStep, PTL DEF Spec

(* Every variable stays within its declared range: statuses and states are   *)
(* the ones models.py lists, offsets are offsets, copies stay within bound.  *)
THEOREM TypeCorrect == Spec => []TypeOK
  BY TypeInvariant, TypeInvImpliesTypeOK, PTL
-----------------------------------------------------------------------------
(* Who may be at work, and who waits for whom.                               *)

\* The finally clause of _run_once does not raise of its own.
CleanupReliable == Faults \cap {"close", "close_run"} = {}

\* exit is set exactly while a return or the finally clause is under way; a task that
\* ended has no cancellation pending.
ExitShape ==
    \A t \in Tasks :
        /\ pc[t] = "leave" => exit[t] = "return"
        /\ exit[t] # "none" <=> pc[t] \in {"leave", "close", "close_run"}
        /\ pc[t] = "done" => ~cancelReq[t]

\* _tasks maps a source to a task of that source which nobody told to stop.
RegisteredIsOurs ==
    \A s \in Sources : registered[s] # NoTask =>
        src[registered[s]] = s /\ ~Cancelled(registered[s])

\* A request waits for a task of the source it is about.
WaiterKnowsSource ==
    \A h \in Handlers : hpc[h] = "wait" => hsrc[h] = src[hwait[h]]

\* No task outlives the process; stop_all runs only while the server stops, and
\* then no request is served.
ShutdownIsAlone ==
    /\ server = "down" => \A t \in Tasks : pc[t] = "done"
    /\ server # "up" => \A h \in Handlers : hpc[h] = "idle"
    /\ lwait # NoTask => server = "stopping"

SupervisionInv ==
    /\ ExitShape /\ RegisteredIsOurs /\ NoOrphan
    /\ CancelHasWaiter /\ WaiterKnowsSource /\ ShutdownIsAlone

(* What a step of task t does to t, and that it leaves the others alone.     *)
LEMMA TaskStepEffect ==
  ASSUME CleanupReliable, TypeInv, ExitShape, NEW t \in Tasks, TaskStep(t)
  PROVE  /\ UNCHANGED src
         /\ pc[t] # "done"
         /\ \A u \in Tasks \ {t} :
               pc'[u] = pc[u] /\ exit'[u] = exit[u] /\ cancelReq'[u] = cancelReq[u]
         /\ ~cancelReq'[t]
         /\ pc'[t] = "leave" => exit'[t] = "return"
         /\ exit'[t] # "none" <=> pc'[t] \in {"leave", "close", "close_run"}
         /\ Cancelled(t) => pc'[t] = "done" \/ exit'[t] = "cancelled"
         /\ ~Cancelled(t) => exit'[t] # "cancelled"
         /\ exit[t] = "return" => pc'[t] \in {"done", "backoff"} \/ exit'[t] = "return"
         /\ pc[t] \in {"get", "backoff"} => \/ pc'[t] \in {"get", "backoff", "done"}
                                            \/ exit'[t] = "return"
                                            \/ state[src[t]] = "active"
<1> USE DEF TypeInv, TaskType, Cancelled, ExitShape
<1>1. CASE Get(t)
  BY <1>1 DEF Get, Resume, Escape, Outcomes
<1>2. CASE OpenRun(t)
  BY <1>2 DEF OpenRun, Resume, Escape, Outcomes
<1>3. CASE NoBootstrap(t)
  BY <1>3 DEF NoBootstrap, Resume, Escape, Outcomes
<1>4. CASE Open(t)
  BY <1>4 DEF Open, Resume, Escape, Outcomes
<1>5. CASE TakeRecord(t)
  BY <1>5 DEF TakeRecord, Resume, Unwind
<1>6. CASE PollRaises(t)
  BY <1>6 DEF PollRaises, Resume, Unwind
<1>7. CASE Check(t)
  BY <1>7 DEF Check, Resume, Unwind, Outcomes
<1>8. CASE Write(t)
  BY <1>8 DEF Write, Resume, Park, Unwind, Outcomes
<1>9. CASE Bump(t)
  BY <1>9 DEF Bump, NextMessage, Resume, Park, Unwind, Outcomes
<1>10. CASE WriteDlq(t)
  BY <1>10 DEF WriteDlq, Resume, Unwind, Outcomes
<1>11. CASE BumpErr(t)
  BY <1>11 DEF BumpErr, NextMessage, Resume, Unwind, Outcomes
<1>12. CASE Close(t)
  BY <1>12, CleanupReliable DEF Close, Resume, Escape, Outcomes, CleanupReliable
<1>13. CASE CloseRun(t)
  BY <1>13, CleanupReliable DEF CloseRun, Resume, Escape, Outcomes, CleanupReliable
<1>14. CASE Backoff(t)
  BY <1>14 DEF Backoff, Resume
<1>15. CASE Leave(t)
  BY <1>15 DEF Leave, Resume, Escape, Outcomes
<1> QED
  BY <1>1, <1>2, <1>3, <1>4, <1>5, <1>6, <1>7, <1>8, <1>9, <1>10, <1>11, <1>12, <1>13,
     <1>14, <1>15 DEF TaskStep

LEMMA SupervisionInit == Init => SupervisionInv
  BY DEF Init, SupervisionInv, ExitShape, RegisteredIsOurs, NoOrphan, CancelHasWaiter,
     WaiterKnowsSource, ShutdownIsAlone, Live, Cancelled

LEMMA SupervisionTaskStep ==
  ASSUME CleanupReliable, TypeInv, SupervisionInv, NEW t \in Tasks, TaskStep(t)
  PROVE  SupervisionInv'
<1> USE TaskStepEffect, TaskStepFrame DEF TypeInv, SupervisionInv
<1>1. ExitShape'
  BY DEF ExitShape
<1>2. RegisteredIsOurs'
  BY DEF RegisteredIsOurs, Cancelled, processVars, TaskType, ProcessType
<1>3. NoOrphan'
  BY DEF NoOrphan, Cancelled, Live, processVars, TaskType
<1>4. CancelHasWaiter'
  BY DEF CancelHasWaiter, Cancelled, Live, processVars, handlerVars
<1>5. WaiterKnowsSource' /\ ShutdownIsAlone'
  BY DEF WaiterKnowsSource, ShutdownIsAlone, processVars, handlerVars
<1> QED
  BY <1>1, <1>2, <1>3, <1>4, <1>5

LEMMA StopSupervision ==
  ASSUME TypeInv, SupervisionInv, NEW s \in Sources, Stop(s)
  PROVE  /\ ExitShape' /\ RegisteredIsOurs' /\ NoOrphan'
         /\ UNCHANGED <<pc, src, exit>>
         /\ \A t \in Tasks : Live(t) /\ Cancelled(t)' =>
               Cancelled(t) \/ (Running(s) /\ t = registered[s])
<1> USE DEF TypeInv, SupervisionInv, Stop, Running
<1>1. ExitShape'
  BY DEF ExitShape, TaskType, Live
<1>2. RegisteredIsOurs'
  BY DEF RegisteredIsOurs, Cancelled, TaskType, ProcessType
<1>3. NoOrphan'
  BY DEF NoOrphan, RegisteredIsOurs, Cancelled, Live, TaskType, ProcessType
<1> QED
  BY <1>1, <1>2, <1>3 DEF Cancelled, TaskType

LEMMA SpawnSupervision ==
  ASSUME TypeInv, SupervisionInv, NEW s \in Sources, Spawn(s)
  PROVE  /\ ExitShape' /\ RegisteredIsOurs' /\ NoOrphan'
         /\ \A t \in Tasks : Cancelled(t)' <=> Cancelled(t)
         /\ \A t \in Tasks : Live(t)' /\ ~Live(t) => ~Cancelled(t)
         /\ \A h \in Handlers : hwait[h] \in Tasks => src'[hwait[h]] = src[hwait[h]]
<1> USE DEF TypeInv, SupervisionInv, Spawn
<1>1. CASE Running(s) /\ UNCHANGED <<registered, taskVars>>
  BY <1>1 DEF ExitShape, RegisteredIsOurs, NoOrphan, Cancelled, Live, taskVars
<1>2. ASSUME ~Running(s), NEW t \in Tasks, Free(t),
             registered' = [registered EXCEPT ![s] = t],
             src' = [src EXCEPT ![t] = s],
             pc' = [pc EXCEPT ![t] = "get"],
             UNCHANGED <<cancelReq, exit, msg>>
      PROVE  /\ ExitShape' /\ RegisteredIsOurs' /\ NoOrphan'
             /\ \A u \in Tasks : Cancelled(u)' <=> Cancelled(u)
             /\ \A u \in Tasks : Live(u)' /\ ~Live(u) => ~Cancelled(u)
             /\ \A h \in Handlers : hwait[h] \in Tasks => src'[hwait[h]] = src[hwait[h]]
  <2>1. ~cancelReq[t] /\ exit[t] = "none"
    BY <1>2 DEF Free, Live, ExitShape
  <2>2. ExitShape'
    BY <1>2, <2>1 DEF ExitShape, TaskType
  <2>3. RegisteredIsOurs'
    BY <1>2, <2>1 DEF RegisteredIsOurs, Cancelled, Free, TaskType, ProcessType
  <2>4. NoOrphan'
    BY <1>2, NoTaskAssumption DEF NoOrphan, Cancelled, Live, Running, TaskType, ProcessType
  <2> QED
    BY <1>2, <2>1, <2>2, <2>3, <2>4 DEF Cancelled, Live, Free, TaskType
<1> QED
  BY <1>1, <1>2

LEMMA SupervisionHandlerStep ==
  ASSUME TypeInv, SupervisionInv, NEW h \in Handlers, Request(h) \/ Act(h) \/ Return(h)
  PROVE  SupervisionInv'
<1> USE DEF TypeInv, SupervisionInv
<1>1. CASE Request(h)
  <2>1. UNCHANGED <<processVars, taskVars, hwait>>
    BY <1>1 DEF Request, SetState
  <2>2. ExitShape' /\ RegisteredIsOurs' /\ NoOrphan'
    BY <2>1 DEF ExitShape, RegisteredIsOurs, NoOrphan, Cancelled, Live, taskVars,
       processVars
  <2>3. CancelHasWaiter'
    BY <1>1, <2>1 DEF Request, SetState, CancelHasWaiter, Cancelled, Live, taskVars,
       processVars, HandlerType
  <2>4. WaiterKnowsSource' /\ ShutdownIsAlone'
    BY <1>1, <2>1 DEF Request, SetState, WaiterKnowsSource, ShutdownIsAlone, taskVars,
       processVars, HandlerType
  <2> QED
    BY <2>2, <2>3, <2>4
<1>2. CASE Return(h)
  <2>1. UNCHANGED <<processVars, taskVars>>
    BY <1>2 DEF Return
  <2>2. ExitShape' /\ RegisteredIsOurs' /\ NoOrphan'
    BY <2>1 DEF ExitShape, RegisteredIsOurs, NoOrphan, Cancelled, Live, taskVars,
       processVars
  <2>3. CancelHasWaiter'
    BY <1>2, <2>1 DEF Return, Answer, CancelHasWaiter, Cancelled, Live, taskVars,
       processVars, HandlerType
  <2>4. WaiterKnowsSource' /\ ShutdownIsAlone'
    BY <1>2, <2>1 DEF Return, Answer, WaiterKnowsSource, ShutdownIsAlone, taskVars,
       processVars, HandlerType
  <2> QED
    BY <2>2, <2>3, <2>4
<1>3. CASE Act(h)
  <2>0. hsrc[h] \in Sources /\ hpc[h] = "act" /\ UNCHANGED <<server, lwait>>
    BY <1>3 DEF Act, HandlerType
  <2>1. CASE Spawn(hsrc[h]) /\ Answer(h)
    <3>1. CancelHasWaiter'
      BY <2>0, <2>1, SpawnSupervision DEF Answer, CancelHasWaiter, HandlerType
    <3>2. WaiterKnowsSource' /\ ShutdownIsAlone'
      BY <2>0, <2>1, SpawnSupervision DEF Answer, WaiterKnowsSource, ShutdownIsAlone,
         HandlerType
    <3> QED
      BY <2>0, <2>1, <3>1, <3>2, SpawnSupervision
  <2>2. CASE ~Running(hsrc[h]) /\ Stop(hsrc[h]) /\ Answer(h)
    <3>1. CancelHasWaiter'
      BY <2>0, <2>2, StopSupervision DEF Answer, CancelHasWaiter, HandlerType, Live
    <3>2. WaiterKnowsSource' /\ ShutdownIsAlone'
      BY <2>0, <2>2, StopSupervision DEF Answer, WaiterKnowsSource, ShutdownIsAlone,
         HandlerType
    <3> QED
      BY <2>0, <2>2, <3>1, <3>2, StopSupervision
  <2>3. CASE /\ Running(hsrc[h]) /\ Stop(hsrc[h])
             /\ hpc' = [hpc EXCEPT ![h] = "wait"]
             /\ hwait' = [hwait EXCEPT ![h] = Victim(hsrc[h])]
             /\ UNCHANGED <<hsrc, htarget>>
    <3>1. Victim(hsrc[h]) = registered[hsrc[h]] /\ registered[hsrc[h]] # NoTask
      BY <2>3 DEF Victim, Running
    <3>2. CancelHasWaiter'
      BY <2>0, <2>3, <3>1, StopSupervision DEF CancelHasWaiter, HandlerType, Live
    <3>3. WaiterKnowsSource' /\ ShutdownIsAlone'
      BY <2>0, <2>3, <3>1, StopSupervision DEF WaiterKnowsSource, ShutdownIsAlone,
         HandlerType, RegisteredIsOurs
    <3> QED
      BY <2>0, <2>3, <3>2, <3>3, StopSupervision
  <2> QED
    BY <1>3, <2>1, <2>2, <2>3 DEF Act
<1> QED
  BY <1>1, <1>2, <1>3

LEMMA SupervisionSourceStep ==
  ASSUME SupervisionInv, NEW s \in Sources, Register(s) \/ Broker(s)
  PROVE  SupervisionInv'
<1>1. UNCHANGED <<processVars, taskVars, handlerVars>>
  BY DEF Register, Broker
<1> QED
  BY <1>1 DEF SupervisionInv, ExitShape, RegisteredIsOurs, NoOrphan, CancelHasWaiter,
     WaiterKnowsSource, ShutdownIsAlone, Cancelled, Live, processVars, taskVars, handlerVars

LEMMA SupervisionBoot ==
  ASSUME TypeInv, SupervisionInv, Boot
  PROVE  SupervisionInv'
<1> USE DEF TypeInv, SupervisionInv
<1> DEFINE on == {s \in Sources : state[s] = "active"}
<1>1. PICK f \in [on -> Tasks] :
        /\ \A s1, s2 \in on : f[s1] = f[s2] => s1 = s2
        /\ registered' = [s \in Sources |-> IF s \in on THEN f[s] ELSE NoTask]
        /\ pc' = [t \in Tasks |-> IF \E s \in on : f[s] = t THEN "get" ELSE "done"]
        /\ src' = [t \in Tasks |-> IF \E s \in on : f[s] = t
                                   THEN CHOOSE s \in on : f[s] = t ELSE src[t]]
  BY DEF Boot
<1>2. /\ server = "down" /\ server' = "up"
      /\ UNCHANGED <<lwait, cancelReq, exit, hpc, hsrc, hwait>>
  BY DEF Boot, handlerVars
<1>3. lwait = NoTask /\ \A h \in Handlers : hpc[h] = "idle"
  BY <1>2 DEF ShutdownIsAlone
<1>4. \A t \in Tasks : ~cancelReq[t] /\ exit[t] = "none"
  BY <1>2 DEF ShutdownIsAlone, ExitShape
<1>5. \A s \in on : src'[f[s]] = s
  <2>1. TAKE s \in on
  <2>2. f[s] \in Tasks /\ \E r \in on : f[r] = f[s]
    OBVIOUS
  <2>3. src'[f[s]] = CHOOSE r \in on : f[r] = f[s]
    BY <1>1, <2>2
  <2>4. (CHOOSE r \in on : f[r] = f[s]) \in on
        /\ f[CHOOSE r \in on : f[r] = f[s]] = f[s]
    BY <2>2
  <2> QED
    BY <1>1, <2>3, <2>4
<1> HIDE DEF on
<1>6. ExitShape'
  BY <1>1, <1>2, <1>4 DEF ExitShape
<1>7. RegisteredIsOurs'
  BY <1>1, <1>2, <1>4, <1>5, NoTaskAssumption DEF RegisteredIsOurs, Cancelled
<1>8. NoOrphan'
  <2>1. on \subseteq Sources
    BY DEF on
  <2> QED
    BY <1>1, <1>5, <2>1 DEF NoOrphan, Live
<1>9. CancelHasWaiter' /\ WaiterKnowsSource' /\ ShutdownIsAlone'
  BY <1>2, <1>3, <1>4 DEF CancelHasWaiter, Cancelled, WaiterKnowsSource, ShutdownIsAlone
<1> QED
  BY <1>6, <1>7, <1>8, <1>9

LEMMA SupervisionLifespanStep ==
  ASSUME TypeInv, SupervisionInv, Lifespan
  PROVE  SupervisionInv'
<1> USE DEF TypeInv, SupervisionInv
<1>1. CASE Boot
  BY <1>1, SupervisionBoot
<1>2. CASE BeginShutdown
  BY <1>2 DEF BeginShutdown, ExitShape, RegisteredIsOurs, NoOrphan, CancelHasWaiter,
     WaiterKnowsSource, ShutdownIsAlone, Cancelled, Live, taskVars, handlerVars
<1>3. CASE StopReturns
  BY <1>3 DEF StopReturns, ExitShape, RegisteredIsOurs, NoOrphan, CancelHasWaiter,
     WaiterKnowsSource, ShutdownIsAlone, Cancelled, Live, taskVars, handlerVars
<1>4. ASSUME NEW s \in Sources, StopNext(s)
      PROVE  SupervisionInv'
  <2>1. /\ server = "stopping" /\ lwait = NoTask /\ Stop(s)
        /\ lwait' = Victim(s) /\ UNCHANGED <<server, handlerVars>>
    BY <1>4 DEF StopNext
  <2>2. CancelHasWaiter'
    BY <2>1, StopSupervision, NoTaskAssumption
    DEF CancelHasWaiter, Victim, Live, handlerVars
  <2>3. WaiterKnowsSource' /\ ShutdownIsAlone'
    BY <2>1, StopSupervision DEF WaiterKnowsSource, ShutdownIsAlone, handlerVars
  <2> QED
    BY <2>1, <2>2, <2>3, StopSupervision
<1>5. CASE Exit \/ Crash
  BY <1>5 DEF Exit, Crash, Halt, ExitShape, RegisteredIsOurs, NoOrphan, CancelHasWaiter,
     WaiterKnowsSource, ShutdownIsAlone, Cancelled, Live
<1> QED
  BY <1>1, <1>2, <1>3, <1>4, <1>5 DEF Lifespan

LEMMA SupervisionStep ==
  ASSUME CleanupReliable, TypeInv, SupervisionInv, [Next]_vars
  PROVE  SupervisionInv'
<1>1. CASE UNCHANGED vars
  BY <1>1 DEF SupervisionInv, ExitShape, RegisteredIsOurs, NoOrphan, CancelHasWaiter,
     WaiterKnowsSource, ShutdownIsAlone, Cancelled, Live, vars, processVars, taskVars,
     handlerVars
<1> QED
  BY <1>1, SupervisionTaskStep, SupervisionHandlerStep, SupervisionSourceStep,
     SupervisionLifespanStep DEF Next

LEMMA SupervisionInvariant == CleanupReliable => (Spec => [](TypeInv /\ SupervisionInv))
<1> SUFFICES ASSUME CleanupReliable
             PROVE  Spec => [](TypeInv /\ SupervisionInv)
  OBVIOUS
<1>1. Init => TypeInv /\ SupervisionInv
  BY TypeInit, SupervisionInit
<1>2. TypeInv /\ SupervisionInv /\ [Next]_vars => (TypeInv /\ SupervisionInv)'
  BY TypeStep, SupervisionStep
<1> QED
  BY <1>1, <1>2, PTL DEF Spec

(* If the cleanup of a run does not raise, two tasks that nobody told to     *)
(* stop never work for the same source: each of them is the one the runner's *)
(* table holds, so the next stop of the source reaches it.                   *)
THEOREM OneTask == CleanupReliable => (Spec => [](NoOrphan /\ OneTaskPerSource))
<1>1. NoOrphan => OneTaskPerSource
  BY DEF NoOrphan, OneTaskPerSource
<1>2. TypeInv /\ SupervisionInv => NoOrphan /\ OneTaskPerSource
  BY <1>1 DEF SupervisionInv
<1> SUFFICES ASSUME CleanupReliable
             PROVE  Spec => [](NoOrphan /\ OneTaskPerSource)
  OBVIOUS
<1> QED
  BY <1>2, SupervisionInvariant, PTL

(* Under the same assumption every cancelled task that still runs has a      *)
(* caller of stop waiting for it: nothing drains unattended.                 *)
THEOREM CancelsAreAwaited == CleanupReliable => (Spec => []CancelHasWaiter)
<1> SUFFICES ASSUME CleanupReliable
             PROVE  Spec => []CancelHasWaiter
  OBVIOUS
<1>1. TypeInv /\ SupervisionInv => CancelHasWaiter
  BY DEF SupervisionInv
<1> QED
  BY <1>1, SupervisionInvariant, PTL
-----------------------------------------------------------------------------
(* Switching a source off.                                                   *)

\* A request that stores the new state always gets to act on it.
StateCommitReliable == "set_state" \notin Faults

LEMMA PauseTaskStep ==
  ASSUME CleanupReliable, TypeInv, SupervisionInv, PauseIsPending,
         NEW t \in Tasks, TaskStep(t)
  PROVE  PauseIsPending'
<1> USE DEF TypeInv, SupervisionInv
<1>1. SUFFICES ASSUME NEW u \in Tasks,
                      pc'[u] \notin {"get", "backoff", "done"},
                      state'[src'[u]] # "active",
                      exit'[u] # "return"
               PROVE  \E h \in Handlers :
                         /\ hsrc'[h] = src'[u]
                         /\ \/ hpc'[h] = "act" /\ htarget'[h] # "active"
                            \/ hpc'[h] = "wait" /\ hwait'[h] = u
  BY DEF PauseIsPending
<1>2. UNCHANGED <<state, src, handlerVars>>
  BY TaskStepFrame, TaskStepEffect
<1>3. pc[u] \notin {"get", "backoff", "done"} /\ exit[u] # "return"
  BY <1>1, <1>2, TaskStepEffect
<1> QED
  BY <1>1, <1>2, <1>3 DEF PauseIsPending, handlerVars

LEMMA PauseHandlerStep ==
  ASSUME StateCommitReliable, TypeInv, SupervisionInv, PauseIsPending,
         NEW h \in Handlers, Request(h) \/ Act(h) \/ Return(h)
  PROVE  PauseIsPending'
<1> USE DEF TypeInv, SupervisionInv
<1>1. CASE Request(h)
  <2>1. PICK s \in Sources, target \in Targets :
          /\ hpc[h] = "idle"
          /\ state' = [state EXCEPT ![s] = target]
          /\ hpc' = [hpc EXCEPT ![h] = "act"]
          /\ hsrc' = [hsrc EXCEPT ![h] = s]
          /\ htarget' = [htarget EXCEPT ![h] = target]
          /\ UNCHANGED <<hwait, taskVars>>
    BY <1>1 DEF Request, SetState, StateCommitReliable
  <2>2. \A t \in Tasks : pc[t] # "done" => src[t] \in Sources
    BY DEF TaskType
  <2> QED
    BY <2>1, <2>2 DEF PauseIsPending, HandlerType, ProcessType, taskVars
<1>2. CASE Return(h)
  BY <1>2 DEF Return, Answer, PauseIsPending, HandlerType, Live, taskVars
<1>3. CASE Act(h)
  <2>0. /\ hsrc[h] \in Sources /\ hpc[h] = "act" /\ UNCHANGED state
        /\ server = "up" /\ lwait = NoTask
    BY <1>3 DEF Act, HandlerType, ShutdownIsAlone
  <2>1. CASE htarget[h] = "active" /\ Spawn(hsrc[h]) /\ Answer(h)
    BY <2>0, <2>1 DEF Spawn, Answer, PauseIsPending, HandlerType, TaskType, taskVars, Free,
       Live
  <2>2. ASSUME Stop(hsrc[h])
        PROVE  \A t \in Tasks : Live(t) /\ src[t] = hsrc[h] =>
                  \/ Running(hsrc[h]) /\ t = registered[hsrc[h]]
                  \/ \E g \in Handlers : hpc[g] = "wait" /\ hwait[g] = t
    BY <2>0, NoTaskAssumption DEF NoOrphan, CancelHasWaiter, Running, Live
  <2>3. CASE htarget[h] # "active" /\ ~Running(hsrc[h]) /\ Stop(hsrc[h]) /\ Answer(h)
    BY <2>0, <2>2, <2>3 DEF Stop, Answer, PauseIsPending, HandlerType, Live,
       WaiterKnowsSource
  <2>4. CASE /\ htarget[h] # "active" /\ Running(hsrc[h]) /\ Stop(hsrc[h])
             /\ hpc' = [hpc EXCEPT ![h] = "wait"]
             /\ hwait' = [hwait EXCEPT ![h] = Victim(hsrc[h])]
             /\ UNCHANGED <<hsrc, htarget>>
    BY <2>0, <2>2, <2>4 DEF Stop, Victim, PauseIsPending, HandlerType, Live,
       WaiterKnowsSource
  <2> QED
    BY <1>3, <2>1, <2>3, <2>4 DEF Act
<1> QED
  BY <1>1, <1>2, <1>3

LEMMA PauseSourceStep ==
  ASSUME TypeInv, PauseIsPending, NEW s \in Sources, Register(s) \/ Broker(s)
  PROVE  PauseIsPending'
<1>1. UNCHANGED <<taskVars, handlerVars>>
  BY DEF Register, Broker
<1>2. CASE Register(s)
  BY <1>1, <1>2 DEF Register, PauseIsPending, taskVars, handlerVars, TypeInv, TaskType,
     ProcessType
<1>3. CASE Broker(s)
  BY <1>1, <1>3 DEF Broker, PauseIsPending, taskVars, handlerVars
<1> QED
  BY <1>2, <1>3

LEMMA PauseLifespanStep ==
  ASSUME TypeInv, SupervisionInv, PauseIsPending, Lifespan
  PROVE  PauseIsPending'
<1>1. CASE Boot
  BY <1>1 DEF Boot, PauseIsPending
<1>2. CASE BeginShutdown \/ StopReturns
  BY <1>2 DEF BeginShutdown, StopReturns, PauseIsPending, taskVars, handlerVars
<1>3. ASSUME NEW s \in Sources, StopNext(s)
      PROVE  PauseIsPending'
  BY <1>3 DEF StopNext, Stop, PauseIsPending, handlerVars
<1>4. CASE Exit \/ Crash
  BY <1>4 DEF Exit, Crash, Halt, PauseIsPending
<1> QED
  BY <1>1, <1>2, <1>3, <1>4 DEF Lifespan

LEMMA PauseStep ==
  ASSUME CleanupReliable, StateCommitReliable, TypeInv, SupervisionInv, PauseIsPending,
         [Next]_vars
  PROVE  PauseIsPending'
<1>1. CASE UNCHANGED vars
  BY <1>1 DEF PauseIsPending, vars, taskVars, handlerVars
<1> QED
  BY <1>1, PauseTaskStep, PauseHandlerStep, PauseSourceStep, PauseLifespanStep DEF Next

(* A task at work for a source that is off ends by itself, or a request that *)
(* switched the source off still has to cancel it or is waiting for it.      *)
THEOREM PauseReachesTask ==
  CleanupReliable /\ StateCommitReliable => (Spec => []PauseIsPending)
<1> SUFFICES ASSUME CleanupReliable, StateCommitReliable
             PROVE  Spec => []PauseIsPending
  OBVIOUS
<1>1. Init => TypeInv /\ SupervisionInv /\ PauseIsPending
  BY TypeInit, SupervisionInit DEF Init, PauseIsPending
<1>2. TypeInv /\ SupervisionInv /\ PauseIsPending /\ [Next]_vars
      => (TypeInv /\ SupervisionInv /\ PauseIsPending)'
  BY TypeStep, SupervisionStep, PauseStep
<1> QED
  BY <1>1, <1>2, PTL DEF Spec

LEMMA QuietStep ==
  ASSUME TypeInv, SupervisionInv, PauseIsPending, [Next]_vars,
         NEW s \in Sources, state[s] # "active", Undisturbed(s)
  PROVE  sink'[s] = sink[s] /\ dlq'[s] = dlq[s]
<1> USE DEF TypeInv, SupervisionInv
<1>1. ASSUME NEW t \in Tasks, pc[t] \in {"write", "dlq"}
      PROVE  src[t] # s
  BY <1>1 DEF PauseIsPending, Undisturbed, ExitShape
<1>2. ASSUME NEW t \in Tasks, TaskStep(t)
      PROVE  sink'[s] = sink[s] /\ dlq'[s] = dlq[s]
  <2>1. CASE Write(t)
    BY <1>1, <2>1 DEF Write, Stored, StoreType
  <2>2. CASE WriteDlq(t)
    BY <1>1, <2>2 DEF WriteDlq, Stored, StoreType
  <2>3. CASE UNCHANGED storeVars
    BY <2>3 DEF storeVars
  <2> QED
    BY <1>2, <2>1, <2>2, <2>3 DEF TaskStep, Get, Leave, OpenRun, NoBootstrap, Open, TakeRecord,
       PollRaises, Check, Bump, BumpErr, Close, CloseRun, Backoff
<1>3. ASSUME ~ \E t \in Tasks : TaskStep(t)
      PROVE  UNCHANGED storeVars
  BY <1>3 DEF Next, Request, SetState, Act, Return, Register, Broker, Lifespan, Boot,
     BeginShutdown, StopNext, StopReturns, Exit, Crash, Halt, vars
<1> QED
  BY <1>2, <1>3 DEF storeVars

(* Once the requests about a source that is off have been answered, nothing  *)
(* is written for it any more, neither to the sink nor to the dead letters.  *)
THEOREM QuietAfterPause ==
  CleanupReliable /\ StateCommitReliable => (Spec => PauseIsQuiet)
<1> SUFFICES ASSUME CleanupReliable, StateCommitReliable
             PROVE  Spec => PauseIsQuiet
  OBVIOUS
<1>1. TypeInv /\ SupervisionInv /\ PauseIsPending /\ [Next]_vars =>
        [\A s \in Sources : state[s] # "active" /\ Undisturbed(s)
            => sink'[s] = sink[s] /\ dlq'[s] = dlq[s]]_vars
  BY QuietStep
<1>2. Spec => [](TypeInv /\ SupervisionInv)
  BY SupervisionInvariant
<1>3. Spec => []PauseIsPending
  BY PauseReachesTask
<1> QED
  BY <1>1, <1>2, <1>3, PTL DEF Spec, PauseIsQuiet
-----------------------------------------------------------------------------
(***************************************************************************)
(* The stream runner implements WorkerSlots, whatever fails: every step of *)
(* StreamRunner is a step of WorkerSlots, or changes none of its state,    *)
(* under the mapping SlotOf and DrainingOf.                                *)
(***************************************************************************)
\* _tasks maps a source to a task of that source.
OwnSource ==
    \A s \in Sources : registered[s] # NoTask => src[registered[s]] = s

\* What the mapping needs to know of a state.
SlotInv == OwnSource /\ ShutdownIsAlone

(* A step of a task moves no task but itself, and gives it no other source.  *)
LEMMA TaskStepLocal ==
  ASSUME TypeInv, NEW t \in Tasks, TaskStep(t)
  PROVE  /\ UNCHANGED src
         /\ pc[t] # "done"
         /\ \A u \in Tasks \ {t} : pc'[u] = pc[u]
<1> USE DEF TypeInv, TaskType
<1>1. CASE Get(t) \/ Leave(t) \/ OpenRun(t) \/ NoBootstrap(t) \/ Open(t)
  BY <1>1 DEF Get, Leave, OpenRun, NoBootstrap, Open, Resume
<1>2. CASE TakeRecord(t) \/ PollRaises(t) \/ Check(t)
  BY <1>2 DEF TakeRecord, PollRaises, Check, Resume, Unwind
<1>3. CASE Write(t) \/ Bump(t) \/ WriteDlq(t) \/ BumpErr(t)
  BY <1>3 DEF Write, Bump, WriteDlq, BumpErr, NextMessage, Park, Resume, Unwind
<1>4. CASE Close(t) \/ CloseRun(t) \/ Backoff(t)
  BY <1>4 DEF Close, CloseRun, Backoff, Resume
<1> QED
  BY <1>1, <1>2, <1>3, <1>4 DEF TaskStep
-----------------------------------------------------------------------------
(* One step of the table, by kind.                                          *)

Slot == <<SlotOf, DrainingOf>>

(* Steps that leave the table, the sources and who is at work alone.         *)
LEMMA SlotsUnmoved ==
  ASSUME UNCHANGED <<registered, pc, src>>
  PROVE  UNCHANGED Slot
  BY DEF Slot, SlotOf, DrainingOf, Running, Live

LEMMA TaskStepSlots ==
  ASSUME TypeInv, NEW t \in Tasks, TaskStep(t)
  PROVE  Slots!Next
<1>1. UNCHANGED registered
  BY TaskStepFrame DEF processVars
<1> SUFFICES ASSUME NEW s \in Sources
             PROVE  Slots!Rest(s) \/ Slots!Vacate(s)
  BY DEF Slots!Next
<1>2. DrainingOf'[s] \subseteq DrainingOf[s]
  BY <1>1, TaskStepLocal DEF DrainingOf, Live
<1>3. SlotOf'[s] = SlotOf[s] \/ SlotOf'[s] = NoTask
  BY <1>1, TaskStepLocal DEF SlotOf, Running, Live, TypeInv, ProcessType
<1> QED
  BY <1>2, <1>3 DEF Slots!Rest, Slots!Vacate, Slots!Drained

LEMMA SpawnSlots ==
  ASSUME TypeInv, SlotInv, NEW r \in Sources, Spawn(r)
  PROVE  Slots!Next \/ UNCHANGED Slot
<1> USE DEF TypeInv, TaskType, ProcessType
<1>1. CASE Running(r) /\ UNCHANGED <<registered, taskVars>>
  BY <1>1, SlotsUnmoved DEF taskVars
<1>2. ASSUME ~Running(r), NEW t \in Tasks, Free(t),
             registered' = [registered EXCEPT ![r] = t],
             src' = [src EXCEPT ![t] = r],
             pc' = [pc EXCEPT ![t] = "get"]
      PROVE  Slots!Next
  <2>1. SUFFICES ASSUME NEW s \in Sources
                 PROVE  Slots!Rest(s) \/ Slots!Fill(s)
    BY DEF Slots!Next
  <2>2. DrainingOf'[s] \subseteq DrainingOf[s]
    <3>1. SUFFICES ASSUME NEW u \in Tasks, pc'[u] # "done", src'[u] = s, registered'[s] # u
                   PROVE  pc[u] # "done" /\ src[u] = s /\ registered[s] # u
      BY DEF DrainingOf, Live
    <3>2. u # t
      BY <1>2, <3>1
    <3> QED
      BY <1>2, <3>1, <3>2, NoTaskAssumption DEF Running, Live
  <2>3. CASE s # r
    <3>1. SlotOf'[s] = SlotOf[s]
      BY <1>2, <2>3 DEF SlotOf, Running, Live, Free
    <3> QED
      BY <2>2, <3>1 DEF Slots!Rest, Slots!Drained
  <2>4. CASE s = r
    <3>1. SlotOf[s] = NoTask /\ SlotOf'[s] = t
      BY <1>2, <2>4, NoTaskAssumption DEF SlotOf, Running, Live
    <3>2. \A x \in Sources : SlotOf[x] # t /\ t \notin DrainingOf[x]
      BY <1>2, NoTaskAssumption DEF SlotOf, DrainingOf, Running, Free
    <3> QED
      BY <2>2, <3>1, <3>2 DEF Slots!Fill, Slots!Drained
  <2> QED
    BY <2>3, <2>4
<1> QED
  BY <1>1, <1>2 DEF Spawn

LEMMA StopSlots ==
  ASSUME TypeInv, SlotInv, NEW r \in Sources, Stop(r)
  PROVE  Slots!Next
<1> USE DEF TypeInv, TaskType, ProcessType
<1>1. SUFFICES ASSUME NEW s \in Sources
               PROVE  Slots!Rest(s) \/ Slots!Retire(s)
  BY DEF Slots!Next
<1>2. CASE s # r \/ ~Running(r)
  <2>1. SlotOf'[s] = SlotOf[s]
    BY <1>2 DEF Stop, SlotOf, Running, Live
  <2>2. DrainingOf'[s] \subseteq DrainingOf[s]
    BY <1>2 DEF Stop, DrainingOf, Running, Live
  <2> QED
    BY <2>1, <2>2 DEF Slots!Rest, Slots!Drained
<1>3. CASE s = r /\ Running(r)
  <2>1. SlotOf[s] # NoTask /\ SlotOf'[s] = NoTask
    BY <1>3 DEF Stop, SlotOf, Running, Live
  <2>2. DrainingOf'[s] \subseteq DrainingOf[s] \cup {SlotOf[s]}
    BY <1>3 DEF Stop, DrainingOf, SlotOf, Running, Live
  <2> QED
    BY <2>1, <2>2 DEF Slots!Retire
<1> QED
  BY <1>2, <1>3

LEMMA BootSlots ==
  ASSUME TypeInv, SlotInv, Boot
  PROVE  Slots!Next
<1> USE DEF TypeInv, TaskType, ProcessType
<1> DEFINE on == {s \in Sources : state[s] = "active"}
<1>1. PICK f \in [on -> Tasks] :
        /\ \A s1, s2 \in on : f[s1] = f[s2] => s1 = s2
        /\ registered' = [s \in Sources |-> IF s \in on THEN f[s] ELSE NoTask]
        /\ pc' = [t \in Tasks |-> IF \E s \in on : f[s] = t THEN "get" ELSE "done"]
        /\ src' = [t \in Tasks |-> IF \E s \in on : f[s] = t
                                   THEN CHOOSE s \in on : f[s] = t ELSE src[t]]
  BY DEF Boot
<1>2. \A t \in Tasks : ~Live(t)
  BY DEF Boot, SlotInv, ShutdownIsAlone, Live
<1>3. \A s \in Sources : SlotOf[s] = NoTask /\ DrainingOf[s] = {}
  BY <1>2 DEF SlotOf, DrainingOf, Running
<1>4. \A s \in on : src'[f[s]] = s
  <2>1. TAKE s \in on
  <2>2. f[s] \in Tasks /\ \E r \in on : f[r] = f[s]
    OBVIOUS
  <2>3. src'[f[s]] = CHOOSE r \in on : f[r] = f[s]
    BY <1>1, <2>2
  <2>4. /\ (CHOOSE r \in on : f[r] = f[s]) \in on
        /\ f[CHOOSE r \in on : f[r] = f[s]] = f[s]
    BY <2>2
  <2> QED
    BY <1>1, <2>3, <2>4
<1>5. SUFFICES ASSUME NEW s \in Sources
               PROVE  Slots!Rest(s) \/ Slots!Fill(s)
  BY DEF Slots!Next
<1>6. on \subseteq Sources
  OBVIOUS
<1> HIDE DEF on
<1>7. DrainingOf'[s] = {}
  <2>1. SUFFICES ASSUME NEW t \in Tasks, pc'[t] # "done", src'[t] = s
                 PROVE  registered'[s] = t
    BY DEF DrainingOf, Live
  <2>2. PICK r \in on : f[r] = t
    BY <1>1, <2>1
  <2> QED
    BY <1>1, <1>4, <2>1, <2>2
<1>8. CASE s \in on
  <2>1. SlotOf'[s] = f[s] /\ f[s] \in Tasks
    BY <1>1, <1>8, NoTaskAssumption DEF SlotOf, Running, Live
  <2> QED
    BY <1>3, <1>7, <2>1, NoTaskAssumption DEF Slots!Fill, Slots!Drained
<1>9. CASE s \notin on
  <2>1. SlotOf'[s] = NoTask
    BY <1>1, <1>9 DEF SlotOf, Running
  <2> QED
    BY <1>3, <1>7, <2>1 DEF Slots!Rest, Slots!Drained
<1> QED
  BY <1>8, <1>9

LEMMA HaltSlots ==
  ASSUME Halt
  PROVE  Slots!Next
<1>1. SUFFICES ASSUME NEW s \in Sources
               PROVE  Slots!Vacate(s)
  BY DEF Slots!Next
<1>2. SlotOf'[s] = NoTask /\ DrainingOf'[s] = {}
  BY DEF Halt, SlotOf, DrainingOf, Running, Live
<1> QED
  BY <1>2 DEF Slots!Vacate, Slots!Drained
-----------------------------------------------------------------------------
(* The invariant.                                                           *)

LEMMA SlotInvInit == Init => SlotInv
  BY DEF Init, SlotInv, OwnSource, ShutdownIsAlone

LEMMA SlotInvStep ==
  ASSUME TypeInv, SlotInv, [Next]_vars
  PROVE  SlotInv'
<1> USE DEF TypeInv, TaskType, ProcessType, HandlerType, SlotInv, OwnSource, ShutdownIsAlone
<1>1. ASSUME NEW t \in Tasks, TaskStep(t)
      PROVE  SlotInv'
  BY <1>1, TaskStepLocal, TaskStepFrame DEF processVars, handlerVars
<1>2. ASSUME NEW h \in Handlers, Request(h) \/ Return(h)
      PROVE  SlotInv'
  BY <1>2 DEF Request, SetState, Return, Answer, processVars, taskVars
<1>3. ASSUME NEW h \in Handlers, Act(h)
      PROVE  SlotInv'
  <2>1. hsrc[h] \in Sources /\ server = "up" /\ UNCHANGED <<server, lwait>>
    BY <1>3 DEF Act
  <2>2. OwnSource'
    BY <1>3, <2>1 DEF Act, Spawn, Stop, Free, taskVars
  <2> QED
    BY <2>1, <2>2
<1>4. ASSUME NEW s \in Sources, Register(s) \/ Broker(s)
      PROVE  SlotInv'
  BY <1>4 DEF Register, Broker, processVars, taskVars, handlerVars
<1>5. CASE Boot
  <2>1. OwnSource'
    <3> DEFINE on == {s \in Sources : state[s] = "active"}
    <3>1. PICK f \in [on -> Tasks] :
            /\ \A s1, s2 \in on : f[s1] = f[s2] => s1 = s2
            /\ registered' = [s \in Sources |-> IF s \in on THEN f[s] ELSE NoTask]
            /\ src' = [t \in Tasks |-> IF \E s \in on : f[s] = t
                                       THEN CHOOSE s \in on : f[s] = t ELSE src[t]]
      BY <1>5 DEF Boot
    <3>2. SUFFICES ASSUME NEW s \in on
                   PROVE  src'[f[s]] = s
      BY <3>1
    <3>3. f[s] \in Tasks /\ \E r \in on : f[r] = f[s]
      OBVIOUS
    <3>4. src'[f[s]] = CHOOSE r \in on : f[r] = f[s]
      BY <3>1, <3>3
    <3>5. /\ (CHOOSE r \in on : f[r] = f[s]) \in on
          /\ f[CHOOSE r \in on : f[r] = f[s]] = f[s]
      BY <3>3
    <3> QED
      BY <3>1, <3>4, <3>5
  <2> QED
    BY <1>5, <2>1 DEF Boot, handlerVars
<1>6. CASE BeginShutdown \/ StopReturns
  BY <1>6 DEF BeginShutdown, StopReturns, taskVars, handlerVars
<1>7. ASSUME NEW s \in Sources, StopNext(s)
      PROVE  SlotInv'
  BY <1>7 DEF StopNext, Stop, handlerVars
<1>8. CASE Exit \/ Crash
  BY <1>8 DEF Exit, Crash, Halt
<1>9. CASE UNCHANGED vars
  BY <1>9 DEF vars, processVars, taskVars, handlerVars
<1> QED
  BY <1>1, <1>2, <1>3, <1>4, <1>5, <1>6, <1>7, <1>8, <1>9 DEF Next, Lifespan
-----------------------------------------------------------------------------
(* The refinement.                                                          *)

LEMMA SlotsInit == Init => Slots!Init
  BY DEF Init, Slots!Init, SlotOf, DrainingOf, Running, Live

LEMMA SlotsStep ==
  ASSUME TypeInv, SlotInv, [Next]_vars
  PROVE  Slots!Next \/ UNCHANGED Slot
<1>1. ASSUME NEW t \in Tasks, TaskStep(t)
      PROVE  Slots!Next
  BY <1>1, TaskStepSlots
<1>2. ASSUME NEW h \in Handlers, Request(h) \/ Return(h)
      PROVE  UNCHANGED Slot
  BY <1>2, SlotsUnmoved DEF Request, SetState, Return, processVars, taskVars
<1>3. ASSUME NEW h \in Handlers, Act(h)
      PROVE  Slots!Next \/ UNCHANGED Slot
  <2>1. hsrc[h] \in Sources
    BY <1>3 DEF Act, TypeInv, HandlerType
  <2> QED
    BY <1>3, <2>1, SpawnSlots, StopSlots DEF Act
<1>4. ASSUME NEW s \in Sources, Register(s) \/ Broker(s)
      PROVE  UNCHANGED Slot
  BY <1>4, SlotsUnmoved DEF Register, Broker, processVars, taskVars
<1>5. CASE Boot
  BY <1>5, BootSlots
<1>6. CASE BeginShutdown \/ StopReturns
  BY <1>6, SlotsUnmoved DEF BeginShutdown, StopReturns, taskVars
<1>7. ASSUME NEW s \in Sources, StopNext(s)
      PROVE  Slots!Next
  BY <1>7, StopSlots DEF StopNext
<1>8. CASE Exit \/ Crash
  BY <1>8, HaltSlots DEF Exit, Crash
<1>9. CASE UNCHANGED vars
  BY <1>9, SlotsUnmoved DEF vars, processVars, taskVars
<1> QED
  BY <1>1, <1>2, <1>3, <1>4, <1>5, <1>6, <1>7, <1>8, <1>9 DEF Next, Lifespan

(* The runner keeps the promise of its docstring, "one task per source", step *)
(* by step and whatever fails: a task comes into an empty slot only, leaves   *)
(* it by ending or by being told to stop, and never gets it back.             *)
THEOREM RunnerImplementsSlots == Spec => SlotsImplemented
<1>1. Init => TypeInv /\ SlotInv /\ Slots!Init
  BY TypeInit, SlotInvInit, SlotsInit
<1>2. TypeInv /\ SlotInv /\ [Next]_vars => (TypeInv /\ SlotInv)'
  BY TypeStep, SlotInvStep
<1>3. TypeInv /\ SlotInv /\ [Next]_vars => [Slots!Next]_Slot
  BY SlotsStep
<1> QED
  BY <1>1, <1>2, <1>3, PTL DEF Spec, SlotsImplemented, Slots!Spec, Slot
-----------------------------------------------------------------------------
(* A source that is on has its task.                                         *)

\* No two requests are about the same source.
OneRequestEach ==
    \A h1, h2 \in Handlers : hsrc[h1] \in Sources /\ hsrc[h1] = hsrc[h2] => h1 = h2

\* A request holds its source to the state it committed; one that waits has emptied the
\* slot of a source it switched off.
RequestsHold ==
    \A h \in Handlers :
        /\ hpc[h] = "idle" => hsrc[h] = NoSource
        /\ hpc[h] # "idle" => hsrc[h] \in Sources /\ state[hsrc[h]] = htarget[h]
        /\ hpc[h] = "wait" => htarget[h] # "active" /\ ~Running(hsrc[h])

\* A source that is off and that no request is about has no task; a task of one that is
\* on is not ending because it found the source off.
OffIsStopped ==
    \A s \in Sources : Undisturbed(s) /\ state[s] # "active" => ~Running(s)
OnDoesNotReturn ==
    \A s \in Sources : Running(s) /\ state[s] = "active" => exit[registered[s]] # "return"

WithoutBootstrap == \A t \in Tasks : pc[t] = "no_bootstrap" => src[t] \in Unconfigured

ActivationInv ==
    /\ ExitShape /\ RegisteredIsOurs /\ RequestsHold
    /\ OffIsStopped /\ OnDoesNotReturn /\ WithoutBootstrap /\ ActiveHasTask

(* What a step does to its task, the finally clause raising or not; a task   *)
(* that nobody stops, of a source that is on, ends for want of a bootstrap.  *)
LEMMA TaskStepEnds ==
  ASSUME TypeInv, ExitShape, WithoutBootstrap, NEW t \in Tasks, TaskStep(t)
  PROVE  /\ \A u \in Tasks \ {t} : exit'[u] = exit[u] /\ cancelReq'[u] = cancelReq[u]
         /\ ~cancelReq'[t]
         /\ pc'[t] = "leave" => exit'[t] = "return"
         /\ exit'[t] # "none" <=> pc'[t] \in {"leave", "close", "close_run"}
         /\ ~Cancelled(t) => exit'[t] # "cancelled"
         /\ pc'[t] = "no_bootstrap" => src[t] \in Unconfigured
         /\ ~Cancelled(t) /\ state[src[t]] = "active" /\ exit[t] # "return" =>
               exit'[t] # "return" /\ (pc'[t] = "done" => src[t] \in Unconfigured)
<1> USE DEF TypeInv, TaskType, Cancelled, ExitShape, WithoutBootstrap
<1>1. CASE Get(t) \/ Leave(t) \/ OpenRun(t)
  BY <1>1 DEF Get, Leave, OpenRun, Resume, Escape, Outcomes
<1>2. CASE NoBootstrap(t) \/ Open(t)
  BY <1>2 DEF NoBootstrap, Open, Resume, Escape, Outcomes
<1>3. CASE TakeRecord(t) \/ PollRaises(t)
  BY <1>3 DEF TakeRecord, PollRaises, Resume, Unwind
<1>4. CASE Check(t)
  BY <1>4 DEF Check, Resume, Unwind, Outcomes
<1>5. CASE Write(t)
  BY <1>5 DEF Write, Resume, Park, Unwind, Outcomes
<1>6. CASE Bump(t)
  BY <1>6 DEF Bump, NextMessage, Resume, Park, Unwind, Outcomes
<1>7. CASE WriteDlq(t)
  BY <1>7 DEF WriteDlq, Resume, Unwind, Outcomes
<1>8. CASE BumpErr(t)
  BY <1>8 DEF BumpErr, NextMessage, Resume, Unwind, Outcomes
<1>9. CASE Close(t)
  BY <1>9 DEF Close, Resume, Escape, Outcomes
<1>10. CASE CloseRun(t)
  BY <1>10 DEF CloseRun, Resume, Escape, Outcomes, Exits
<1>11. CASE Backoff(t)
  BY <1>11 DEF Backoff, Resume
<1> QED
  BY <1>1, <1>2, <1>3, <1>4, <1>5, <1>6, <1>7, <1>8, <1>9, <1>10, <1>11 DEF TaskStep

LEMMA ActivationTaskStep ==
  ASSUME TypeInv, ActivationInv, NEW t \in Tasks, TaskStep(t)
  PROVE  ActivationInv'
<1> USE DEF TypeInv, ActivationInv
<1>1. /\ UNCHANGED <<src, registered, state, server, hpc, hsrc, htarget>> /\ pc[t] # "done"
      /\ \A u \in Tasks \ {t} : pc'[u] = pc[u]
  BY TaskStepLocal, TaskStepFrame DEF processVars, handlerVars
<1>2. ExitShape'
  BY <1>1, TaskStepEnds DEF ExitShape
<1>3. RegisteredIsOurs'
  BY <1>1, TaskStepEnds DEF RegisteredIsOurs, Cancelled, ProcessType
<1>4. \A s \in Sources : Running(s)' => Running(s)
  BY <1>1 DEF Running, Live, ProcessType
<1>5. RequestsHold' /\ OffIsStopped'
  BY <1>1, <1>4 DEF RequestsHold, OffIsStopped, Undisturbed
<1>6. OnDoesNotReturn'
  BY <1>1, <1>4, TaskStepEnds DEF OnDoesNotReturn, Running, RegisteredIsOurs, ProcessType
<1>7. WithoutBootstrap'
  BY <1>1, TaskStepEnds DEF WithoutBootstrap
<1>8. ActiveHasTask'
  <2> SUFFICES ASSUME NEW s \in Sources \ Unconfigured,
                      server = "up", state[s] = "active", Undisturbed(s)
               PROVE  Running(s)'
    BY <1>1 DEF ActiveHasTask, Undisturbed
  <2>1. Running(s) /\ exit[registered[s]] # "return"
    BY DEF ActiveHasTask, OnDoesNotReturn
  <2>2. registered[s] \in Tasks /\ src[registered[s]] = s /\ ~Cancelled(registered[s])
    BY <2>1 DEF Running, RegisteredIsOurs, ProcessType
  <2> QED
    BY <1>1, <2>1, <2>2, TaskStepEnds DEF Running, Live
<1> QED
  BY <1>2, <1>3, <1>5, <1>6, <1>7, <1>8

LEMMA ActivationRequest ==
  ASSUME StateCommitReliable, OneRequestEach', TypeInv, ActivationInv,
         NEW h \in Handlers, Request(h)
  PROVE  ActivationInv'
<1> USE DEF TypeInv, HandlerType, ProcessType
<1>1. PICK s \in Sources, target \in Targets :
        /\ server = "up" /\ hpc[h] = "idle"
        /\ state' = [state EXCEPT ![s] = target]
        /\ hpc' = [hpc EXCEPT ![h] = "act"]
        /\ hsrc' = [hsrc EXCEPT ![h] = s]
        /\ htarget' = [htarget EXCEPT ![h] = target]
        /\ UNCHANGED <<processVars, taskVars>>
  BY DEF Request, SetState, StateCommitReliable
<1>2. \A g \in Handlers \ {h} : hsrc[g] # s
  BY <1>1 DEF OneRequestEach
<1>3. Undisturbed(s)
  BY <1>1, <1>2, NoSourceAssumption DEF ActivationInv, RequestsHold, Undisturbed
<1>4. /\ \A r \in Sources : Running(r)' <=> Running(r)
      /\ \A r \in Sources \ {s} : Undisturbed(r)' => Undisturbed(r)
      /\ ~Undisturbed(s)'
  BY <1>1, <1>3, NoSourceAssumption DEF ActivationInv, RequestsHold, Undisturbed, Running, Live,
     processVars, taskVars
<1>5. ExitShape' /\ RegisteredIsOurs' /\ WithoutBootstrap'
  BY <1>1 DEF ActivationInv, ExitShape, RegisteredIsOurs, WithoutBootstrap, Cancelled,
     processVars, taskVars
<1>6. RequestsHold'
  BY <1>1, <1>2, <1>4 DEF ActivationInv, RequestsHold
<1>7. OffIsStopped' /\ ActiveHasTask'
  BY <1>1, <1>4 DEF ActivationInv, OffIsStopped, ActiveHasTask, processVars
<1>8. OnDoesNotReturn'
  BY <1>1, <1>3, <1>4 DEF ActivationInv, OffIsStopped, OnDoesNotReturn, processVars, taskVars
<1> QED
  BY <1>5, <1>6, <1>7, <1>8 DEF ActivationInv

LEMMA ActivationReturn ==
  ASSUME TypeInv, ActivationInv, NEW h \in Handlers, Return(h)
  PROVE  ActivationInv'
<1> USE DEF TypeInv, HandlerType, ProcessType
<1>1. /\ hpc[h] = "wait" /\ Answer(h) /\ UNCHANGED <<processVars, state, taskVars>>
      /\ hsrc[h] \in Sources /\ state[hsrc[h]] # "active" /\ ~Running(hsrc[h])
  BY DEF Return, ActivationInv, RequestsHold
<1>2. /\ \A r \in Sources : Running(r)' <=> Running(r)
      /\ \A r \in Sources \ {hsrc[h]} : Undisturbed(r)' => Undisturbed(r)
  BY <1>1 DEF Undisturbed, Answer, Running, Live, processVars, taskVars
<1>3. ExitShape' /\ RegisteredIsOurs' /\ WithoutBootstrap' /\ OnDoesNotReturn'
  BY <1>1, <1>2 DEF ActivationInv, ExitShape, RegisteredIsOurs, WithoutBootstrap,
     OnDoesNotReturn, Cancelled, processVars, taskVars
<1>4. RequestsHold'
  BY <1>1, <1>2 DEF ActivationInv, RequestsHold, Answer
<1>5. OffIsStopped' /\ ActiveHasTask'
  BY <1>1, <1>2 DEF ActivationInv, OffIsStopped, ActiveHasTask, processVars
<1> QED
  BY <1>3, <1>4, <1>5 DEF ActivationInv

\* What spawn and stop do to the slots.
LEMMA ActivationSpawn ==
  ASSUME TypeInv, ExitShape, RegisteredIsOurs, WithoutBootstrap, NEW s \in Sources, Spawn(s)
  PROVE  /\ ExitShape' /\ RegisteredIsOurs' /\ WithoutBootstrap' /\ Running(s)' /\ exit' = exit
         /\ \A r \in Sources \ {s} : (Running(r)' <=> Running(r)) /\ registered'[r] = registered[r]
         /\ IF Running(s) THEN registered'[s] = registered[s] ELSE exit[registered'[s]] = "none"
<1> USE DEF TypeInv, TaskType, ProcessType
<1>1. CASE Running(s) /\ UNCHANGED <<registered, taskVars>>
  BY <1>1 DEF ExitShape, RegisteredIsOurs, WithoutBootstrap, Running, Live, Cancelled, taskVars
<1>2. ASSUME NEW t \in Tasks, ~Running(s), Free(t),
             registered' = [registered EXCEPT ![s] = t],
             src' = [src EXCEPT ![t] = s],
             pc' = [pc EXCEPT ![t] = "get"],
             UNCHANGED <<cancelReq, exit, msg>>
      PROVE  /\ ExitShape' /\ RegisteredIsOurs' /\ WithoutBootstrap'
             /\ registered'[s] = t /\ exit[t] = "none" /\ Running(s)'
             /\ \A r \in Sources \ {s} :
                   (Running(r)' <=> Running(r)) /\ registered'[r] = registered[r]
  <2>1. ~cancelReq[t] /\ exit[t] = "none" /\ \A r \in Sources : registered[r] # t
    BY <1>2 DEF Free, Live, ExitShape
  <2>2. ExitShape' /\ WithoutBootstrap'
    BY <1>2, <2>1 DEF ExitShape, WithoutBootstrap
  <2>3. RegisteredIsOurs'
    BY <1>2, <2>1 DEF RegisteredIsOurs, Cancelled
  <2>4. registered'[s] = t /\ Running(s)'
    BY <1>2, NoTaskAssumption DEF Running, Live
  <2>5. \A r \in Sources \ {s} : (Running(r)' <=> Running(r)) /\ registered'[r] = registered[r]
    BY <1>2, <2>1 DEF Running, Live
  <2> QED
    BY <2>1, <2>2, <2>3, <2>4, <2>5
<1> QED
  BY <1>1, <1>2 DEF Spawn, taskVars

LEMMA ActivationStop ==
  ASSUME TypeInv, ExitShape, RegisteredIsOurs, WithoutBootstrap, NEW s \in Sources, Stop(s)
  PROVE  /\ ExitShape' /\ RegisteredIsOurs' /\ WithoutBootstrap' /\ ~Running(s)' /\ exit' = exit
         /\ \A r \in Sources \ {s} : (Running(r)' <=> Running(r)) /\ registered'[r] = registered[r]
<1> USE DEF TypeInv, TaskType, ProcessType, Stop, Running
<1>1. ExitShape' /\ WithoutBootstrap'
  BY DEF ExitShape, WithoutBootstrap, Live
<1>2. RegisteredIsOurs'
  BY DEF RegisteredIsOurs, Cancelled
<1> QED
  BY <1>1, <1>2 DEF Live

LEMMA ActivationAct ==
  ASSUME OneRequestEach, TypeInv, ActivationInv, NEW h \in Handlers, Act(h)
  PROVE  ActivationInv'
<1> USE DEF TypeInv, HandlerType, ProcessType
<1>0. PICK s \in Sources : s = hsrc[h]
  BY DEF Act
<1>1. /\ hpc[h] = "act" /\ state[s] = htarget[h]
      /\ UNCHANGED <<server, state>>
      /\ ExitShape /\ RegisteredIsOurs /\ WithoutBootstrap
  BY <1>0 DEF Act, ActivationInv, RequestsHold
<1>2. \A g \in Handlers \ {h} : hsrc[g] # s
  BY <1>0, <1>1 DEF OneRequestEach
<1>3. CASE htarget[h] = "active" /\ Spawn(s) /\ Answer(h)
  <2>1. /\ ExitShape' /\ RegisteredIsOurs' /\ WithoutBootstrap' /\ Running(s)' /\ exit' = exit
        /\ \A r \in Sources \ {s} : (Running(r)' <=> Running(r)) /\ registered'[r] = registered[r]
        /\ IF Running(s) THEN registered'[s] = registered[s] ELSE exit[registered'[s]] = "none"
    BY <1>1, <1>3, ActivationSpawn
  <2>2. \A r \in Sources \ {s} : Undisturbed(r)' => Undisturbed(r)
    BY <1>0, <1>1, <1>3 DEF Undisturbed, Answer
  <2>3. RequestsHold'
    BY <1>0, <1>1, <1>2, <1>3, <2>1 DEF ActivationInv, RequestsHold, Answer
  <2>4. OffIsStopped' /\ OnDoesNotReturn' /\ ActiveHasTask'
    BY <1>1, <1>3, <2>1, <2>2 DEF ActivationInv, OffIsStopped, OnDoesNotReturn, ActiveHasTask
  <2> QED
    BY <2>1, <2>3, <2>4 DEF ActivationInv
<1>4. CASE htarget[h] # "active"
  <2>1. Stop(s)
    BY <1>0, <1>1, <1>4 DEF Act
  <2>2. /\ ExitShape' /\ RegisteredIsOurs' /\ WithoutBootstrap' /\ ~Running(s)' /\ exit' = exit
        /\ \A r \in Sources \ {s} : (Running(r)' <=> Running(r)) /\ registered'[r] = registered[r]
    BY <1>1, <2>1, ActivationStop
  <2>3. Answer(h) \/ (hpc' = [hpc EXCEPT ![h] = "wait"] /\ UNCHANGED <<hsrc, htarget>>)
    BY <1>4 DEF Act
  <2>4. \A r \in Sources \ {s} : Undisturbed(r)' => Undisturbed(r)
    BY <1>0, <1>1, <2>3 DEF Undisturbed, Answer
  <2>5. RequestsHold'
    BY <1>0, <1>1, <1>2, <1>4, <2>2, <2>3 DEF ActivationInv, RequestsHold, Answer
  <2>6. OffIsStopped' /\ OnDoesNotReturn' /\ ActiveHasTask'
    BY <1>1, <1>4, <2>2, <2>4 DEF ActivationInv, OffIsStopped, OnDoesNotReturn, ActiveHasTask
  <2> QED
    BY <2>2, <2>5, <2>6 DEF ActivationInv
<1> QED
  BY <1>0, <1>3, <1>4 DEF Act

\* The process and the broker.
LEMMA ActivationBoot ==
  ASSUME TypeInv, ShutdownIsAlone, ActivationInv, Boot
  PROVE  ActivationInv'
<1> USE DEF TypeInv, TaskType, HandlerType, ProcessType
<1> DEFINE on == {s \in Sources : state[s] = "active"}
<1>1. PICK f \in [on -> Tasks] :
        /\ \A s1, s2 \in on : f[s1] = f[s2] => s1 = s2
        /\ registered' = [s \in Sources |-> IF s \in on THEN f[s] ELSE NoTask]
        /\ pc' = [t \in Tasks |-> IF \E s \in on : f[s] = t THEN "get" ELSE "done"]
        /\ src' = [t \in Tasks |-> IF \E s \in on : f[s] = t
                                   THEN CHOOSE s \in on : f[s] = t ELSE src[t]]
  BY DEF Boot
<1>2. /\ \A t \in Tasks : ~cancelReq[t] /\ exit[t] = "none"
      /\ \A h \in Handlers : hpc[h] = "idle" /\ hsrc[h] = NoSource
  BY DEF Boot, ShutdownIsAlone, ActivationInv, ExitShape, RequestsHold
<1>3. UNCHANGED <<cancelReq, exit, state, handlerVars>>
  BY DEF Boot
<1>4. \A s \in on : f[s] \in Tasks /\ src'[f[s]] = s /\ pc'[f[s]] = "get"
  BY <1>1
<1>5. \A s \in Sources : Running(s)' <=> s \in on
  BY <1>1, <1>4, NoTaskAssumption DEF Running, Live
<1>6. ExitShape' /\ WithoutBootstrap' /\ RequestsHold'
  BY <1>1, <1>2, <1>3 DEF ExitShape, WithoutBootstrap, RequestsHold, handlerVars
<1>7. RegisteredIsOurs' /\ OnDoesNotReturn'
  <2>1. \A s \in Sources : registered'[s] # NoTask => s \in on /\ registered'[s] = f[s]
    BY <1>1
  <2> QED
    BY <1>2, <1>3, <1>4, <1>5, <2>1, NoTaskAssumption DEF RegisteredIsOurs, OnDoesNotReturn,
       Cancelled, Running
<1>8. OffIsStopped' /\ ActiveHasTask'
  BY <1>3, <1>5 DEF OffIsStopped, ActiveHasTask
<1> QED
  BY <1>6, <1>7, <1>8 DEF ActivationInv

LEMMA ActivationLifespan ==
  ASSUME TypeInv, ShutdownIsAlone, ActivationInv, Lifespan
  PROVE  ActivationInv'
<1>1. CASE Boot
  BY <1>1, ActivationBoot
<1>2. CASE BeginShutdown \/ StopReturns
  BY <1>2 DEF BeginShutdown, StopReturns, ActivationInv, ExitShape, RegisteredIsOurs,
     RequestsHold, OffIsStopped, OnDoesNotReturn, WithoutBootstrap, ActiveHasTask, Undisturbed,
     Running, Live, Cancelled, taskVars, handlerVars
<1>3. ASSUME NEW s \in Sources, StopNext(s)
      PROVE  ActivationInv'
  <2>1. /\ Stop(s) /\ UNCHANGED <<server, state, handlerVars>> /\ server = "stopping"
        /\ ExitShape /\ RegisteredIsOurs /\ WithoutBootstrap
    BY <1>3 DEF StopNext, ActivationInv
  <2>2. /\ ExitShape' /\ RegisteredIsOurs' /\ WithoutBootstrap' /\ ~Running(s)' /\ exit' = exit
        /\ \A r \in Sources \ {s} : (Running(r)' <=> Running(r)) /\ registered'[r] = registered[r]
    BY <2>1, ActivationStop
  <2>3. RequestsHold' /\ OffIsStopped' /\ OnDoesNotReturn' /\ ActiveHasTask'
    BY <2>1, <2>2 DEF ActivationInv, RequestsHold, OffIsStopped, OnDoesNotReturn, ActiveHasTask,
       Undisturbed, handlerVars
  <2> QED
    BY <2>2, <2>3 DEF ActivationInv
<1>4. CASE Exit \/ Crash
  <2>1. Halt /\ server' = "down"
    BY <1>4 DEF Exit, Crash
  <2> QED
    BY <2>1 DEF Halt, ActivationInv, ExitShape, RegisteredIsOurs, RequestsHold, OffIsStopped,
       OnDoesNotReturn, WithoutBootstrap, ActiveHasTask, Running
<1> QED
  BY <1>1, <1>2, <1>3, <1>4 DEF Lifespan

LEMMA ActivationSource ==
  ASSUME TypeInv, ActivationInv, NEW s \in Sources, Register(s) \/ Broker(s)
  PROVE  ActivationInv'
<1> USE DEF TypeInv, HandlerType, ProcessType
<1>1. /\ UNCHANGED <<processVars, taskVars, handlerVars>>
      /\ \/ state' = state
         \/ state[s] = "absent" /\ state' = [state EXCEPT ![s] = "paused"]
  BY DEF Register, Broker
<1>2. \A r \in Sources : /\ Running(r)' <=> Running(r)
                         /\ Undisturbed(r)' <=> Undisturbed(r)
                         /\ state'[r] = "active" <=> state[r] = "active"
  BY <1>1 DEF Running, Live, Undisturbed, processVars, taskVars, handlerVars
<1>3. RequestsHold'
  BY <1>1, <1>2, TargetsAssumption DEF ActivationInv, RequestsHold, handlerVars
<1> QED
  BY <1>1, <1>2, <1>3 DEF ActivationInv, ExitShape, RegisteredIsOurs, OffIsStopped,
     OnDoesNotReturn, WithoutBootstrap, ActiveHasTask, Cancelled, processVars, taskVars

LEMMA ActivationStep ==
  ASSUME StateCommitReliable, OneRequestEach, OneRequestEach', TypeInv, SlotInv, ActivationInv,
         [Next]_vars
  PROVE  ActivationInv'
<1>1. CASE UNCHANGED vars
  BY <1>1 DEF ActivationInv, ExitShape, RegisteredIsOurs,
     RequestsHold, OffIsStopped, OnDoesNotReturn, WithoutBootstrap, ActiveHasTask, Undisturbed,
     Running, Live, Cancelled, vars, processVars, taskVars, handlerVars
<1>2. ASSUME NEW h \in Handlers, Request(h) \/ Act(h) \/ Return(h)
      PROVE  ActivationInv'
  BY <1>2, ActivationRequest, ActivationAct, ActivationReturn
<1> QED
  BY <1>1, <1>2, ActivationTaskStep, ActivationSource, ActivationLifespan DEF Next, SlotInv

(* As long as no two requests about one source overlap and a state that was  *)
(* stored is acted on, a configured source that is on has its task whenever  *)
(* no request about it is being served, whatever else fails.                 *)
THEOREM OnHasItsTask ==
  StateCommitReliable => (Spec /\ []OneRequestEach => []ActiveHasTask)
<1> SUFFICES ASSUME StateCommitReliable
             PROVE  Spec /\ []OneRequestEach => []ActiveHasTask
  OBVIOUS
<1>1. Init => TypeInv /\ SlotInv /\ ActivationInv
  <2>1. Init => ActivationInv
    BY DEF Init, ActivationInv, ExitShape, RegisteredIsOurs, RequestsHold, OffIsStopped,
       OnDoesNotReturn, WithoutBootstrap, ActiveHasTask, Running
  <2> QED
    BY <2>1, TypeInit, SlotInvInit
<1>2. TypeInv /\ SlotInv /\ ActivationInv /\ OneRequestEach /\ OneRequestEach' /\ [Next]_vars
      => (TypeInv /\ SlotInv /\ ActivationInv)'
  BY TypeStep, SlotInvStep, ActivationStep
<1>3. ActivationInv => ActiveHasTask
  BY DEF ActivationInv
<1> QED
  BY <1>1, <1>2, <1>3, PTL DEF Spec
-----------------------------------------------------------------------------
(***************************************************************************)
(* What becomes of the records of a topic, whatever fails.                 *)
(***************************************************************************)
\* A message in hand is one that was handed over; past its write it is in the sink, past
\* its parking among the dead letters.
HandInv ==
    \A t \in Tasks :
        /\ msg[t] # NoOffset => pc[t] \in InHand /\ msg[t] \in taken[src[t]]
        /\ pc[t] = "bump" => sink[src[t]][msg[t]] > 0
        /\ pc[t] = "bump_err" => dlq[src[t]][msg[t]] > 0

\* The counters of a run lack one message at the most and between two messages none; the
\* one in hand may count as processed already although it is about to be parked.
Adds(phase, seen, done, bad) ==
    /\ done <= seen /\ bad <= seen /\ seen <= done + bad + 1
    /\ phase \in {"open", "fetch"} => seen <= done + bad
    /\ phase \in InHand => bad < seen
    /\ phase \in {"check", "write", "bump"} => done < seen

Accounts == \A t \in Tasks : Adds(pc[t], got[t], row[t].processed, row[t].errors)

\* Where the group goes on, whoever is the owner.
GoesOnAt(s) == IF owner[s] # NoTask THEN position[s] ELSE StartAt(s, committed[s])

\* What is stored was handed over.
StoredWasTaken ==
    \A s \in Sources, o \in Offsets : sink[s][o] > 0 \/ dlq[s][o] > 0 => o \in taken[s]

\* As long as every consumer of s flushed its position, the group goes on after whatever
\* was handed over; so no record is in two hands, and one that is in hand before its write
\* is not stored, before its parking not parked.
Once(s) ==
    /\ \A o \in taken[s] : o < GoesOnAt(s)
    /\ \A t1, t2 \in Tasks :
          src[t1] = s /\ src[t2] = s /\ msg[t1] # NoOffset /\ msg[t1] = msg[t2] => t1 = t2
    /\ \A t \in Tasks : src[t] = s /\ pc[t] \in {"check", "write"} => sink[s][msg[t]] = 0
    /\ \A t \in Tasks : src[t] = s /\ pc[t] \in InHand \ {"bump_err"} => dlq[s][msg[t]] = 0
    /\ \A o \in Offsets : sink[s][o] <= 1 /\ dlq[s][o] <= 1

Clean == \A s \in Sources : ~unclean[s] => Once(s)
-----------------------------------------------------------------------------
(* What a step does to the record in a hand.                                *)

\* t goes on without one.
Idles(t) ==
    /\ pc[t] \notin InHand /\ pc'[t] \notin InHand
    /\ msg'[t] \in {msg[t], NoOffset}
    /\ UNCHANGED <<storeVars, taken>>

\* t is handed the record at the position of its group.
Picks(t) ==
    LET s == src[t] IN
    /\ pc[t] = "fetch" /\ owner[s] = t /\ position[s] \in Offsets
    /\ taken' = [taken EXCEPT ![s] = @ \cup {position[s]}]
    /\ \/ pc'[t] = "check" /\ msg'[t] = position[s]
       \/ pc'[t] = "close" /\ msg'[t] = NoOffset /\ "decode" \in Faults
    /\ UNCHANGED storeVars

\* t goes on with its record.
Carries(t) ==
    /\ \/ pc[t] = "check" /\ pc'[t] = "write"
       \/ pc[t] = "bump" /\ pc'[t] = "dlq"
    /\ msg'[t] = msg[t]
    /\ UNCHANGED <<storeVars, taken>>

\* What lets t be interrupted.
Interrupted(t) ==
    \/ cancelReq[t]
    \/ pc[t] = "check" /\ (state[src[t]] # "active" \/ "check" \in Faults)
    \/ pc[t] = "dlq" /\ "dlq" \in Faults

\* t lets go of its record, which is stored, parked or cut off.
LetsGo(t) ==
    /\ pc[t] \in {"check", "bump", "bump_err"} /\ pc'[t] \notin InHand
    /\ msg'[t] = NoOffset
    /\ pc[t] = "check" => Interrupted(t)
    /\ UNCHANGED <<storeVars, taken>>

\* t writes its record to the sink, or fails to.
Writes(t) ==
    /\ pc[t] = "write"
    /\ \/ sink' = Stored(sink, t) /\ pc'[t] = "bump" /\ msg'[t] = msg[t]
       \/ sink' \in {sink, Stored(sink, t)} /\ pc'[t] = "dlq" /\ msg'[t] = msg[t]
       \/ sink' \in {sink, Stored(sink, t)} /\ pc'[t] = "close" /\ msg'[t] = NoOffset /\ cancelReq[t]
    /\ UNCHANGED <<dlq, taken>>

\* t parks its record, or fails to.
Parks(t) ==
    /\ pc[t] = "dlq"
    /\ \/ dlq' = Stored(dlq, t) /\ pc'[t] = "bump_err" /\ msg'[t] = msg[t]
       \/ dlq' \in {dlq, Stored(dlq, t)} /\ pc'[t] = "close" /\ msg'[t] = NoOffset /\ Interrupted(t)
    /\ UNCHANGED <<sink, taken>>

Handles(t) ==
    Idles(t) \/ Picks(t) \/ Carries(t) \/ LetsGo(t) \/ Writes(t) \/ Parks(t)

Same(u) == pc'[u] = pc[u] /\ src'[u] = src[u] /\ msg'[u] = msg[u]

LEMMA TaskKinds ==
  ASSUME TypeInv, NEW t \in Tasks, TaskStep(t)
  PROVE  /\ Handles(t) /\ src' = src /\ UNCHANGED <<state, server>>
         /\ \A u \in Tasks \ {t} : Same(u)
<1> USE DEF TypeInv, TaskType, Handles
<1>0. UNCHANGED <<src, state, server>>
  BY TaskStepLocal, TaskStepFrame DEF processVars
<1>1. CASE Get(t) \/ Leave(t) \/ OpenRun(t) \/ NoBootstrap(t) \/ Open(t)
  BY <1>0, <1>1 DEF Get, Leave, OpenRun, NoBootstrap, Open, Resume, Escape, Idles, Same, InHand,
     historyVars
<1>2. CASE TakeRecord(t)
  <2>1. position[src[t]] \in Offsets
    BY <1>2, MaxOffsetAssumption DEF TakeRecord, Take, TaskType, GroupTypeOK, Offsets
  <2> QED
    BY <1>0, <1>2, <2>1 DEF TakeRecord, Resume, Unwind, Picks, Same
<1>3. CASE PollRaises(t)
  BY <1>0, <1>3 DEF PollRaises, Unwind, Resume, Idles, Same, InHand, historyVars
<1>4. CASE Check(t)
  BY <1>0, <1>4 DEF Check, Unwind, Resume, Outcomes, Interrupted, Carries, LetsGo, Same, InHand,
     historyVars
<1>5. CASE Write(t)
  BY <1>0, <1>5 DEF Write, Park, Unwind, Resume, Effective, Writes, Same, historyVars
<1>6. CASE Bump(t)
  BY <1>0, <1>6 DEF Bump, NextMessage, Park, Unwind, Resume, Carries, LetsGo, Same, InHand,
     historyVars
<1>7. CASE WriteDlq(t)
  BY <1>0, <1>7 DEF WriteDlq, Unwind, Resume, Outcomes, Effective, Interrupted, Parks, Same,
     historyVars
<1>8. CASE BumpErr(t)
  BY <1>0, <1>8 DEF BumpErr, NextMessage, Unwind, Resume, LetsGo, Same, InHand, historyVars
<1>9. CASE Close(t) \/ CloseRun(t) \/ Backoff(t)
  BY <1>0, <1>9 DEF Close, CloseRun, Backoff, Resume, Escape, Idles, Same, InHand, historyVars
<1> QED
  BY <1>1, <1>2, <1>3, <1>4, <1>5, <1>6, <1>7, <1>8, <1>9 DEF TaskStep

\* A step of no task: a task may begin, or end with its process.
Begins(u) == pc[u] = "done" /\ pc'[u] = "get" /\ msg'[u] = msg[u]
Ends(u) == pc'[u] = "done" /\ msg'[u] = NoOffset /\ server' # server

LEMMA OtherKinds ==
  ASSUME TypeInv, SlotInv, [Next]_vars, ~ \E t \in Tasks : TaskStep(t)
  PROVE  /\ UNCHANGED <<storeVars, taken>>
         /\ \A u \in Tasks : Same(u) \/ Begins(u) \/ Ends(u)
<1> USE DEF TypeInv, TaskType
<1>1. ASSUME NEW h \in Handlers, Request(h) \/ Return(h)
      PROVE  UNCHANGED <<storeVars, taken, pc, src, msg>>
  BY <1>1 DEF Request, SetState, Return, taskVars, historyVars
<1>2. ASSUME NEW h \in Handlers, Act(h)
      PROVE  /\ UNCHANGED <<storeVars, taken>>
             /\ \A u \in Tasks : Same(u) \/ Begins(u)
  <2>1. UNCHANGED <<storeVars, taken>>
    BY <1>2 DEF Act, historyVars
  <2>2. CASE Stop(hsrc[h])
    BY <2>1, <2>2 DEF Stop, Same
  <2>3. CASE Spawn(hsrc[h])
    BY <2>1, <2>3 DEF Spawn, Free, Live, Same, Begins, taskVars
  <2> QED
    BY <1>2, <2>2, <2>3 DEF Act
<1>3. ASSUME NEW s \in Sources, Register(s) \/ Broker(s)
      PROVE  UNCHANGED <<storeVars, taken, pc, src, msg>>
  BY <1>3 DEF Register, Broker, taskVars, historyVars
<1>4. CASE Boot
  <2>1. UNCHANGED <<storeVars, taken, msg>> /\ server = "down"
    BY <1>4 DEF Boot, historyVars
  <2>2. \A u \in Tasks : pc[u] = "done"
    BY <2>1 DEF SlotInv, ShutdownIsAlone
  <2> DEFINE on == {s \in Sources : state[s] = "active"}
  <2>3. PICK f \in [on -> Tasks] :
          /\ pc' = [t \in Tasks |-> IF \E s \in on : f[s] = t THEN "get" ELSE "done"]
          /\ src' = [t \in Tasks |-> IF \E s \in on : f[s] = t
                                     THEN CHOOSE s \in on : f[s] = t ELSE src[t]]
    BY <1>4 DEF Boot
  <2> QED
    BY <2>1, <2>2, <2>3 DEF Same, Begins
<1>5. CASE BeginShutdown \/ StopReturns \/ \E s \in Sources : StopNext(s)
  BY <1>5 DEF BeginShutdown, StopReturns, StopNext, Stop, Same, taskVars, historyVars
<1>6. CASE Exit \/ Crash
  BY <1>6 DEF Exit, Crash, Halt, Ends
<1>7. CASE UNCHANGED vars
  BY <1>7 DEF vars, Same, taskVars, historyVars
<1> QED
  BY <1>1, <1>2, <1>3, <1>4, <1>5, <1>6, <1>7 DEF Next, Lifespan, Same
-----------------------------------------------------------------------------
(* What was handed over is in hand, stored, parked or cut off.              *)

LEMMA CopyStored ==
  ASSUME TaskType, NEW t \in Tasks, pc[t] \in InHand,
         NEW store \in [Sources -> [Offsets -> 0 .. MaxCopies]]
  PROVE  /\ src[t] \in Sources /\ msg[t] \in Offsets
         /\ Stored(store, t)[src[t]][msg[t]] > 0
         /\ store[src[t]][msg[t]] = 0 => Stored(store, t)[src[t]][msg[t]] = 1
         /\ \A s \in Sources, o \in Offsets :
               /\ s # src[t] \/ o # msg[t] => Stored(store, t)[s][o] = store[s][o]
               /\ store[s][o] > 0 => Stored(store, t)[s][o] > 0
<1>1. src[t] \in Sources /\ msg[t] \in Offsets
  BY DEF TaskType, InHand
<1>2. store[src[t]] \in [Offsets -> 0 .. MaxCopies] /\ store[src[t]][msg[t]] \in 0 .. MaxCopies
  BY <1>1
<1> QED
  BY <1>1, <1>2, MaxCopiesAssumption DEF Stored

\* Rows are not taken back, and only the task that has a record in hand stores it.
LEMMA StoresGrow ==
  ASSUME TypeInv, SlotInv, [Next]_vars, NEW s \in Sources, NEW o \in Offsets
  PROVE  /\ sink[s][o] > 0 => sink'[s][o] > 0
         /\ dlq[s][o] > 0 => dlq'[s][o] > 0
         /\ o \in taken[s] => o \in taken'[s]
<1> USE DEF TypeInv, StoreType
<1>1. ASSUME NEW t \in Tasks, TaskStep(t)
      PROVE  /\ sink[s][o] > 0 => sink'[s][o] > 0
             /\ dlq[s][o] > 0 => dlq'[s][o] > 0
             /\ o \in taken[s] => o \in taken'[s]
  <2>1. Handles(t)
    BY <1>1, TaskKinds
  <2>2. /\ pc[t] \in InHand /\ sink[s][o] > 0 => Stored(sink, t)[s][o] > 0
        /\ pc[t] \in InHand /\ dlq[s][o] > 0 => Stored(dlq, t)[s][o] > 0
    BY CopyStored
  <2>3. CASE Picks(t)
    BY <2>3 DEF Picks, storeVars
  <2>4. CASE Writes(t) \/ Parks(t)
    BY <2>2, <2>4 DEF Writes, Parks, InHand
  <2> QED
    BY <2>1, <2>3, <2>4 DEF Handles, Idles, Carries, LetsGo, storeVars
<1>2. ASSUME ~ \E t \in Tasks : TaskStep(t)
      PROVE  UNCHANGED <<storeVars, taken>>
  BY <1>2, OtherKinds
<1> QED
  BY <1>1, <1>2 DEF storeVars

\* The invariant for one task.
InHandOf(t) ==
    /\ msg[t] # NoOffset => pc[t] \in InHand /\ msg[t] \in taken[src[t]]
    /\ pc[t] = "bump" => sink[src[t]][msg[t]] > 0
    /\ pc[t] = "bump_err" => dlq[src[t]][msg[t]] > 0

LEMMA HandStep ==
  ASSUME TypeInv, SlotInv, HandInv, [Next]_vars
  PROVE  HandInv'
<1> USE DEF TypeInv
<1>1. \A u \in Tasks : InHandOf(u)
  BY DEF HandInv, InHandOf
<1>2. \A u \in Tasks : pc[u] \in InHand => src[u] \in Sources /\ msg[u] \in Offsets
  BY DEF TaskType, InHand
<1>3. ASSUME NEW u \in Tasks, Same(u)
      PROVE  InHandOf(u)'
  <2>1. CASE pc[u] \in InHand
    BY <1>1, <1>2, <1>3, <2>1, StoresGrow DEF Same, InHandOf
  <2>2. CASE pc[u] \notin InHand
    BY <1>1, <1>3, <2>2 DEF Same, InHandOf, InHand
  <2> QED
    BY <2>1, <2>2
<1>4. ASSUME NEW u \in Tasks, Begins(u) \/ Ends(u)
      PROVE  InHandOf(u)'
  BY <1>1, <1>4 DEF Begins, Ends, InHandOf, InHand
<1>5. ASSUME NEW t \in Tasks, TaskStep(t)
      PROVE  InHandOf(t)'
  <2>1. Handles(t) /\ src' = src
    BY <1>5, TaskKinds
  <2>2. CASE Idles(t) \/ LetsGo(t)
    BY <1>1, <2>2 DEF Idles, LetsGo, InHandOf, InHand
  <2>3. CASE Picks(t)
    BY <1>1, <2>1, <2>3 DEF Picks, InHandOf, InHand, TaskType, StoreType
  <2>4. CASE Carries(t)
    BY <1>1, <2>1, <2>4 DEF Carries, InHandOf, InHand
  <2>5. CASE Writes(t)
    <3>1. pc'[t] = "bump" => sink'[src[t]][msg[t]] > 0
      <4>1. pc[t] \in InHand
        BY <2>5 DEF Writes, InHand
      <4>2. Stored(sink, t)[src[t]][msg[t]] > 0
        BY <4>1, CopyStored DEF StoreType
      <4> QED
        BY <2>5, <4>2 DEF Writes
    <3> QED
      BY <1>1, <2>1, <2>5, <3>1 DEF Writes, InHandOf, InHand
  <2>6. CASE Parks(t)
    <3>1. pc'[t] = "bump_err" => dlq'[src[t]][msg[t]] > 0
      <4>1. pc[t] \in InHand
        BY <2>6 DEF Parks, InHand
      <4>2. Stored(dlq, t)[src[t]][msg[t]] > 0
        BY <4>1, CopyStored DEF StoreType
      <4> QED
        BY <2>6, <4>2 DEF Parks
    <3> QED
      BY <1>1, <2>1, <2>6, <3>1 DEF Parks, InHandOf, InHand
  <2> QED
    BY <2>1, <2>2, <2>3, <2>4, <2>5, <2>6 DEF Handles
<1>6. \A u \in Tasks : InHandOf(u)'
  <2>1. CASE \E t \in Tasks : TaskStep(t)
    BY <1>3, <1>5, <2>1, TaskKinds
  <2>2. CASE ~ \E t \in Tasks : TaskStep(t)
    BY <1>3, <1>4, <2>2, OtherKinds
  <2> QED
    BY <2>1, <2>2
<1> QED
  BY <1>6 DEF HandInv, InHandOf
-----------------------------------------------------------------------------
(* The runner implements MessageFate.                                       *)

\* The parts of the mapping.
Kept(s, o) == sink[s][o] > 0 \/ dlq[s][o] > 0
InSomeHand(s, o) == \E t \in Tasks : src[t] = s /\ msg[t] = o
IsCutOff(s, o) == <<s, o>> \in CutOff

LEMMA FateParts ==
  ASSUME NEW s \in Sources, NEW o \in Offsets
  PROVE  FateOf[<<s, o>>] = IF Kept(s, o) THEN "kept" ELSE IF InSomeHand(s, o) THEN "held"
                            ELSE IF o \in taken[s] THEN "lost" ELSE "unseen"
  BY DEF FateOf, Records, Held, Kept, InSomeHand

\* What t has in hand is cut off once t can be interrupted.
LEMMA CutOffInHand ==
  ASSUME NEW t \in Tasks, src[t] \in Sources, msg[t] \in Offsets, Interrupted(t)
  PROVE  IsCutOff(src[t], msg[t])
  BY DEF IsCutOff, CutOff, Records, Interrupted

\* Only who has a record in hand stores it.
LEMMA KeptWasHeld ==
  ASSUME TypeInv, SlotInv, [Next]_vars, NEW s \in Sources, NEW o \in Offsets, Kept(s, o)'
  PROVE  Kept(s, o) \/ InSomeHand(s, o)
<1> USE DEF TypeInv, StoreType
<1>1. ASSUME NEW t \in Tasks, TaskStep(t)
      PROVE  Kept(s, o) \/ (src[t] = s /\ msg[t] = o)
  <2>1. Handles(t)
    BY <1>1, TaskKinds
  <2>2. CASE Writes(t)
    <3>1. pc[t] \in InHand
      BY <2>2 DEF Writes, InHand
    <3>2. s # src[t] \/ o # msg[t] => Stored(sink, t)[s][o] = sink[s][o]
      BY <3>1, CopyStored
    <3> QED
      BY <2>2, <3>2 DEF Writes, Kept
  <2>3. CASE Parks(t)
    <3>1. pc[t] \in InHand
      BY <2>3 DEF Parks, InHand
    <3>2. s # src[t] \/ o # msg[t] => Stored(dlq, t)[s][o] = dlq[s][o]
      BY <3>1, CopyStored
    <3> QED
      BY <2>3, <3>2 DEF Parks, Kept
  <2>4. CASE UNCHANGED storeVars
    BY <2>4 DEF storeVars, Kept
  <2> QED
    BY <2>1, <2>2, <2>3, <2>4 DEF Handles, Idles, Picks, Carries, LetsGo
<1>2. ASSUME ~ \E t \in Tasks : TaskStep(t)
      PROVE  Kept(s, o)
  BY <1>2, OtherKinds DEF storeVars, Kept
<1> QED
  BY <1>1, <1>2 DEF InSomeHand

\* A record that leaves every hand is stored or parked, or was cut off, or the process ended.
LEMMA HeldEnds ==
  ASSUME TypeInv, SlotInv, HandInv, [Next]_vars, NEW s \in Sources, NEW o \in Offsets,
         InSomeHand(s, o), ~InSomeHand(s, o)', ~Kept(s, o)
  PROVE  IsCutOff(s, o) \/ Kept(s, o)' \/ server' # server
<1>1. PICK t \in Tasks : src[t] = s /\ msg[t] = o
  BY DEF InSomeHand
<1>2. o # NoOffset /\ pc[t] \in InHand /\ pc[t] \notin {"bump", "bump_err"}
  BY <1>1, MaxOffsetAssumption DEF HandInv, Kept, Offsets, NoOffset
<1>3. ~Same(t)
  BY <1>1 DEF Same, InSomeHand
<1>4. Interrupted(t) => IsCutOff(s, o)
  BY <1>1, CutOffInHand
<1>5. CASE TaskStep(t)
  <2>1. Handles(t) /\ src' = src
    BY <1>5, TaskKinds
  <2>2. msg'[t] # msg[t]
    BY <1>1, <2>1 DEF InSomeHand
  <2> QED
    BY <1>2, <1>4, <2>1, <2>2 DEF Handles, Idles, Picks, Carries, LetsGo, Writes, Parks,
       Interrupted, InHand
<1>6. CASE \E u \in Tasks \ {t} : TaskStep(u)
  BY <1>3, <1>6, TaskKinds
<1>7. CASE ~ \E u \in Tasks : TaskStep(u)
  BY <1>2, <1>3, <1>7, OtherKinds DEF Begins, Ends, InHand
<1> QED
  BY <1>5, <1>6, <1>7

\* A record that is handed over comes into a hand, or is no message.
LEMMA TakenIsHeld ==
  ASSUME TypeInv, SlotInv, [Next]_vars, NEW s \in Sources, NEW o \in Offsets,
         o \notin taken[s], o \in taken'[s]
  PROVE  InSomeHand(s, o)' \/ IsCutOff(s, o)
<1>1. PICK t \in Tasks : TaskStep(t)
  BY OtherKinds
<1>2. Handles(t) /\ src' = src
  BY <1>1, TaskKinds
<1>3. Picks(t)
  BY <1>2 DEF Handles, Idles, Carries, LetsGo, Writes, Parks
<1>4. src[t] = s /\ position[s] = o
  BY <1>3 DEF Picks, TypeInv, StoreType
<1> QED
  BY <1>2, <1>3, <1>4 DEF Picks, InSomeHand, IsCutOff, CutOff, Records

LEMMA FateStep ==
  ASSUME TypeInv, SlotInv, HandInv, [Next]_vars
  PROVE  Fates!Next
<1>1. HandInv'
  BY HandStep
<1>2. FateOf' \in [Records -> Fates!Fates] /\ CutOff' \in SUBSET Records
  BY DEF FateOf, Fates!Fates, CutOff, Records
<1>3. ASSUME NEW s \in Sources, NEW o \in Offsets
      PROVE  LET r == <<s, o>> IN
             \/ Fates!Stays(r) \/ Fates!Receive(r) \/ Fates!Keep(r) \/ Fates!Return(r)
             \/ Fates!Lose(r) \/ Fates!Spoil(r)
  <2> DEFINE r == <<s, o>>
  <2>1. FateOf[r] = IF Kept(s, o) THEN "kept" ELSE IF InSomeHand(s, o) THEN "held"
                    ELSE IF o \in taken[s] THEN "lost" ELSE "unseen"
    BY FateParts
  <2>2. FateOf'[r] = IF Kept(s, o)' THEN "kept" ELSE IF InSomeHand(s, o)' THEN "held"
                     ELSE IF o \in taken'[s] THEN "lost" ELSE "unseen"
    BY DEF FateOf, Records, Held, Kept, InSomeHand
  <2>3. /\ InSomeHand(s, o) => o \in taken[s]
        /\ InSomeHand(s, o)' => o \in taken'[s]
    BY <1>1, MaxOffsetAssumption DEF HandInv, InSomeHand, Offsets, NoOffset
  <2>4. /\ Kept(s, o) => Kept(s, o)'
        /\ o \in taken[s] => o \in taken'[s]
    BY StoresGrow DEF Kept
  <2>5. Kept(s, o)' => Kept(s, o) \/ InSomeHand(s, o)
    BY KeptWasHeld
  <2>6. /\ Fates!Stays(r) <=> FateOf'[r] = FateOf[r]
        /\ Fates!Receive(r) <=> FateOf[r] = "unseen" /\ FateOf'[r] = "held"
        /\ Fates!Keep(r) <=> FateOf[r] = "held" /\ FateOf'[r] = "kept"
        /\ Fates!Return(r) <=> FateOf[r] = "lost" /\ FateOf'[r] = "held"
        /\ Fates!Lose(r) <=> /\ FateOf[r] = "held" /\ FateOf'[r] = "lost"
                             /\ IsCutOff(s, o) \/ server' # server
        /\ Fates!Spoil(r) <=> FateOf[r] = "unseen" /\ FateOf'[r] = "lost" /\ IsCutOff(s, o)
    BY DEF Fates!Stays, Fates!Receive, Fates!Keep, Fates!Return, Fates!Lose, Fates!Spoil,
       Fates!Turns, IsCutOff
  <2>7. CASE Kept(s, o)
    <3>1. FateOf[r] = "kept" /\ FateOf'[r] = "kept"
      BY <2>1, <2>2, <2>4, <2>7
    <3> QED
      BY <2>6, <3>1
  <2>8. CASE ~Kept(s, o) /\ InSomeHand(s, o)
    BY <2>1, <2>2, <2>3, <2>4, <2>6, <2>8, HeldEnds
  <2>9. CASE ~Kept(s, o) /\ ~InSomeHand(s, o)
    BY <2>1, <2>2, <2>3, <2>4, <2>5, <2>6, <2>9, TakenIsHeld
  <2> QED
    BY <2>7, <2>8, <2>9
<1>4. \A r \in Records : r = <<r[1], r[2]>> /\ r[1] \in Sources /\ r[2] \in Offsets
  BY DEF Records
<1>5. \A r \in Records :
         \/ Fates!Stays(r) \/ Fates!Receive(r) \/ Fates!Keep(r) \/ Fates!Return(r)
         \/ Fates!Lose(r) \/ Fates!Spoil(r)
  BY <1>3, <1>4
<1> QED
  BY <1>2, <1>5 DEF Fates!Next

LEMMA RecordsInvariant == Spec => [](TypeInv /\ SlotInv /\ HandInv)
<1>1. Init => TypeInv /\ SlotInv /\ HandInv
  BY TypeInit, SlotInvInit DEF Init, HandInv
<1>2. TypeInv /\ SlotInv /\ HandInv /\ [Next]_vars => (TypeInv /\ SlotInv /\ HandInv)'
  BY TypeStep, SlotInvStep, HandStep
<1> QED
  BY <1>1, <1>2, PTL DEF Spec

(* Whatever fails, a record that was handed over is in hand, stored or       *)
(* parked; it is lost with the process, or cut off while its task is         *)
(* cancelled, finds the source off, or cannot look at the state or park it.  *)
THEOREM RunnerImplementsFates == Spec => FatesImplemented
<1>1. Init => Fates!Init
  <2> SUFFICES ASSUME Init PROVE Fates!Init
    OBVIOUS
  <2>1. FateOf = [r \in Records |-> "unseen"]
    BY MaxOffsetAssumption DEF Init, FateOf, Records, Held, Offsets, NoOffset
  <2>2. CutOff \in SUBSET Records
    BY DEF CutOff
  <2> QED
    BY <2>1, <2>2 DEF Fates!Init
<1> QED
  BY <1>1, RecordsInvariant, FateStep, PTL DEF Spec, FatesImplemented, Fates!Spec
-----------------------------------------------------------------------------
(* The counters of a run.                                                   *)

LEMMA TaskStepRows ==
  ASSUME TypeInv, Accounts, NEW t \in Tasks, TaskStep(t)
  PROVE  /\ Adds(pc'[t], got'[t], row'[t].processed, row'[t].errors)
         /\ \A u \in Tasks \ {t} : pc'[u] = pc[u] /\ got'[u] = got[u] /\ row'[u] = row[u]
<1> DEFINE g == got[t]
           d == row[t].processed
           e == row[t].errors
<1>0. /\ g \in Nat /\ d \in Nat /\ e \in Nat /\ Adds(pc[t], g, d, e)
      /\ pc \in [Tasks -> Phases] /\ got \in [Tasks -> Nat] /\ row \in [Tasks -> Rows]
      /\ \A u \in Tasks \ {t} : pc'[u] = pc[u]
  BY TaskStepLocal DEF TypeInv, TaskType, RowType, Rows, Accounts
<1> USE DEF Rows
<1>1. CASE OpenRun(t)
  <2>1. got' \in {got, [got EXCEPT ![t] = 0]}
        /\ row' \in {row, [row EXCEPT ![t] = [NoRow EXCEPT !.status = "running"]]}
    BY <1>1 DEF OpenRun
  <2>2. \/ got' = got /\ row' = row /\ pc'[t] # "open"
        \/ got'[t] = 0 /\ row'[t].processed = 0 /\ row'[t].errors = 0
    BY <1>0, <1>1 DEF OpenRun, Effective, Resume, Escape, NoRow
  <2>3. pc'[t] \in {"open", "no_bootstrap", "done", "backoff"}
    BY <1>0, <1>1 DEF OpenRun, Resume, Escape
  <2> QED
    BY <1>0, <2>1, <2>2, <2>3 DEF Adds, InHand
<1>2. CASE NoBootstrap(t) \/ CloseRun(t)
  <2>1. /\ pc'[t] \in {"done", "backoff"} /\ got' = got
        /\ row'[t].processed = d /\ row'[t].errors = e
        /\ \A u \in Tasks \ {t} : row'[u] = row[u]
    BY <1>0, <1>2 DEF NoBootstrap, CloseRun, SetStatus, Resume, Escape
  <2> QED
    BY <1>0, <2>1 DEF Adds, InHand
<1>3. CASE TakeRecord(t)
  <2>1. got'[t] = g + 1 /\ row' = row /\ \A u \in Tasks \ {t} : got'[u] = got[u]
    BY <1>0, <1>3 DEF TakeRecord
  <2>2. pc[t] = "fetch" /\ pc'[t] \in {"check", "close"}
    BY <1>0, <1>3 DEF TakeRecord, Resume, Unwind
  <2> QED
    BY <1>0, <2>1, <2>2 DEF Adds, InHand
<1>4. CASE Bump(t)
  <2>1. /\ got' = got /\ row'[t].errors = e /\ row'[t].processed \in {d, d + 1}
        /\ \A u \in Tasks \ {t} : row'[u] = row[u]
    BY <1>0, <1>4 DEF Bump
  <2>2. /\ pc[t] = "bump" /\ pc'[t] \in {"fetch", "dlq", "close"}
        /\ pc'[t] = "fetch" => row'[t].processed = d + 1
    BY <1>0, <1>4 DEF Bump, NextMessage, Park, Unwind, Resume, Effective
  <2> QED
    BY <1>0, <2>1, <2>2 DEF Adds, InHand
<1>5. CASE BumpErr(t)
  <2>1. /\ got' = got /\ row'[t].processed = d /\ row'[t].errors \in {e, e + 1}
        /\ \A u \in Tasks \ {t} : row'[u] = row[u]
    BY <1>0, <1>5 DEF BumpErr
  <2>2. /\ pc[t] = "bump_err" /\ pc'[t] \in {"fetch", "close"}
        /\ pc'[t] = "fetch" => row'[t].errors = e + 1
    BY <1>0, <1>5 DEF BumpErr, NextMessage, Unwind, Resume, Effective
  <2> QED
    BY <1>0, <2>1, <2>2 DEF Adds, InHand
<1>6. CASE Open(t) \/ Check(t) \/ Write(t) \/ WriteDlq(t)
  <2>1. got' = got /\ row' = row
    BY <1>6 DEF Open, Check, Write, WriteDlq, rowVars
  <2>2. \/ pc'[t] \in {"done", "backoff", "close"}
        \/ <<pc[t], pc'[t]>> \in {<<"open", "fetch">>, <<"check", "write">>, <<"write", "bump">>,
                                  <<"write", "dlq">>, <<"dlq", "bump_err">>}
    BY <1>0, <1>6 DEF Open, Check, Write, WriteDlq, Park, Unwind, Resume, Escape
  <2> QED
    BY <1>0, <2>1, <2>2 DEF Adds, InHand
<1>7. CASE Get(t) \/ Leave(t) \/ PollRaises(t) \/ Close(t) \/ Backoff(t)
  <2>1. got' = got /\ row' = row
    BY <1>7 DEF Get, Leave, PollRaises, Close, Backoff, rowVars
  <2>2. pc'[t] \in {"done", "backoff", "close", "close_run", "get", "leave", "open_run"}
    BY <1>0, <1>7 DEF Get, Leave, PollRaises, Close, Backoff, Unwind, Resume, Escape
  <2> QED
    BY <1>0, <2>1, <2>2 DEF Adds, InHand
<1> QED
  BY <1>1, <1>2, <1>3, <1>4, <1>5, <1>6, <1>7 DEF TaskStep

LEMMA AccountsStep ==
  ASSUME TypeInv, SlotInv, Accounts, [Next]_vars
  PROVE  Accounts'
<1>1. ASSUME NEW t \in Tasks, TaskStep(t)
      PROVE  Accounts'
  BY <1>1, TaskStepRows DEF Accounts
<1>2. ASSUME ~ \E t \in Tasks : TaskStep(t)
      PROVE  Accounts'
  <2>1. UNCHANGED rowVars
    BY <1>2 DEF Next, Request, SetState, Act, Return, Register, Broker, Lifespan, Boot,
       BeginShutdown, StopNext, StopReturns, Exit, Crash, Halt, vars
  <2>2. \A u \in Tasks : pc'[u] = pc[u] \/ pc'[u] \in {"get", "done"}
    BY <1>2, OtherKinds DEF Same, Begins, Ends
  <2> QED
    BY <2>1, <2>2 DEF Accounts, Adds, rowVars, InHand
<1> QED
  BY <1>1, <1>2

(* Whatever fails, the counters of a run count no message twice, lack one at *)
(* the most, and between two messages lack none.                             *)
THEOREM CountersAccount == Spec => []RunAccounts
<1>1. Init => Accounts
  BY DEF Init, Accounts, Adds, InHand, NoRow
<1>2. TypeInv /\ Accounts => RunAccounts
  BY DEF Accounts, Adds, RunAccounts, TypeInv, RowType, Rows
<1>3. TypeInv /\ SlotInv /\ Accounts /\ [Next]_vars => Accounts'
  BY AccountsStep
<1> QED
  BY <1>1, <1>2, <1>3, RecordsInvariant, PTL DEF Spec
-----------------------------------------------------------------------------
(* Records that are stored or parked twice.                                 *)

LEMMA UncleanStays ==
  ASSUME TypeInv, [Next]_vars, NEW s \in Sources, ~unclean'[s]
  PROVE  ~unclean[s]
<1>1. CASE \E t \in Tasks : Close(t)
  BY <1>1 DEF Close, TypeInv, StoreType
<1>2. CASE Exit \/ Crash
  BY <1>2 DEF Exit, Crash, Halt
<1> QED
  BY <1>1, <1>2 DEF Next, TaskStep, Get, Leave, OpenRun, NoBootstrap, Open, TakeRecord, PollRaises, Check,
     Write, Bump, WriteDlq, BumpErr, CloseRun, Backoff, Request, SetState, Act, Return, Register,
     Broker, Lifespan, Boot, BeginShutdown, StopNext, StopReturns, historyVars, vars

\* Whatever became of the group, it goes on after all that was handed over, unless a
\* position was not flushed.
LEMMA GoesOnAfter ==
  ASSUME TypeInv, SlotInv, [Next]_vars, NEW s \in Sources, ~unclean'[s],
         \A o \in taken[s] : o < GoesOnAt(s)
  PROVE  ~unclean[s] /\ \A o \in taken'[s] : o < GoesOnAt(s)'
<1> USE MaxOffsetAssumption, NoTaskAssumption, EarliestAssumption
    DEF TypeInv, GroupTypeOK, StoreType, GoesOnAt, StartAt, NoOffset, Offsets
<1>0. /\ \A o \in taken[s] : o \in Nat
      /\ position[s] \in Nat /\ position[s] # NoOffset
      /\ StartAt(s, position[s]) = position[s]
  OBVIOUS
<1>1. CASE UNCHANGED <<groupVars, historyVars>>
  BY <1>1 DEF groupVars, historyVars
<1>2. ASSUME NEW t \in Tasks, TaskStep(t)
      PROVE  ~unclean[s] /\ \A o \in taken'[s] : o < GoesOnAt(s)'
  <2>0. pc[t] # "done" /\ src[t] \in Sources
    BY <1>2, TaskStepLocal DEF TaskType
  <2>1. CASE Open(t)
    BY <1>1, <2>1 DEF Open, Join, groupVars, historyVars
  <2>2. CASE TakeRecord(t)
    <3>1. /\ Take(src[t]) /\ owner[src[t]] = t /\ UNCHANGED unclean
          /\ taken' = [taken EXCEPT ![src[t]] = @ \cup {position[src[t]]}]
      BY <2>2 DEF TakeRecord
    <3>2. CASE src[t] = s
      <4>1. GoesOnAt(s) = position[s] /\ GoesOnAt(s)' = position[s] + 1
        BY <3>1, <3>2 DEF Take
      <4>2. taken'[s] = taken[s] \cup {position[s]} /\ position[s] \in Nat
        BY <3>1, <3>2
      <4> HIDE DEF GoesOnAt
      <4> QED
        BY <1>0, <3>1, <4>1, <4>2
    <3>3. CASE src[t] # s
      BY <2>0, <3>1, <3>3 DEF Take
    <3> QED
      BY <3>2, <3>3
  <2>3. CASE Close(t)
    <3>1. PICK flush \in BOOLEAN :
            /\ Depart(src[t], t, flush)
            /\ unclean' = [unclean EXCEPT ![src[t]] =
                              @ \/ (owner[src[t]] = t /\ ~flush /\ Uncommitted(src[t]))]
            /\ UNCHANGED taken
      BY <2>3 DEF Close
    <3>2. CASE src[t] = s /\ owner[s] = t
      <4>1. committed'[s] = position[s] /\ owner'[s] = NoTask /\ UNCHANGED taken
        BY <3>1, <3>2 DEF Depart, Uncommitted
      <4>2. GoesOnAt(s) = position[s] /\ GoesOnAt(s)' = position[s]
        BY <1>0, <3>2, <4>1
      <4>3. ~unclean[s]
        BY <3>1, <3>2
      <4> QED
        BY <4>1, <4>2, <4>3
    <3>3. CASE ~(src[t] = s /\ owner[s] = t)
      BY <2>0, <3>1, <3>3 DEF Depart, Uncommitted
    <3> QED
      BY <3>2, <3>3
  <2> QED
    BY <1>1, <1>2, <2>1, <2>2, <2>3 DEF TaskStep, Get, Leave, OpenRun, NoBootstrap, PollRaises, Check,
       Write, Bump, WriteDlq, BumpErr, CloseRun, Backoff
<1>3. ASSUME NEW r \in Sources, Broker(r)
      PROVE  ~unclean[s] /\ \A o \in taken'[s] : o < GoesOnAt(s)'
  <2>1. UNCHANGED historyVars
    BY <1>3 DEF Broker
  <2>2. CASE Produce(r)
    <3>1. UNCHANGED <<taken, unclean, owner, position, committed>>
      BY <2>1, <2>2 DEF Produce, historyVars
    <3>2. logEnd[s] \in Nat /\ logEnd'[s] \in Nat /\ logEnd'[s] >= logEnd[s]
      <4>1. logEnd[s] \in Nat
        OBVIOUS
      <4>2. logEnd'[s] = logEnd[s] + 1 \/ logEnd'[s] = logEnd[s]
        BY <2>2 DEF Produce
      <4> QED
        BY <4>1, <4>2
    <3>3. GoesOnAt(s) \in Nat
      OBVIOUS
    <3>4. GoesOnAt(s)' \in Nat /\ GoesOnAt(s)' >= GoesOnAt(s)
      BY <3>1, <3>2, <3>3
    <3> HIDE DEF GoesOnAt
    <3> QED
      BY <1>0, <3>1, <3>3, <3>4
  <2>3. CASE AutoCommit(r)
    BY <2>1, <2>3 DEF AutoCommit, Uncommitted, historyVars
  <2>4. ASSUME NEW t \in Tasks, Assign(r, t)
        PROVE  ~unclean[s] /\ \A o \in taken'[s] : o < GoesOnAt(s)'
    <3>1. /\ UNCHANGED <<taken, unclean, logEnd>>
          /\ r # s => UNCHANGED <<owner[s], position[s], committed[s]>>
          /\ r = s => owner'[s] = t /\ position'[s] = StartAt(s, Flushed(s))
      BY <2>1, <2>4 DEF Assign, historyVars
    <3>2. StartAt(s, Flushed(s)) = GoesOnAt(s)
      BY <1>0 DEF Flushed
    <3>3. GoesOnAt(s)' = GoesOnAt(s)
      BY <3>1, <3>2
    <3> QED
      BY <3>1, <3>3
  <2> QED
    BY <1>3, <2>2, <2>3, <2>4 DEF Broker
<1>4. CASE Exit \/ Crash
  <2>1. /\ unclean' = [r \in Sources |-> unclean[r] \/ Uncommitted(r)] /\ UNCHANGED taken
        /\ LoseMembers
    BY <1>4 DEF Exit, Crash, Halt
  <2> QED
    <3>1. /\ ~unclean[s] /\ owner'[s] = NoTask /\ UNCHANGED <<taken, committed[s], logEnd>>
          /\ owner[s] # NoTask => committed[s] = position[s]
      BY <2>1 DEF LoseMembers, Uncommitted
    <3>2. GoesOnAt(s)' = GoesOnAt(s)
      BY <1>0, <3>1
    <3> QED
      BY <3>1, <3>2
<1> QED
  BY <1>1, <1>2, <1>3, <1>4 DEF Next, Request, SetState, Act, Return, Register, Lifespan, Boot,
     BeginShutdown, StopNext, StopReturns, vars

LEMMA StoredWasTakenStep ==
  ASSUME TypeInv, SlotInv, HandInv, StoredWasTaken, [Next]_vars
  PROVE  StoredWasTaken'
<1> SUFFICES ASSUME NEW s \in Sources, NEW o \in Offsets, Kept(s, o)'
             PROVE  o \in taken'[s]
  BY DEF StoredWasTaken, Kept
<1>1. Kept(s, o) \/ InSomeHand(s, o)
  BY KeptWasHeld
<1>2. o \in taken[s]
  BY <1>1, MaxOffsetAssumption DEF StoredWasTaken, Kept, InSomeHand, HandInv, Offsets, NoOffset
<1> QED
  BY <1>2, StoresGrow

LEMMA OnceStep ==
  ASSUME TypeInv, SlotInv, HandInv, StoredWasTaken, [Next]_vars,
         NEW s \in Sources, Once(s), ~unclean'[s]
  PROVE  Once(s)'
<1> USE DEF TypeInv, StoreType
<1>1. \A o \in taken'[s] : o < GoesOnAt(s)'
  BY GoesOnAfter DEF Once
<1>2. ASSUME NEW t \in Tasks, TaskStep(t), Picks(t), src[t] = s
      PROVE  /\ position[s] \in Offsets /\ position[s] \notin taken[s]
             /\ sink[s][position[s]] = 0 /\ dlq[s][position[s]] = 0
  <2>1. position[s] \in Offsets /\ GoesOnAt(s) = position[s]
    BY <1>2, NoTaskAssumption DEF Picks, GoesOnAt
  <2>2. position[s] \notin taken[s]
    BY <2>1 DEF Once, Offsets
  <2>3. sink[s][position[s]] \in 0 .. MaxCopies /\ dlq[s][position[s]] \in 0 .. MaxCopies
    BY <2>1
  <2> QED
    BY <2>1, <2>2, <2>3, MaxCopiesAssumption DEF StoredWasTaken
<1>3. ASSUME NEW u \in Tasks, msg'[u] # NoOffset, src'[u] = s
      PROVE  \/ src[u] = s /\ msg[u] = msg'[u]
             \/ TaskStep(u) /\ Picks(u) /\ src[u] = s /\ msg'[u] = position[s]
  <2>1. CASE TaskStep(u)
    BY <1>3, <2>1, TaskKinds DEF Handles, Idles, Picks, Carries, LetsGo, Writes, Parks
  <2>2. CASE Same(u)
    BY <1>3, <2>2 DEF Same
  <2>3. CASE Begins(u) \/ Ends(u)
    BY <1>3, <2>3 DEF Begins, Ends, HandInv, InHand
  <2> QED
    BY <2>1, <2>2, <2>3, TaskKinds, OtherKinds
<1>4. ASSUME NEW t1 \in Tasks, NEW t2 \in Tasks, src'[t1] = s, src'[t2] = s,
             msg'[t1] # NoOffset, msg'[t1] = msg'[t2]
      PROVE  t1 = t2
  <2>1. ASSUME NEW u \in Tasks, src[u] = s, msg[u] # NoOffset
        PROVE  msg[u] \in taken[s]
    BY <2>1 DEF HandInv
  <2>2. \A u, v \in Tasks : TaskStep(u) /\ TaskStep(v) /\ Picks(u) /\ Picks(v) => u = v
    BY TaskKinds DEF Picks, Same
  <2> QED
    BY <1>2, <1>3, <1>4, <2>1, <2>2 DEF Once
\* What another task has in hand is not stored by t.
<1>5. ASSUME NEW u \in Tasks, src[u] = s, pc[u] \in InHand,
             NEW t \in Tasks \ {u}, TaskStep(t)
      PROVE  sink'[s][msg[u]] = sink[s][msg[u]] /\ dlq'[s][msg[u]] = dlq[s][msg[u]]
  <2>1. msg[u] \in Offsets /\ msg[u] # NoOffset
    BY <1>5, MaxOffsetAssumption DEF TaskType, InHand, Offsets, NoOffset
  <2>2. src[t] # s \/ msg[t] # msg[u]
    BY <1>5, <2>1 DEF Once
  <2>3. pc[t] \in InHand => /\ Stored(sink, t)[s][msg[u]] = sink[s][msg[u]]
                            /\ Stored(dlq, t)[s][msg[u]] = dlq[s][msg[u]]
    BY <1>5, <2>1, <2>2, CopyStored
  <2>4. Handles(t)
    BY <1>5, TaskKinds
  <2>5. CASE Writes(t) \/ Parks(t)
    BY <2>3, <2>5 DEF Writes, Parks, InHand
  <2> QED
    BY <2>4, <2>5 DEF Handles, Idles, Picks, Carries, LetsGo, storeVars
<1>6. ASSUME NEW u \in Tasks, src'[u] = s, pc'[u] \in InHand
      PROVE  /\ pc'[u] \in {"check", "write"} => sink'[s][msg'[u]] = 0
             /\ pc'[u] # "bump_err" => dlq'[s][msg'[u]] = 0
  <2>1. CASE TaskStep(u)
    <3>1. Handles(u) /\ src[u] = s
      BY <1>6, <2>1, TaskKinds
    <3>2. CASE Picks(u)
      BY <1>2, <1>6, <2>1, <3>1, <3>2 DEF Picks, InHand, storeVars
    <3>3. CASE Carries(u)
      BY <3>1, <3>3 DEF Carries, Once, InHand, storeVars
    <3>4. CASE Writes(u)
      BY <1>6, <3>1, <3>4 DEF Writes, Once, InHand
    <3>5. CASE Parks(u)
      BY <1>6, <3>5 DEF Parks, InHand
    <3> QED
      BY <1>6, <3>1, <3>2, <3>3, <3>4, <3>5 DEF Handles, Idles, LetsGo
  <2>2. ASSUME NEW t \in Tasks \ {u}, TaskStep(t)
        PROVE  /\ pc'[u] \in {"check", "write"} => sink'[s][msg'[u]] = 0
               /\ pc'[u] # "bump_err" => dlq'[s][msg'[u]] = 0
    <3>1. Same(u)
      BY <2>2, TaskKinds
    <3> QED
      BY <1>5, <1>6, <2>2, <3>1 DEF Same, Once
  <2>3. CASE ~ \E t \in Tasks : TaskStep(t)
    BY <1>6, <2>3, OtherKinds DEF Same, Begins, Ends, Once, InHand, storeVars
  <2> QED
    BY <2>1, <2>2, <2>3
<1>7. ASSUME NEW o \in Offsets
      PROVE  sink'[s][o] <= 1 /\ dlq'[s][o] <= 1
  <2>1. sink[s][o] <= 1 /\ dlq[s][o] <= 1
    BY DEF Once
  <2>2. ASSUME NEW t \in Tasks, TaskStep(t)
        PROVE  sink'[s][o] <= 1 /\ dlq'[s][o] <= 1
    <3>1. Handles(t)
      BY <2>2, TaskKinds
    <3>2. CASE Writes(t)
      <4>1. pc[t] \in InHand /\ (src[t] = s => sink[s][msg[t]] = 0)
        BY <3>2 DEF Writes, InHand, Once
      <4>2. Stored(sink, t)[s][o] \in {sink[s][o], 1}
        BY <4>1, CopyStored
      <4> QED
        BY <2>1, <3>2, <4>2 DEF Writes
    <3>3. CASE Parks(t)
      <4>1. pc[t] \in InHand /\ (src[t] = s => dlq[s][msg[t]] = 0)
        BY <3>3 DEF Parks, InHand, Once
      <4>2. Stored(dlq, t)[s][o] \in {dlq[s][o], 1}
        BY <4>1, CopyStored
      <4> QED
        BY <2>1, <3>3, <4>2 DEF Parks
    <3> QED
      BY <2>1, <3>1, <3>2, <3>3 DEF Handles, Idles, Picks, Carries, LetsGo, storeVars
  <2>3. CASE ~ \E t \in Tasks : TaskStep(t)
    BY <2>1, <2>3, OtherKinds DEF storeVars
  <2> QED
    BY <2>2, <2>3
<1>8. \A t \in Tasks : src'[t] = s /\ pc'[t] \in {"check", "write"} => sink'[s][msg'[t]] = 0
  BY <1>6 DEF InHand
<1>9. \A t \in Tasks : src'[t] = s /\ pc'[t] \in InHand \ {"bump_err"} => dlq'[s][msg'[t]] = 0
  BY <1>6
<1> QED
  BY <1>1, <1>4, <1>7, <1>8, <1>9 DEF Once

LEMMA CleanStep ==
  ASSUME TypeInv, SlotInv, HandInv, StoredWasTaken, Clean, [Next]_vars
  PROVE  Clean'
<1> SUFFICES ASSUME NEW s \in Sources, ~unclean'[s]
             PROVE  Once(s)'
  BY DEF Clean
<1>1. ~unclean[s]
  BY UncleanStays
<1> QED
  BY <1>1, OnceStep DEF Clean

(* A record is stored twice, or parked twice, only after a consumer of its   *)
(* source went away without flushing its position.                           *)
THEOREM CopiesOnlyAfterUnclean == Spec => []TwiceOnlyIfUnclean
<1>1. Init => StoredWasTaken /\ Clean
  BY MaxOffsetAssumption DEF Init, GroupInit, StoredWasTaken, Clean, Once, GoesOnAt, InHand,
     Offsets, NoOffset
<1>2. TypeInv /\ Clean => TwiceOnlyIfUnclean
  BY DEF TypeInv, StoreType, Clean, Once, TwiceOnlyIfUnclean
<1>3. TypeInv /\ SlotInv /\ HandInv /\ StoredWasTaken /\ Clean /\ [Next]_vars
      => (StoredWasTaken /\ Clean)'
  BY StoredWasTakenStep, CleanStep
<1> QED
  BY <1>1, <1>2, <1>3, RecordsInvariant, PTL DEF Spec
=============================================================================
