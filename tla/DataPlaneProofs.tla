--------------------------- MODULE DataPlaneProofs ---------------------------
(***************************************************************************)
(* Machine-checked facts about DataPlane, for every number of requests,    *)
(* keys and payloads, every bound and every set of faults.                 *)
(***************************************************************************)
EXTENDS DataPlane, TLAPS

(* The inductive invariant, in four parts: what a handler is doing fits     *)
(* its request, what the log is about to be told has happened, a handler in *)
(* the middle of a PUT has the key to itself, and the log is complete.      *)

\* Where a handler can be with a request of this kind.
PhaseFitsKind ==
    \A r \in Reqs :
        /\ pc[r] \in {"body", "head", "put", "make", "again"} => op[r].kind = "put"
        /\ pc[r] = "s3" => op[r].kind \in {"get", "delete", "stat", "list", "bucket"}
        /\ pc[r] = "sql" => op[r].kind \in {"sql", "sql_many"}

\* A request that is served has been sent, and its statement is executed at most once
\* each time.
SentBefore ==
    \A r \in Reqs :
        /\ pc[r] # "new" => tries[r] > 0
        /\ executed[r] <= tries[r]
        /\ pc[r] = "sql" => executed[r] < tries[r]

\* Before the audit row is written, what it will say is true.
Happened(r) ==
    /\ op[r].kind = "put" =>
        \/ store[Key(r)] # NoObject
        \/ \E d \in Reqs : op[d].kind = "delete" /\ tries[d] > 0 /\ Key(d) = Key(r)
    /\ op[r].kind = "sql" /\ status[r] = 200 => executed[r] > 0

RecordIsTrue == \A r \in Reqs : pc[r] = "record" => Happened(r)

\* A row is there before it is published.
PublishedIsLogged == \A r \in Reqs : pc[r] = "publish" => Row(r) \in audit

\* The handler between head_object and put_object has found nothing, and no other
\* handler can put anything there.
AbsentIsUnwritten ==
    /\ \A k \in Keys : store[k] = NoObject => writes[k] = 0
    /\ \A r \in Reqs : pc[r] \in {"put", "make", "again"} => writes[Key(r)] = 0


(* The types, by owner.                                                     *)

Calling == {"put", "make", "again"}

HandlerType ==
    /\ op \in [Reqs -> Ops]
    /\ pc \in [Reqs -> Phases]
    /\ tries \in [Reqs -> 0 .. MaxTries]
    /\ loop \in Reqs \cup {NoReq}
    /\ \A r \in Reqs : pc[r] \in Calling => loop = r

Answers == [code : Codes \cup {-1, 0, 500}, body : Payloads \cup {NoObject}]

AnswerType ==
    /\ status \in [Reqs -> Codes]
    /\ reply \in [Reqs -> Answers]

StoreType ==
    /\ bucket \in BOOLEAN
    /\ store \in [Keys -> Payloads \cup {NoObject}]
    /\ writes \in [Keys -> Nat]
    /\ executed \in [Reqs -> 0 .. MaxTries]
    /\ uploads \in 0 .. MaxUploads /\ crashes \in 0 .. MaxCrashes

LogType == audit \subseteq Rows /\ published \subseteq audit

Shape ==
    /\ HandlerType /\ AnswerType /\ StoreType /\ LogType
    /\ PhaseFitsKind /\ SentBefore /\ PublishedIsLogged

LEMMA ShapeImpliesTypeOK == Shape => TypeOK
  BY DEF Shape, HandlerType, AnswerType, StoreType, LogType, TypeOK, Calling, Answers

LEMMA ShapeInit == Init => Shape
  BY BoundsAssumption
  DEF Init, Shape, HandlerType, AnswerType, StoreType, LogType, PhaseFitsKind, SentBefore,
      PublishedIsLogged, Codes, Answers, Phases, NoReply, Calling
-----------------------------------------------------------------------------
(* The handlers keep the types of their own variables; for another handler  *)
(* in the middle of a PUT nothing changes, for it keeps the loop.           *)
LEMMA HandlerTypeStep ==
  ASSUME Shape, NEW r \in Reqs, Send(r) \/ Handle(r)
  PROVE  HandlerType'
<1> USE DEF Shape, HandlerType, Calling, Runs, Goto, Record, Reply, Fail, reqVars
<1>1. pc' \in [Reqs -> Phases]
  <2>1. CASE ReadBody(r)
    BY <2>1 DEF ReadBody, Phases
  <2>2. CASE Head(r)
    BY <2>2 DEF Head, Phases
  <2>3. CASE PutObject(r)
    BY <2>3 DEF PutObject, Phases
  <2>4. CASE MakeBucket(r)
    BY <2>4 DEF MakeBucket, Phases
  <2>5. CASE StoreCall(r)
    BY <2>5 DEF StoreCall, Look, Delete, List, EnsureBucket, Phases
  <2>6. CASE Execute(r)
    BY <2>6 DEF Execute, Phases
  <2>7. CASE Commit(r)
    BY <2>7 DEF Commit, Phases
  <2>8. CASE Publish(r)
    BY <2>8 DEF Publish, Phases
  <2>9. CASE Send(r)
    BY <2>9 DEF Send, FirstPhase, Phases
  <2> QED
    BY <2>1, <2>2, <2>3, <2>4, <2>5, <2>6, <2>7, <2>8, <2>9 DEF Handle
<1>2. /\ loop' \in Reqs \cup {NoReq}
      /\ \A q \in Reqs : pc'[q] \in Calling => loop' = q
  <2> USE NobodyAssumption
  <2>1. CASE ReadBody(r)
    BY <2>1 DEF ReadBody
  <2>2. CASE Head(r)
    BY <2>2 DEF Head
  <2>3. CASE PutObject(r)
    BY <2>3 DEF PutObject
  <2>4. CASE MakeBucket(r)
    BY <2>4 DEF MakeBucket
  <2>5. CASE StoreCall(r)
    BY <2>5 DEF StoreCall, Look, Delete, List, EnsureBucket
  <2>6. CASE Execute(r)
    BY <2>6 DEF Execute
  <2>7. CASE Commit(r)
    BY <2>7 DEF Commit
  <2>8. CASE Publish(r)
    BY <2>8 DEF Publish
  <2>9. CASE Send(r)
    BY <2>9 DEF Send, FirstPhase
  <2> QED
    BY <2>1, <2>2, <2>3, <2>4, <2>5, <2>6, <2>7, <2>8, <2>9 DEF Handle
<1>3. UNCHANGED op /\ tries' \in [Reqs -> 0 .. MaxTries]
  BY BoundsAssumption DEF Handle, ReadBody, Head, PutObject, MakeBucket, StoreCall,
     Execute, Commit, Publish, Send
<1> QED
  BY <1>1, <1>2, <1>3

LEMMA ReplyType ==
  ASSUME AnswerType, NEW r \in Reqs, NEW code \in Codes \cup {0, 500},
         NEW body \in Payloads \cup {NoObject}, Reply(r, code, body)
  PROVE  reply' \in [Reqs -> Answers]
  BY DEF AnswerType, Answers, Reply

LEMMA FailType ==
  ASSUME AnswerType, NEW r \in Reqs, Fail(r)
  PROVE  reply' \in [Reqs -> Answers]
<1>1. Reply(r, 500, NoObject)
  BY DEF Fail
<1> QED
  BY <1>1, ReplyType

LEMMA AnswerTypeStep ==
  ASSUME Shape, NEW r \in Reqs, Send(r) \/ Handle(r)
  PROVE  AnswerType'
<1>0. AnswerType /\ HandlerType /\ StoreType
  BY DEF Shape
<1>1. status' \in [Reqs -> Codes]
  BY <1>0 DEF AnswerType, Handle, Send, ReadBody, Head, PutObject, MakeBucket, StoreCall,
     Look, Delete, List, EnsureBucket, Execute, Commit, Publish, Record, Fail, Codes
<1>2. reply' \in [Reqs -> Answers]
  <2>1. CASE Send(r)
    BY <1>0, <2>1 DEF Send, AnswerType, Answers, NoReply
  <2>2. CASE UNCHANGED reply
    BY <1>0, <2>2 DEF AnswerType
  <2>3. CASE Fail(r) \/ Reply(r, 500, NoObject) \/ Reply(r, 400, NoObject)
    BY <1>0, <2>3, ReplyType, FailType DEF Codes
  <2>4. CASE StoreCall(r) /\ Look(r)
    BY <1>0, <2>4 DEF Look, AnswerType, Answers, StoreType, HandlerType, Key, Ops
  <2>5. CASE Publish(r)
    <3>1. HttpCode(r) \in Codes /\ Body(r) \in Payloads \cup {NoObject}
      BY <1>0 DEF AnswerType, Answers, HandlerType, HttpCode, Body, Ops, Codes
    <3> QED
      BY <1>0, <2>5, <3>1, ReplyType DEF Publish
  <2> QED
    BY <2>1, <2>2, <2>3, <2>4, <2>5 DEF Handle, ReadBody, Head, PutObject, MakeBucket,
       StoreCall, Delete, List, EnsureBucket, Execute, Commit
<1> QED
  BY <1>1, <1>2 DEF AnswerType

LEMMA StoreTypeStep ==
  ASSUME Shape, NEW r \in Reqs, Send(r) \/ Handle(r)
  PROVE  StoreType'
<1> USE DEF Shape, HandlerType, StoreType, Key, Ops, reqVars, storeVars, worldVars
<1>1. CASE UNCHANGED <<storeVars, executed, worldVars>>
  BY <1>1
<1>2. CASE PutObject(r)
  <2>1. CASE UNCHANGED <<store, writes>>
    BY <1>2, <2>1 DEF PutObject
  <2>2. CASE Written(r)
    BY <1>2, <2>2 DEF PutObject, Written
  <2> QED
    BY <1>2, <2>1, <2>2 DEF PutObject
<1>3. CASE MakeBucket(r)
  BY <1>3 DEF MakeBucket
<1>4. CASE StoreCall(r) /\ Delete(r)
  BY <1>4 DEF StoreCall, Delete
<1>5. CASE StoreCall(r) /\ EnsureBucket(r)
  <2>1. \A o : Effective(o) \in BOOLEAN
    BY DEF Effective
  <2>2. bucket' \in BOOLEAN
    BY <1>5, <2>1 DEF EnsureBucket
  <2> QED
    BY <1>5, <2>2 DEF StoreCall, EnsureBucket
<1>6. CASE Execute(r)
  BY <1>6, BoundsAssumption DEF Execute, SentBefore
<1> QED
  BY <1>1, <1>2, <1>3, <1>4, <1>5, <1>6 DEF Handle, Send, ReadBody, Head, StoreCall, Look,
     List, Commit, Publish

LEMMA LogTypeStep ==
  ASSUME Shape, NEW r \in Reqs, Send(r) \/ Handle(r)
  PROVE  LogType'
<1> USE DEF Shape, LogType
<1>1. CASE Commit(r)
  <2>1. Row(r) \in Rows
    BY <1>1, BoundsAssumption DEF Commit, HandlerType, AnswerType, SentBefore, Row, Rows, Ops
  <2> QED
    BY <1>1, <2>1 DEF Commit
<1>2. CASE Publish(r)
  BY <1>2 DEF Publish, PublishedIsLogged
<1>3. CASE UNCHANGED <<audit, published>>
  BY <1>3
<1> QED
  BY <1>1, <1>2, <1>3 DEF Handle, Send, ReadBody, Head, PutObject, MakeBucket, StoreCall, Execute

LEMMA PhaseStep ==
  ASSUME Shape, NEW r \in Reqs, Send(r) \/ Handle(r)
  PROVE  PhaseFitsKind' /\ SentBefore' /\ PublishedIsLogged'
<1> USE DEF Shape, HandlerType, Goto, Record, Reply, Fail, reqVars
<1>1. PhaseFitsKind'
  <2>1. CASE Send(r)
    BY <2>1, KindsAssumption DEF Send, FirstPhase, PhaseFitsKind, Ops, AllKinds
  <2>2. CASE Handle(r)
    BY <2>2 DEF Handle, ReadBody, Head, PutObject, MakeBucket, StoreCall, Look, Delete, List,
       EnsureBucket, Execute, Commit, Publish, PhaseFitsKind
  <2> QED
    BY <2>1, <2>2
<1>2. SentBefore'
  <2> USE BoundsAssumption DEF SentBefore, StoreType
  <2>1. CASE Send(r)
    BY <2>1 DEF Send, FirstPhase
  <2>2. CASE Execute(r)
    BY <2>2 DEF Execute
  <2>3. CASE UNCHANGED <<tries, executed>> /\ pc[r] # "new" /\ pc'[r] # "sql"
             /\ \A q \in Reqs \ {r} : pc'[q] = pc[q]
    BY <2>3
  <2> QED
    BY <2>1, <2>2, <2>3 DEF Handle, ReadBody, Head, PutObject, MakeBucket, StoreCall, Look,
       Delete, List, EnsureBucket, Commit, Publish
<1>3. PublishedIsLogged'
  <2> USE DEF PublishedIsLogged, AnswerType, Row
  <2>1. CASE Send(r)
    BY <2>1 DEF Send, FirstPhase
  <2>2. CASE Commit(r)
    BY <2>2 DEF Commit, Effective
  <2>3. CASE audit' = audit /\ UNCHANGED <<op, tries>> /\ pc'[r] # "publish"
             /\ \A q \in Reqs \ {r} : pc'[q] = pc[q] /\ status'[q] = status[q]
    BY <2>3
  <2> QED
    BY <2>1, <2>2, <2>3 DEF Handle, ReadBody, Head, PutObject, MakeBucket, StoreCall, Look,
       Delete, List, EnsureBucket, Execute, Publish
<1> QED
  BY <1>1, <1>2, <1>3

LEMMA ShapeWorld ==
  ASSUME Shape, Crash \/ (\E k \in Keys : Upload(k)) \/ UNCHANGED vars
  PROVE  Shape'
<1> USE DEF Shape
<1>1. CASE Crash
  <2>1. HandlerType'
    BY <1>1 DEF Crash, HandlerType, InFlight, Calling, reqVars, Phases
  <2>2. AnswerType'
    BY <1>1 DEF Crash, AnswerType, Answers, reqVars
  <2>3. StoreType' /\ LogType'
    BY <1>1, BoundsAssumption DEF Crash, StoreType, LogType, storeVars
  <2>4. PhaseFitsKind' /\ SentBefore' /\ PublishedIsLogged'
    BY <1>1 DEF Crash, HandlerType, PhaseFitsKind, SentBefore, PublishedIsLogged, InFlight,
       Row, reqVars
  <2> QED
    BY <2>1, <2>2, <2>3, <2>4
<1>2. ASSUME NEW k \in Keys, Upload(k)
      PROVE  Shape'
  <2>1. StoreType'
    BY <1>2, BoundsAssumption DEF Upload, StoreType
  <2> QED
    BY <1>2, <2>1 DEF Upload, HandlerType, AnswerType, LogType, PhaseFitsKind, SentBefore,
       PublishedIsLogged, Row, reqVars
<1>3. CASE UNCHANGED vars
  BY <1>3 DEF vars, reqVars, storeVars, worldVars, HandlerType, AnswerType, StoreType,
     LogType, PhaseFitsKind, SentBefore, PublishedIsLogged, Row
<1> QED
  BY <1>1, <1>2, <1>3

LEMMA ShapeStep == Shape /\ [Next]_vars => Shape'
<1>1. ASSUME Shape, NEW r \in Reqs, Send(r) \/ Handle(r)
      PROVE  Shape'
  BY <1>1, HandlerTypeStep, AnswerTypeStep, StoreTypeStep, LogTypeStep, PhaseStep DEF Shape
<1> QED
  BY <1>1, ShapeWorld DEF Next

LEMMA ShapeInvariant == Spec => []Shape
  BY ShapeInit, ShapeStep, PTL DEF Spec

(* Every variable stays in its range; in particular a handler in the middle *)
(* of its S3 calls is the one that keeps the event loop.                    *)
THEOREM DataPlaneTypes == Spec => []TypeOK
  BY ShapeInvariant, ShapeImpliesTypeOK, PTL
-----------------------------------------------------------------------------
(* One PUT per key, however often it is asked for.                          *)

UploadInv == AbsentIsUnwritten /\ PutIsIdempotent

LEMMA UploadHandlerStep ==
  ASSUME Shape, UploadInv, NEW r \in Reqs, Send(r) \/ Handle(r)
  PROVE  UploadInv'
<1> USE NobodyAssumption DEF Shape, HandlerType, StoreType, UploadInv, AbsentIsUnwritten,
            PutIsIdempotent, Calling, Key, Ops, Runs, reqVars, storeVars
<1>1. CASE PutObject(r)
  <2>1. CASE UNCHANGED <<store, writes>>
    BY <1>1, <2>1 DEF PutObject, Goto, Record, Reply, Fail
  <2>2. CASE Written(r)
    <3>1. writes[Key(r)] = 0 /\ Key(r) \in Keys /\ op[r].payload \in Payloads
      BY <1>1 DEF PutObject
    <3>2. \A q \in Reqs \ {r} : pc'[q] \notin Calling
      BY <1>1 DEF PutObject, Goto, Record, Reply, Fail
    <3>3. pc'[r] \notin Calling
      BY <1>1, <2>2, <3>1 DEF PutObject, Goto, Record, Reply, Fail, Written
    <3> QED
      BY <1>1, <2>2, <3>1, <3>2, <3>3 DEF PutObject, Written
  <2> QED
    BY <1>1, <2>1, <2>2 DEF PutObject
<1>2. CASE StoreCall(r)
  <2>1. \A q \in Reqs : pc'[q] \in Calling => pc[q] \in Calling
    BY <1>2 DEF StoreCall, Look, Delete, List, EnsureBucket, Goto, Record, Reply, Fail
  <2>2. CASE UNCHANGED <<store, writes>>
    BY <1>2, <2>1, <2>2 DEF StoreCall
  <2>3. CASE Delete(r)
    BY <1>2, <2>1, <2>3 DEF StoreCall, Delete
  <2> QED
    BY <1>2, <2>2, <2>3 DEF StoreCall, Look, List, EnsureBucket
<1>3. CASE Head(r)
  BY <1>3 DEF Head, Goto, Record, Reply, Fail
<1>4. CASE MakeBucket(r)
  BY <1>4 DEF MakeBucket, Goto, Reply, Fail
<1>5. CASE Send(r) \/ ReadBody(r) \/ Execute(r) \/ Commit(r) \/ Publish(r)
  <2>1. \A q \in Reqs : pc'[q] \in Calling => pc[q] \in Calling
    BY <1>5 DEF Send, FirstPhase, ReadBody, Execute, Commit, Publish, Goto, Record, Reply
  <2> QED
    BY <1>5, <2>1 DEF Send, ReadBody, Execute, Commit, Publish
<1> QED
  BY <1>1, <1>2, <1>3, <1>4, <1>5 DEF Handle

LEMMA UploadStep == Shape /\ UploadInv /\ [Next]_vars => UploadInv'
<1> SUFFICES ASSUME Shape, UploadInv, [Next]_vars
             PROVE  UploadInv'
  OBVIOUS
<1> USE DEF Shape, HandlerType, StoreType, UploadInv, AbsentIsUnwritten, PutIsIdempotent,
            Calling, Key, Ops
<1>1. CASE Crash
  BY <1>1 DEF Crash, InFlight, reqVars, storeVars
<1>2. ASSUME NEW k \in Keys, Upload(k)
      PROVE  UploadInv'
  BY <1>2, NobodyAssumption DEF Upload, reqVars
<1>3. CASE UNCHANGED vars
  BY <1>3 DEF vars, reqVars, storeVars
<1> QED
  BY <1>1, <1>2, <1>3, UploadHandlerStep DEF Next

(* Between two removals of a key at most one PUT of the service writes it:   *)
(* neither a client that repeats its request, nor two clients at once, nor a *)
(* failure on the way make put_idempotent write an object it has written.    *)
THEOREM PutsAreIdempotent == Spec => []PutIsIdempotent
<1>1. Init => UploadInv
  BY DEF Init, UploadInv, AbsentIsUnwritten, PutIsIdempotent, Ops, Key
<1>2. UploadInv => PutIsIdempotent
  BY DEF UploadInv
<1> QED
  BY <1>1, <1>2, UploadStep, ShapeInvariant, PTL DEF Spec
-----------------------------------------------------------------------------
(* The log.                                                                 *)

LEMMA AnsweredStep == Shape /\ AnsweredIsAudited /\ [Next]_vars => AnsweredIsAudited'
<1> SUFFICES ASSUME Shape, AnsweredIsAudited, [Next]_vars
             PROVE  AnsweredIsAudited'
  OBVIOUS
<1> USE DEF Shape, HandlerType, AnswerType, AnsweredIsAudited, Goto, Reply, reqVars
<1>1. ASSUME NEW r \in Reqs, Publish(r)
      PROVE  AnsweredIsAudited'
  <2>1. Row(r) \in audit /\ audit' = audit
    BY <1>1 DEF Publish, PublishedIsLogged
  <2> QED
    BY <1>1, <2>1 DEF Publish, Row
<1>2. ASSUME NEW r \in Reqs, Execute(r)
      PROVE  AnsweredIsAudited'
  BY <1>2 DEF Execute, Record
<1>3. ASSUME NEW r \in Reqs, Commit(r)
      PROVE  AnsweredIsAudited'
  BY <1>3 DEF Commit, Codes
<1>4. ASSUME NEW r \in Reqs, StoreCall(r)
      PROVE  AnsweredIsAudited'
  BY <1>4 DEF StoreCall, Look, Delete, List, EnsureBucket, Record, Fail, Codes
<1>5. ASSUME NEW r \in Reqs, Send(r) \/ ReadBody(r) \/ Head(r) \/ PutObject(r) \/ MakeBucket(r)
      PROVE  AnsweredIsAudited'
  BY <1>5 DEF Send, FirstPhase, ReadBody, Head, PutObject, MakeBucket, Record, Fail, Codes
<1>6. CASE Crash
  BY <1>6 DEF Crash, InFlight, Codes
<1>7. ASSUME NEW k \in Keys, Upload(k)
      PROVE  AnsweredIsAudited'
  BY <1>7 DEF Upload
<1>8. CASE UNCHANGED vars
  BY <1>8 DEF vars
<1> QED
  BY <1>1, <1>2, <1>3, <1>4, <1>5, <1>6, <1>7, <1>8 DEF Next, Handle

(* An answer about the operation itself, good or bad, is in the log; only    *)
(* answers the handler makes up for its own failure (500) may be missing.    *)
THEOREM AnswersAreAudited == Spec => []AnsweredIsAudited
<1>1. Init => AnsweredIsAudited
  BY DEF Init, AnsweredIsAudited
<1> QED
  BY <1>1, AnsweredStep, ShapeInvariant, PTL DEF Spec

TruthInv == RecordIsTrue /\ LoggedHasHappened

(* What has happened stays so: an object goes only by a DELETE that was sent, *)
(* and the counts of attempts and executions only grow.                      *)
LEMMA HappenedStays ==
  ASSUME Shape, [Next]_vars
  PROVE  /\ op' = op
         /\ \A r \in Reqs : tries[r] > 0 => tries'[r] > 0
         /\ \A r \in Reqs : executed[r] > 0 => executed'[r] > 0
         /\ \A k \in Keys : store[k] # NoObject =>
               \/ store'[k] # NoObject
               \/ \E d \in Reqs : op[d].kind = "delete" /\ tries'[d] > 0 /\ Key(d) = k
<1> USE DEF Shape, HandlerType, StoreType, Ops, reqVars, storeVars
<1>1. op' = op
  BY DEF Next, Handle, Send, ReadBody, Head, PutObject, MakeBucket, StoreCall, Execute,
     Commit, Publish, Upload, Crash, vars
<1>2. \A r \in Reqs : tries[r] > 0 => tries'[r] > 0
  BY DEF Next, Handle, Send, ReadBody, Head, PutObject, MakeBucket, StoreCall, Execute,
     Commit, Publish, Upload, Crash, vars
<1>3. \A r \in Reqs : executed[r] > 0 => executed'[r] > 0
  BY DEF Next, Handle, Send, ReadBody, Head, PutObject, MakeBucket, StoreCall, Execute,
     Commit, Publish, Upload, Crash, vars
<1>4. ASSUME NEW k \in Keys, store[k] # NoObject, store'[k] = NoObject
      PROVE  \E d \in Reqs : op[d].kind = "delete" /\ tries'[d] > 0 /\ Key(d) = k
  <2>1. PICK d \in Reqs : StoreCall(d) /\ Delete(d) /\ Key(d) = k
    BY <1>4, NobodyAssumption DEF Next, Handle, Send, ReadBody, Head, PutObject, Written,
       MakeBucket, StoreCall, Look, Delete, List, EnsureBucket, Execute, Commit, Publish,
       Upload, Crash, vars, Key
  <2> QED
    BY <2>1 DEF StoreCall, Delete, SentBefore
<1> QED
  BY <1>1, <1>2, <1>3, <1>4

LEMMA TruthStep == Shape /\ TruthInv /\ [Next]_vars => TruthInv'
<1> SUFFICES ASSUME Shape, TruthInv, [Next]_vars
             PROVE  TruthInv'
  OBVIOUS
<1>0. published' \subseteq audit'
  <2>1. Shape'
    BY ShapeStep
  <2> QED
    BY <2>1 DEF Shape, LogType
<1> USE DEF Shape, HandlerType, StoreType, TruthInv
<1>1. \A r \in Reqs : Happened(r) /\ status'[r] = status[r] => Happened(r)'
  BY HappenedStays DEF Happened, Key, Ops
<1>2. RecordIsTrue'
  <2>1. SUFFICES ASSUME NEW r \in Reqs, pc'[r] = "record"
                 PROVE  Happened(r)'
    BY DEF RecordIsTrue
  <2>2. CASE pc[r] = "record" /\ status'[r] = status[r]
    BY <1>1, <2>2 DEF RecordIsTrue
  <2>3. CASE Send(r) \/ StoreCall(r)
    <3>1. op[r].kind \notin {"put", "sql"} /\ op' = op
      BY <2>1, <2>3, HappenedStays DEF Send, FirstPhase, Goto, StoreCall, PhaseFitsKind
    <3> QED
      BY <3>1 DEF Happened
  <2>4. CASE Head(r) \/ PutObject(r)
    <3>1. op[r].kind = "put" /\ op' = op /\ store'[Key(r)] # NoObject
      BY <2>1, <2>4, NobodyAssumption DEF Head, PutObject, Written, Goto, Record, Reply,
         Fail, PhaseFitsKind, Key, Ops, Effective, reqVars, storeVars
    <3> QED
      BY <3>1 DEF Happened, Key
  <2>5. CASE Execute(r)
    <3>1. op[r].kind # "put" /\ op' = op
      BY <2>5, HappenedStays DEF Execute, PhaseFitsKind
    <3>2. status'[r] = 200 => executed'[r] > 0
      BY <2>1, <2>5 DEF Execute, Record, Reply, Goto, Effective, AnswerType
    <3> QED
      BY <3>1, <3>2 DEF Happened
  <2> QED
    BY <2>1, <2>2, <2>3, <2>4, <2>5 DEF Next, Handle, Send, ReadBody, Head, PutObject,
       MakeBucket, StoreCall, Look, Delete, List, EnsureBucket, Execute, Commit, Publish,
       Upload, Crash, InFlight, Goto, Record, Reply, Fail, vars, reqVars, AnswerType
<1>3. LoggedHasHappened'
  <2> DEFINE Kept(k) == \/ store'[k] # NoObject
                       \/ \E d \in Reqs : /\ op[d].kind = "delete" /\ tries'[d] > 0
                                           /\ op[d].key = k
             True(a) == /\ a.kind = "put" /\ a.code = 201 => Kept(op[a.req].key)
                        /\ a.kind = "sql" /\ a.code = 200 => executed'[a.req] > 0
  <2>1. \A a \in audit' : a \in audit \/ \E r \in Reqs : pc[r] = "record" /\ a = Row(r)
    BY DEF Next, Handle, Send, ReadBody, Head, PutObject, MakeBucket, StoreCall, Execute,
       Commit, Publish, Upload, Crash, vars
  <2>2. audit \subseteq Rows
    BY DEF LogType
  <2>3. \A a \in audit : True(a)
    BY <2>2, HappenedStays DEF LoggedHasHappened, Key, Rows, Ops
  <2>4. \A r \in Reqs : pc[r] = "record" => True(Row(r))
    BY HappenedStays DEF RecordIsTrue, Happened, Row, Key, Ops
  <2>5. \A a \in audit' : True(a)
    BY <2>1, <2>3, <2>4
  <2>6. op' = op
    BY HappenedStays
  <2> QED
    BY <1>0, <2>5, <2>6 DEF LoggedHasHappened, Key
<1> QED
  BY <1>2, <1>3

(* The log never claims what did not happen, whatever failed or died between *)
(* an effect and its record.                                                 *)
THEOREM LogIsTrue == Spec => []LoggedHasHappened
<1>1. Init => TruthInv
  BY DEF Init, TruthInv, RecordIsTrue, LoggedHasHappened
<1>2. TruthInv => LoggedHasHappened
  BY DEF TruthInv
<1> QED
  BY <1>1, <1>2, TruthStep, ShapeInvariant, PTL DEF Spec
=============================================================================
