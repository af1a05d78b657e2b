----------------------------- MODULE DataPlane -----------------------------
(***************************************************************************)
(* The CRUD surfaces and their audit log: server/routers/storage.py over   *)
(* server/services/s3.py, server/routers/sql.py, and AuditWriter.record    *)
(* (server/services/audit.py), with clients that may repeat a request they *)
(* got no good answer to, uploads that bypass the service with a presigned *)
(* URL, and the death of the process.                                      *)
(*                                                                         *)
(* The S3 client is synchronous: a handler that calls it keeps the event   *)
(* loop, so no other handler runs between its S3 calls (`loop'), while the *)
(* object store itself goes on serving uploads.  One bucket.               *)
(***************************************************************************)
EXTENDS Integers, FiniteSets

CONSTANTS
    Reqs,        \* requests of the clients
    Kinds,       \* operations the requests are made of, out of AllKinds
    Keys,        \* object keys
    Payloads,    \* bodies of PUT requests and of uploads
    NoReq, NoObject,
    MaxTries,    \* bound: times a client sends one request
    MaxUploads,  \* bound: uploads with presigned URLs
    MaxCrashes,  \* bound: process deaths
    Faults       \* what may fail, out of {"s3", "sql", "commit", "nats"}

AllKinds == {"get", "put", "delete", "stat", "list", "sign", "bucket", "sql", "sql_many"}

ASSUME KindsAssumption == Kinds \subseteq AllKinds
ASSUME BoundsAssumption ==
    MaxTries \in Nat \ {0} /\ MaxUploads \in Nat /\ MaxCrashes \in Nat
ASSUME FaultsAssumption == Faults \subseteq {"s3", "sql", "commit", "nats"}
ASSUME NobodyAssumption == NoReq \notin Reqs /\ NoObject \notin Payloads

VARIABLES
    op,         \* op[r]: what r asks for
    pc,         \* pc[r]: where its handler is
    tries,      \* tries[r]: times r was sent
    status,     \* status[r]: status_code its handler will record
    reply,      \* reply[r]: [code, body] of the last answer; 0 is a broken connection
    loop,       \* the request whose handler is in an S3 call, or NoReq
    bucket,     \* the bucket exists
    store,      \* store[k]: content of object k, or NoObject
    executed,   \* executed[r]: times the statement of r was executed
    audit,      \* audit_log: [req, try, kind, code]
    published,  \* rows sent to NATS
    uploads, crashes,
    writes      \* writes[k]: PUTs by the service since k was last absent (history)

reqVars == <<op, tries>>
storeVars == <<bucket, store, writes>>
worldVars == <<uploads, crashes>>
vars == <<reqVars, pc, status, reply, loop, storeVars, executed, audit, published, worldVars>>

Ops == [kind : Kinds, key : Keys, payload : Payloads]
Codes == {200, 201, 204, 400, 404}
Rows == [req : Reqs, try : 1 .. MaxTries, kind : Kinds, code : Codes]
Phases == {"new", "body", "head", "put", "make", "again", "s3", "sql", "record",
           "publish", "answered"}
NoReply == [code |-> -1, body |-> NoObject]

TypeOK ==
    /\ op \in [Reqs -> Ops]
    /\ pc \in [Reqs -> Phases]
    /\ tries \in [Reqs -> 0 .. MaxTries]
    /\ status \in [Reqs -> Codes]
    /\ reply \in [Reqs -> [code : Codes \cup {-1, 0, 500}, body : Payloads \cup {NoObject}]]
    /\ loop \in Reqs \cup {NoReq}
    /\ bucket \in BOOLEAN
    /\ store \in [Keys -> Payloads \cup {NoObject}]
    /\ executed \in [Reqs -> 0 .. MaxTries]
    /\ audit \subseteq Rows /\ published \subseteq Rows
    /\ uploads \in 0 .. MaxUploads /\ crashes \in 0 .. MaxCrashes
    /\ writes \in [Keys -> Nat]
    /\ \A r \in Reqs : pc[r] \in {"put", "make", "again"} => loop = r

Init ==
    /\ op \in [Reqs -> Ops]
    /\ pc = [r \in Reqs |-> "new"]
    /\ tries = [r \in Reqs |-> 0]
    /\ status = [r \in Reqs |-> 200]
    /\ reply = [r \in Reqs |-> NoReply]
    /\ loop = NoReq
    /\ bucket \in BOOLEAN
    /\ store = [k \in Keys |-> NoObject]
    /\ executed = [r \in Reqs |-> 0]
    /\ audit = {} /\ published = {}
    /\ uploads = 0 /\ crashes = 0
    /\ writes = [k \in Keys |-> 0]

Outcomes(f) == IF f \in Faults THEN {"ok", "lost", "applied"} ELSE {"ok"}
Effective(o) == o \in {"ok", "applied"}

\* Seeded fault: the S3 calls of two handlers may alternate.
Interleaved(r) == TRUE

\* The handler of r may go on: no other one is in an S3 call.
Runs(r) == loop \in {NoReq, r}

Goto(r, p) == pc' = [pc EXCEPT ![r] = p]
Record(r, code) == Goto(r, "record") /\ status' = [status EXCEPT ![r] = code]
Key(r) == op[r].key
-----------------------------------------------------------------------------
(* Requests and answers.                                                   *)

\* A request whose body is read reaches its first step: S3 operations, the
\* statement, or for a presigned URL the audit record.
FirstPhase(r) ==
    CASE op[r].kind = "put" -> "body"
      [] op[r].kind \in {"sql", "sql_many"} -> "sql"
      [] op[r].kind = "sign" -> "record"
      [] OTHER -> "s3"

Send(r) ==
    /\ loop = NoReq
    /\ pc[r] = "new" \/ (pc[r] = "answered" /\ reply[r].code \in {0, 500})
    /\ tries[r] < MaxTries
    /\ tries' = [tries EXCEPT ![r] = @ + 1]
    /\ reply' = [reply EXCEPT ![r] = NoReply]
    /\ status' = [status EXCEPT ![r] = 200]
    /\ Goto(r, FirstPhase(r))
    /\ UNCHANGED <<op, loop, storeVars, executed, audit, published, worldVars>>

Reply(r, code, body) ==
    /\ reply' = [reply EXCEPT ![r] = [code |-> code, body |-> body]]
    /\ Goto(r, "answered")

\* An exception nothing catches.
Fail(r) == Reply(r, 500, NoObject) /\ UNCHANGED status
-----------------------------------------------------------------------------
(* put_idempotent and ensure_bucket (server/services/s3.py).               *)

ReadBody(r) ==
    /\ pc[r] = "body" /\ Runs(r)
    /\ Goto(r, "head")
    /\ UNCHANGED <<reqVars, status, reply, loop, storeVars, executed, audit, published, worldVars>>

\* head_object: an object that exists is left alone.
Head(r) ==
    /\ pc[r] = "head" /\ Runs(r)
    /\ \/ /\ store[Key(r)] # NoObject
          /\ Record(r, 201) /\ UNCHANGED <<reply, loop>>
       \/ /\ store[Key(r)] = NoObject
          /\ Goto(r, "put") /\ loop' = r /\ UNCHANGED <<status, reply>>
       \/ /\ "s3" \in Faults
          /\ Fail(r) /\ UNCHANGED loop
    /\ UNCHANGED <<reqVars, storeVars, executed, audit, published, worldVars>>

Written(r) ==
    /\ store' = [store EXCEPT ![Key(r)] = op[r].payload]
    /\ writes' = [writes EXCEPT ![Key(r)] = @ + 1]

\* Seeded fault: an error of put_object is logged and forgotten.
PutObjectQuietly(r) ==
    /\ pc[r] \in {"put", "again"} /\ Runs(r)
    /\ \E o \in Outcomes("s3") :
        IF bucket /\ Effective(o) THEN Written(r) ELSE UNCHANGED <<store, writes>>
    /\ loop' = NoReq
    /\ Record(r, 201)
    /\ UNCHANGED <<reply, reqVars, bucket, executed, audit, published, worldVars>>

\* put_object; without a bucket the first attempt goes on to create it.
PutObject(r) ==
    /\ pc[r] \in {"put", "again"} /\ Runs(r)
    /\ IF ~bucket
       THEN /\ IF pc[r] = "put" THEN Goto(r, "make") /\ UNCHANGED <<loop, status, reply>>
               ELSE Fail(r) /\ loop' = NoReq
            /\ UNCHANGED <<store, writes>>
       ELSE \E o \in Outcomes("s3") :
            /\ IF Effective(o) THEN Written(r) ELSE UNCHANGED <<store, writes>>
            /\ loop' = NoReq
            /\ IF o = "ok" THEN Record(r, 201) /\ UNCHANGED reply ELSE Fail(r)
    /\ UNCHANGED <<reqVars, bucket, executed, audit, published, worldVars>>

\* Seeded fault: the bucket is created without holding the event loop.
MakeBucketYielding(r) ==
    /\ pc[r] = "make" /\ Runs(r)
    /\ bucket' = TRUE
    /\ Goto(r, "again") /\ loop' = NoReq
    /\ UNCHANGED <<status, reply, reqVars, store, writes, executed, audit, published, worldVars>>

\* ensure_bucket inside put_idempotent.
MakeBucket(r) ==
    /\ pc[r] = "make" /\ Runs(r)
    /\ \E o \in Outcomes("s3") :
        /\ bucket' = (bucket \/ Effective(o))
        /\ IF o = "ok" THEN Goto(r, "again") /\ UNCHANGED <<loop, status, reply>>
           ELSE Fail(r) /\ loop' = NoReq
    /\ UNCHANGED <<reqVars, store, writes, executed, audit, published, worldVars>>
-----------------------------------------------------------------------------
(* The other routes of server/routers/storage.py: one S3 call each.        *)

Found(r) == bucket /\ store[Key(r)] # NoObject

\* get_object and stat_object: 404 is recorded, other errors are not.
Look(r) ==
    /\ op[r].kind \in {"get", "stat"}
    /\ Record(r, IF Found(r) THEN 200 ELSE 404)
    /\ reply' = [reply EXCEPT ![r].body = store[Key(r)]]
    /\ UNCHANGED storeVars

\* delete_object: removing what is not there succeeds, in a bucket that is.
Delete(r) ==
    /\ op[r].kind = "delete"
    /\ IF bucket
       THEN \E o \in Outcomes("s3") :
            /\ IF Effective(o)
               THEN /\ store' = [store EXCEPT ![Key(r)] = NoObject]
                    /\ writes' = [writes EXCEPT ![Key(r)] = 0]
               ELSE UNCHANGED <<store, writes>>
            /\ IF o = "ok" THEN Record(r, 204) /\ UNCHANGED reply ELSE Fail(r)
       ELSE Fail(r) /\ UNCHANGED <<store, writes>>
    /\ UNCHANGED bucket

List(r) ==
    /\ op[r].kind = "list"
    /\ IF bucket THEN Record(r, 200) /\ UNCHANGED reply ELSE Fail(r)
    /\ UNCHANGED storeVars

\* ensure_bucket as a route: recorded as 201 if it was just created.
EnsureBucket(r) ==
    /\ op[r].kind = "bucket"
    /\ IF bucket THEN Record(r, 200) /\ UNCHANGED <<reply, bucket>>
       ELSE \E o \in Outcomes("s3") :
            /\ bucket' = Effective(o)
            /\ IF o = "ok" THEN Record(r, 201) /\ UNCHANGED reply ELSE Fail(r)
    /\ UNCHANGED <<store, writes>>

StoreCall(r) ==
    /\ pc[r] = "s3" /\ Runs(r)
    /\ \/ Look(r) \/ Delete(r) \/ List(r) \/ EnsureBucket(r)
       \/ "s3" \in Faults /\ Fail(r) /\ UNCHANGED storeVars
    /\ UNCHANGED <<reqVars, loop, executed, audit, published, worldVars>>
-----------------------------------------------------------------------------
(* server/routers/sql.py: several statements are refused at once; every    *)
(* exception of the connection, the statement included, becomes a 400 that *)
(* is recorded.  The connection commits by itself.                         *)

Execute(r) ==
    /\ pc[r] = "sql" /\ Runs(r)
    /\ IF op[r].kind = "sql_many"
       THEN Reply(r, 400, NoObject) /\ UNCHANGED <<status, executed>>
       ELSE \E o \in Outcomes("sql") :
            /\ executed' = IF Effective(o) THEN [executed EXCEPT ![r] = @ + 1] ELSE executed
            /\ Record(r, IF o = "ok" THEN 200 ELSE 400)
            /\ UNCHANGED reply
    /\ UNCHANGED <<reqVars, loop, storeVars, audit, published, worldVars>>
-----------------------------------------------------------------------------
(* AuditWriter.record and the answer that follows it.                      *)

Row(r) == [req |-> r, try |-> tries[r], kind |-> op[r].kind, code |-> status[r]]

\* HTTP status of the answer: the routes declare 201 for PUT and 204 for
\* DELETE, a refused or missing operation raises its own, the rest is 200.
HttpCode(r) == IF op[r].kind = "bucket" THEN 200 ELSE status[r]

\* The body a client can see: the object of a GET, and for a PUT the payload
\* it is told the checksum of.
Body(r) ==
    IF op[r].kind = "put" THEN op[r].payload
    ELSE IF op[r].kind = "get" /\ status[r] = 200 THEN reply[r].body
    ELSE NoObject

\* Seeded fault: a failed insert is logged and forgotten.
CommitQuietly(r) ==
    /\ pc[r] = "record" /\ Runs(r)
    /\ \E o \in Outcomes("commit") :
        /\ audit' = IF Effective(o) THEN audit \cup {Row(r)} ELSE audit
        /\ Goto(r, "publish")
    /\ UNCHANGED <<reply, reqVars, status, loop, storeVars, executed, published, worldVars>>

\* Seeded fault: the row is announced before it is committed.
CommitAnnounced(r) ==
    /\ pc[r] = "record" /\ Runs(r)
    /\ \E o \in Outcomes("commit") :
        /\ audit' = IF Effective(o) THEN audit \cup {Row(r)} ELSE audit
        /\ published' = published \cup {Row(r)}
        /\ IF o = "ok" THEN Goto(r, "publish") /\ UNCHANGED reply
           ELSE Reply(r, 500, NoObject)
    /\ UNCHANGED <<reqVars, status, loop, storeVars, executed, worldVars>>

\* Insert and commit; a failure reaches the client as 500.
Commit(r) ==
    /\ pc[r] = "record" /\ Runs(r)
    /\ \E o \in Outcomes("commit") :
        /\ audit' = IF Effective(o) THEN audit \cup {Row(r)} ELSE audit
        /\ IF o = "ok" THEN Goto(r, "publish") /\ UNCHANGED reply
           ELSE Reply(r, 500, NoObject)
    /\ UNCHANGED <<reqVars, status, loop, storeVars, executed, published, worldVars>>

\* The fan-out to NATS, whose failure is logged, and the answer.
Publish(r) ==
    /\ pc[r] = "publish" /\ Runs(r)
    /\ \E o \in Outcomes("nats") :
        published' = IF Effective(o) THEN published \cup {Row(r)} ELSE published
    /\ Reply(r, HttpCode(r), Body(r))
    /\ UNCHANGED <<reqVars, status, loop, storeVars, executed, audit, worldVars>>
-----------------------------------------------------------------------------
(* The world.                                                              *)

\* A holder of a URL from sign_upload puts an object, past the service.
Upload(k) ==
    /\ uploads < MaxUploads /\ bucket
    /\ \E r \in Reqs : op[r].kind = "sign" /\ Key(r) = k /\ reply[r].code = 200
    /\ \E p \in Payloads : store' = [store EXCEPT ![k] = p]
    /\ uploads' = uploads + 1
    /\ UNCHANGED <<reqVars, pc, status, reply, loop, bucket, writes, executed, audit, published, crashes>>

InFlight(r) == pc[r] \notin {"new", "answered"}

Crash ==
    /\ crashes < MaxCrashes
    /\ \E r \in Reqs : InFlight(r)
    /\ crashes' = crashes + 1
    /\ loop' = NoReq
    /\ pc' = [r \in Reqs |-> IF InFlight(r) THEN "answered" ELSE pc[r]]
    /\ reply' = [r \in Reqs |-> IF InFlight(r) THEN [code |-> 0, body |-> NoObject] ELSE reply[r]]
    /\ UNCHANGED <<reqVars, status, storeVars, executed, audit, published, uploads>>

Handle(r) ==
    ReadBody(r) \/ Head(r) \/ PutObject(r) \/ MakeBucket(r) \/ StoreCall(r)
        \/ Execute(r) \/ Commit(r) \/ Publish(r)

Next ==
    \/ \E r \in Reqs : Send(r) \/ Handle(r)
    \/ \E k \in Keys : Upload(k)
    \/ Crash

Spec == Init /\ [][Next]_vars
-----------------------------------------------------------------------------
(* Properties.                                                             *)

\* A client that got an answer of its operation, good or bad, finds that
\* attempt in the audit log; only a refused batch of statements is missing.
AnsweredIsAudited ==
    \A r \in Reqs :
        reply[r].code \in Codes /\ op[r].kind # "sql_many" /\ pc[r] = "answered" =>
            \E a \in audit : a.req = r /\ a.try = tries[r] /\ a.kind = op[r].kind

\* A key that is written through the service is written once, however often
\* the request is repeated and whatever failed on the way, until the object
\* is deleted.
PutIsIdempotent == \A k \in Keys : writes[k] <= 1

\* The log does not claim more than happened: a PUT it has at 201 has left an
\* object behind unless some DELETE was run, and a statement it has at 200
\* was executed.  And the fan-out announces nothing that is not in the log, whether
\* the commit of the row fails or the fan-out does.
LoggedHasHappened ==
    /\ published \subseteq audit
    /\ \A a \in audit :
        /\ a.kind = "put" /\ a.code = 201 =>
            \/ store[Key(a.req)] # NoObject
            \/ \E d \in Reqs : op[d].kind = "delete" /\ tries[d] > 0 /\ Key(d) = Key(a.req)
        /\ a.kind = "sql" /\ a.code = 200 => executed[a.req] > 0

(* Claims of the repository that the code does not keep.                   *)

\* "Write-ahead audit log" (server/services/audit.py): once its handler is
\* gone, a statement that was executed has its row.
RowBeforeEffect ==
    \A r \in Reqs :
        ~InFlight(r) => executed[r] <= Cardinality({a \in audit : a.req = r})

\* "One row per CRUD call" (db/models.py, AuditLog).
OneRowPerCall ==
    \A r \in Reqs :
        pc[r] = "answered" /\ reply[r].code # 0 =>
            \E a \in audit : a.req = r /\ a.try = tries[r]

\* "Source of truth for who did what when" (db/models.py, AuditLog): the
\* status in the log is the status of the answer.
LogAgreesWithAnswer ==
    \A r \in Reqs : \A a \in audit :
        pc[r] = "answered" /\ reply[r].code \in Codes /\ a.req = r /\ a.try = tries[r] =>
            a.code = reply[r].code

\* "S3-compatible object storage" (README.md): when a PUT is granted its 201,
\* with the checksum of its payload, the object holds that payload.
AcknowledgedIsStored ==
    [][\A r \in Reqs :
        op[r].kind = "put" /\ pc[r] # "record" /\ pc'[r] = "record" =>
            store'[Key(r)] = op[r].payload]_vars
=============================================================================
