---------------------------- MODULE PlanReplay -----------------------------
(***************************************************************************)
(* PlanReplayer (retrieve/replay.py) inside the replay_retrieval_plan tool *)
(* (server/services/retrieval_tools.py): the operations of a plan run in   *)
(* order over one autocommit connection and the S3 client, their output is *)
(* collected in one file, the file is stored under a fresh key.  When a    *)
(* replay fails the agent tries again, and other clients change the        *)
(* database and the buckets meanwhile.                                     *)
(*                                                                         *)
(* An operation is a query, a statement that returns no rows (both of one  *)
(* table) or a storage_get.  A record of the file is known by the position *)
(* of its operation and by the columns that were left out of it.           *)
(***************************************************************************)
EXTENDS Integers, Sequences, FiniteSets, SequencesExt

CONSTANTS
    Tables,
    ColumnsOf,    \* the columns of a table
    BlobColumns,  \* those of the record that describes an object
    Keys,         \* objects
    Plans,        \* plans the agent composes
    Formats,      \* output formats it asks for
    NoHeader, NoResult, NoAnswer,
    MaxRows,      \* bound: rows of a table
    MaxSize,      \* bytes of every object
    MaxChanges,   \* bound: changes of other clients
    Attempts,     \* bound: 1 .. how often the tool is called
    Faults        \* what may fail, out of {"sql", "storage", "put", "audit"}

Select(t) == [kind |-> "select", table |-> t]
Write(t) == [kind |-> "write", table |-> t]
Get(k) == [kind |-> "get", key |-> k]
Ops == {Select(t) : t \in Tables} \cup {Write(t) : t \in Tables} \cup {Get(k) : k \in Keys}

ASSUME PlansAssumption == Plans \subseteq Seq(Ops) /\ Formats \subseteq {"csv", "jsonl", "raw"}
ASSUME BoundsAssumption ==
    MaxRows \in Nat \ {0} /\ MaxSize \in Nat /\ MaxChanges \in Nat /\ Attempts \in Nat
ASSUME FaultsAssumption == Faults \subseteq {"sql", "storage", "put", "audit"}

VARIABLES
    rows,      \* rows[t]: rows of a table
    objects,   \* objects[k]: size of an object, -1 when there is none
    changes,   \* changes of other clients so far
    attempt,   \* number of the tool call
    pc,        \* where it is
    plan, format, pos,
    header,    \* columns of the csv writer
    file,      \* records written so far; for raw, one per byte
    access,    \* the access chain: rows_or_bytes per step
    rowcount,
    applied,   \* positions of the statements that took effect (history)
    stored,    \* stored[a]: what attempt a left in the bucket
    answer     \* what the tool call returned

dbVars == <<rows, objects, changes>>
requestVars == <<attempt, plan, format>>
outVars == <<header, file, access, rowcount>>
vars == <<dbVars, requestVars, pc, pos, outVars, applied, stored, answer>>

Columns == BlobColumns \cup UNION {ColumnsOf[t] : t \in Tables}
Record == [op : Nat, lacks : SUBSET Columns]
Result == [file : Seq(Record), plan : Plans, format : Formats, applied : Seq(Nat), at : Nat]

TypeOK ==
    /\ rows \in [Tables -> 0 .. MaxRows] /\ objects \in [Keys -> {-1, MaxSize}]
    /\ changes \in 0 .. MaxChanges /\ attempt \in 0 .. Attempts
    /\ pc \in {"idle", "ops", "store", "audit", "answered", "failed"}
    /\ plan \in Plans \cup {<<>>} /\ format \in Formats
    /\ header \in (SUBSET Columns) \cup {NoHeader} /\ file \in Seq(Record)
    /\ Len(access) = pos - 1 /\ pos \in 1 .. Len(plan) + 1
    /\ rowcount \in Nat /\ applied \in Seq(1 .. Len(plan))
    /\ stored \in [1 .. Attempts -> Result \cup {NoResult}]

Init ==
    /\ rows \in [Tables -> 0 .. 1] /\ objects \in [Keys -> {-1, MaxSize}]
    /\ changes = 0 /\ attempt = 0 /\ pc = "idle"
    /\ plan = <<>> /\ format \in Formats /\ pos = 1
    /\ header = NoHeader /\ file = <<>> /\ access = <<>> /\ rowcount = 0
    /\ applied = <<>>
    /\ stored = [a \in 1 .. Attempts |-> NoResult]
    /\ answer = NoAnswer

Op == plan[pos]
Fail == pc' = "failed" /\ UNCHANGED <<dbVars, requestVars, pos, outVars, applied, stored, answer>>
Outcomes(f) == IF f \in Faults THEN {"ok", "lost", "applied"} ELSE {"ok"}
Effective(o) == o \in {"ok", "applied"}
-----------------------------------------------------------------------------
(* The writers.                                                            *)

\* _CsvLazyWriter takes its columns from the first record; what a later
\* record has besides is dropped.  _JsonlWriter keeps everything.
Lacks(h, columns) == IF format = "csv" /\ h # NoHeader THEN columns \ h ELSE {}

\* n records of one operation; without any, the csv writer has no header yet.
WriteRows(n, columns) ==
    /\ file' = file \o [i \in 1 .. n |-> [op |-> pos, lacks |-> Lacks(header, columns)]]
    /\ header' = IF n > 0 /\ header = NoHeader /\ format = "csv" THEN columns ELSE header

\* The step is entered in the access chain after its operation.
Step(n, counted) ==
    /\ access' = Append(access, n)
    /\ rowcount' = rowcount + counted
    /\ pos' = pos + 1
-----------------------------------------------------------------------------
(* replay, _replay_text and _replay_raw.                                   *)

Refused(p, f) == p = <<>> \/ (f = "raw" /\ ~(Len(p) = 1 /\ p[1].kind = "get"))

Call(p, f) ==
    /\ pc \in {"idle", "answered", "failed"} /\ attempt < Attempts
    /\ attempt' = attempt + 1 /\ plan' = p /\ format' = f
    /\ pc' = IF Refused(p, f) THEN "failed" ELSE "ops"
    /\ pos' = 1 /\ header' = NoHeader /\ file' = <<>> /\ access' = <<>> /\ rowcount' = 0
    /\ applied' = <<>> /\ answer' = NoAnswer
    /\ UNCHANGED <<dbVars, stored>>

Running(kind) == pc = "ops" /\ pos <= Len(plan) /\ Op.kind = kind

\* _run_sql_op of a query: execute fetches the rows there are at that moment.
RunSelect ==
    /\ Running("select")
    /\ \/ /\ WriteRows(rows[Op.table], ColumnsOf[Op.table])
          /\ Step(rows[Op.table], rows[Op.table])
          /\ UNCHANGED <<dbVars, requestVars, pc, applied, stored, answer>>
       \/ "sql" \in Faults /\ Fail

\* Seeded fault: a statement that fails is logged and the plan goes on.
RunWriteQuietly ==
    /\ Running("write") /\ rows[Op.table] < MaxRows
    /\ \E o \in Outcomes("sql") :
        /\ rows' = IF Effective(o) THEN [rows EXCEPT ![Op.table] = @ + 1] ELSE rows
        /\ applied' = IF Effective(o) THEN Append(applied, pos) ELSE applied
    /\ Step(0, 0)
    /\ UNCHANGED <<objects, changes, requestVars, pc, header, file, stored, answer>>

\* Seeded fault: a statement whose answer is lost is sent again.
RunWriteRetrying ==
    /\ Running("write") /\ rows[Op.table] < MaxRows
    /\ \E o \in Outcomes("sql") :
        /\ rows' = IF Effective(o) THEN [rows EXCEPT ![Op.table] = @ + 1] ELSE rows
        /\ applied' = IF Effective(o) THEN Append(applied, pos) ELSE applied
        /\ IF o = "ok" THEN Step(0, 0) ELSE UNCHANGED <<pos, access, rowcount>>
    /\ UNCHANGED <<objects, changes, requestVars, pc, header, file, stored, answer>>

\* _run_sql_op of a statement without a description: committed when executed,
\* in the access chain with no rows, and kept when a later operation fails.
RunWrite ==
    /\ Running("write") /\ rows[Op.table] < MaxRows
    /\ \E o \in Outcomes("sql") :
        /\ rows' = IF Effective(o) THEN [rows EXCEPT ![Op.table] = @ + 1] ELSE rows
        /\ applied' = IF Effective(o) THEN Append(applied, pos) ELSE applied
        /\ IF o = "ok" THEN Step(0, 0) /\ UNCHANGED pc
           ELSE pc' = "failed" /\ UNCHANGED <<pos, access, rowcount>>
    /\ UNCHANGED <<objects, changes, requestVars, header, file, stored, answer>>

\* Seeded fault: the bytes of an object are counted as rows.
RunGetCountingBytes ==
    /\ Running("get") /\ format # "raw" /\ objects[Op.key] >= 0
    /\ WriteRows(1, BlobColumns) /\ Step(objects[Op.key], objects[Op.key])
    /\ UNCHANGED <<dbVars, requestVars, pc, applied, stored, answer>>

\* Seeded fault: the access chain is only kept for what returned something.
RunGetUnlisted ==
    /\ Running("get") /\ format # "raw" /\ objects[Op.key] >= 0
    /\ WriteRows(1, BlobColumns)
    /\ pos' = pos + 1 /\ rowcount' = rowcount + 1
    /\ UNCHANGED <<dbVars, requestVars, pc, access, applied, stored, answer>>

\* _run_storage_op_into_jsonl: one record that describes the object, in csv
\* as well.
RunGet ==
    /\ Running("get") /\ format # "raw"
    /\ \/ /\ objects[Op.key] >= 0
          /\ WriteRows(1, BlobColumns) /\ Step(objects[Op.key], 1)
          /\ UNCHANGED <<dbVars, requestVars, pc, applied, stored, answer>>
       \/ (objects[Op.key] < 0 \/ "storage" \in Faults) /\ Fail

\* Seeded fault: an object that breaks off ends like one that has ended.
RunRawSwallowing ==
    /\ Running("get") /\ format = "raw" /\ objects[Op.key] >= 0
    /\ \E n \in 0 .. objects[Op.key] :
        /\ n = objects[Op.key] \/ "storage" \in Faults
        /\ file' = [i \in 1 .. n |-> [op |-> pos, lacks |-> {}]]
        /\ Step(n, 1)
    /\ UNCHANGED <<dbVars, requestVars, pc, header, applied, stored, answer>>

\* _replay_raw: the object verbatim, in chunks; a stream that breaks off raises, and
\* leaves part of the object in a file that is thrown away.
RunRaw ==
    /\ Running("get") /\ format = "raw"
    /\ \/ /\ objects[Op.key] >= 0
          /\ file' = [i \in 1 .. objects[Op.key] |-> [op |-> pos, lacks |-> {}]]
          /\ Step(objects[Op.key], 1)
          /\ UNCHANGED <<dbVars, requestVars, pc, header, applied, stored, answer>>
       \/ /\ objects[Op.key] < 0 \/ "storage" \in Faults
          /\ pc' = "failed"
          /\ \E n \in {0} \cup 1 .. objects[Op.key] : file' = [i \in 1 .. n |-> [op |-> pos, lacks |-> {}]]
          /\ UNCHANGED <<dbVars, requestVars, pos, header, access, rowcount, applied, stored, answer>>

Replayed ==
    /\ pc = "ops" /\ pos > Len(plan)
    /\ pc' = "store"
    /\ UNCHANGED <<dbVars, requestVars, pos, outVars, applied, stored, answer>>
-----------------------------------------------------------------------------
(* The tool around it.                                                     *)

\* put_idempotent under the key of a new run, so nothing is there yet.
Store ==
    /\ pc = "store"
    /\ \E o \in Outcomes("put") :
        /\ stored' = IF Effective(o)
                     THEN [stored EXCEPT ![attempt] =
                            [file |-> file, plan |-> plan, format |-> format,
                             applied |-> applied, at |-> pos]]
                     ELSE stored
        /\ pc' = IF o = "ok" THEN "audit" ELSE "failed"
    /\ UNCHANGED <<dbVars, requestVars, pos, outVars, applied, answer>>

\* Seeded fault: the rows of a query are counted again for the answer.
AnswerRecounting ==
    /\ pc = "audit" /\ pc' = "answered"
    /\ answer' = [access |-> [i \in DOMAIN access |->
                                IF plan[i].kind = "select" THEN rows[plan[i].table] ELSE access[i]],
                  rowcount |-> rowcount]
    /\ UNCHANGED <<dbVars, requestVars, pos, outVars, applied, stored>>

Answer ==
    /\ pc = "audit"
    /\ \/ /\ pc' = "answered"
          /\ answer' = [access |-> access, rowcount |-> rowcount]
       \/ "audit" \in Faults /\ pc' = "failed" /\ UNCHANGED answer
    /\ UNCHANGED <<dbVars, requestVars, pos, outVars, applied, stored>>

\* Other clients insert and delete rows, upload and delete objects.
Change ==
    /\ changes < MaxChanges /\ changes' = changes + 1
    /\ \/ \E t \in Tables, n \in 0 .. MaxRows :
            /\ n \in {rows[t] - 1, rows[t] + 1}
            /\ rows' = [rows EXCEPT ![t] = n]
          /\ UNCHANGED objects
       \/ \E k \in Keys, n \in {-1, MaxSize} :
            objects[k] # n /\ objects' = [objects EXCEPT ![k] = n]
          /\ UNCHANGED rows
    /\ UNCHANGED <<requestVars, pc, pos, outVars, applied, stored, answer>>

Next ==
    \/ \E p \in Plans, f \in Formats : Call(p, f)
    \/ RunSelect \/ RunWrite \/ RunGet \/ RunRaw \/ Replayed \/ Store \/ Answer
    \/ Change

Spec == Init /\ [][Next]_vars
-----------------------------------------------------------------------------
(* Properties.                                                             *)

RecordsOf(f, i) == Cardinality({k \in DOMAIN f : f[k].op = i})

\* The answer and the stored file say the same: one access step per operation,
\* the records of the file in the order of the operations and as many of each
\* as its step says, and as many in all as rowcount says.
AnswerFitsResult ==
    pc = "answered" =>
        LET result == stored[attempt].file IN
        /\ Len(answer.access) = Len(plan)
        /\ \A i, j \in DOMAIN result : i < j => result[i].op <= result[j].op
        /\ format = "raw" => Len(result) = answer.access[1] /\ answer.rowcount = 1
        /\ format # "raw" =>
            /\ answer.rowcount = Len(result)
            /\ \A i \in DOMAIN plan :
                RecordsOf(result, i) = IF plan[i].kind = "get" THEN 1 ELSE answer.access[i]

\* Only a plan that was run to its end leaves a file in the bucket: every statement of the
\* plan had taken effect by then, and an object that was copied was copied to its end.
StoredIsWhole ==
    \A a \in 1 .. Attempts :
        stored[a] # NoResult =>
            /\ stored[a].at = Len(stored[a].plan) + 1
            /\ \A i \in DOMAIN stored[a].plan :
                stored[a].plan[i].kind = "write" => Contains(stored[a].applied, i)
            /\ stored[a].format = "raw" => Len(stored[a].file) = MaxSize

\* One tool call applies each statement of its plan at most once, and none
\* before everything that comes before it in the plan was done.
EffectsInOrder ==
    /\ \A i, j \in DOMAIN applied : i < j => applied[i] < applied[j]
    /\ \A i \in DOMAIN applied : applied[i] <= pos

\* "subsequent ops with different schemas trigger a fall-through to JSONL"
\* (retrieve/replay.py): no record of a stored file lacks one of its columns.
NothingIsDropped ==
    \A a \in 1 .. Attempts :
        stored[a] # NoResult =>
            \A i \in DOMAIN stored[a].file : stored[a].file[i].lacks = {}
=============================================================================
