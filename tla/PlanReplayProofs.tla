--------------------------- MODULE PlanReplayProofs ---------------------------
(***************************************************************************)
(* Machine-checked facts about PlanReplay, for every set of tables, keys   *)
(* and plans, every number of tool calls and of changes by other clients,  *)
(* and every set of faults.                                                *)
(***************************************************************************)
EXTENDS PlanReplay, FiniteSetTheorems, TLAPS

(* The inductive invariant.  First the types.                               *)

Phases == {"idle", "ops", "store", "audit", "answered", "failed"}

WorldType ==
    /\ rows \in [Tables -> 0 .. MaxRows] /\ objects \in [Keys -> {-1, MaxSize}]
    /\ changes \in 0 .. MaxChanges

RequestType ==
    /\ attempt \in 0 .. Attempts /\ pc \in Phases
    /\ plan \in Plans \cup {<<>>} /\ format \in Formats
    /\ pos \in 1 .. Len(plan) + 1
    /\ pc # "idle" => attempt \in 1 .. Attempts /\ plan \in Plans
    /\ pc \in {"store", "audit", "answered"} => pos = Len(plan) + 1
    /\ pc \in {"ops", "store", "audit", "answered"} /\ format = "raw" =>
          Len(plan) = 1 /\ plan[1].kind = "get"

OutType ==
    /\ header \in (SUBSET Columns) \cup {NoHeader} /\ file \in Seq(Record)
    /\ access \in Seq(Nat) /\ Len(access) = pos - 1
    /\ rowcount \in Nat /\ applied \in Seq(1 .. Len(plan))

StoredType == stored \in [1 .. Attempts -> Result \cup {NoResult}]

\* The statements that took effect are those before the place of the replay, and at most
\* the one in its place, if that failed.
Effects ==
    /\ \A i, j \in 1 .. Len(applied) : i < j => applied[i] < applied[j]
    /\ \A i \in 1 .. Len(applied) : applied[i] <= pos /\ (pc = "ops" => applied[i] < pos)
    /\ \A i \in 1 .. pos - 1 : plan[i].kind = "write" => Contains(applied, i)

\* The file so far has the records of the operations so far, in their order.
Live == pc \in {"ops", "store", "audit", "answered"}

Ordered ==
    Live =>
        /\ \A k \in 1 .. Len(file) : file[k].op \in 1 .. pos - 1
        /\ \A j, k \in 1 .. Len(file) : j < k => file[j].op <= file[k].op

Counted ==
    Live =>
        /\ format = "raw" => IF pos = 1 THEN file = <<>> /\ rowcount = 0
                             ELSE Len(file) = access[1] /\ access[1] = MaxSize /\ rowcount = 1
        /\ format # "raw" =>
              /\ rowcount = Len(file)
              /\ \A i \in 1 .. pos - 1 :
                    RecordsOf(file, i) = IF plan[i].kind = "get" THEN 1 ELSE access[i]

\* What is answered is what was stored.
Answered ==
    /\ pc \in {"audit", "answered"} => stored[attempt].file = file
    /\ pc = "answered" => answer = [access |-> access, rowcount |-> rowcount]

IInv ==
    /\ WorldType /\ RequestType /\ OutType /\ StoredType
    /\ Effects /\ StoredIsWhole /\ Ordered /\ Counted /\ Answered
-----------------------------------------------------------------------------
(* What a step of a replay is.                                              *)

LEMMA OpKinds ==
  ASSUME NEW o \in Ops
  PROVE  /\ o.kind \in {"select", "write", "get"}
         /\ o.kind = "select" => o.table \in Tables
         /\ o.kind = "write" => o.table \in Tables /\ o = Write(o.table)
         /\ o.kind = "get" => o.key \in Keys
  BY DEF Ops, Select, Write, Get

LEMMA PlanTypes ==
  ASSUME RequestType
  PROVE  /\ plan \in Seq(Ops) /\ Len(plan) \in Nat
         /\ \A i \in 1 .. Len(plan) : plan[i] \in Ops
         /\ pos \in Nat /\ pos > 0
         /\ pos <= Len(plan) => Op \in Ops
<1>1. plan \in Seq(Ops)
  <2>1. <<>> \in Seq(Ops)
    OBVIOUS
  <2>2. plan \in Plans \cup {<<>>}
    BY DEF RequestType
  <2> QED
    BY <2>1, <2>2, PlansAssumption, Zenon
<1>2. Len(plan) \in Nat /\ \A i \in 1 .. Len(plan) : plan[i] \in Ops
  <2> HIDE DEF Ops
  <2> QED
    BY <1>1
<1>3. pos \in Nat /\ pos > 0
  BY <1>2 DEF RequestType
<1> QED
  BY <1>1, <1>2, <1>3 DEF Op

\* An operation has returned n records, or as many bytes; m goes into the access chain.
Finds(n, m, counted) ==
    /\ pc = "ops" /\ pos <= Len(plan) /\ Op.kind # "write"
    /\ \E lacks \in SUBSET Columns : file' = file \o [i \in 1 .. n |-> [op |-> pos, lacks |-> lacks]]
    /\ header' \in (SUBSET Columns) \cup {NoHeader}
    /\ Step(m, counted)
    /\ IF format = "raw" THEN n = m /\ m = MaxSize /\ counted = 1
       ELSE counted = n /\ n = IF Op.kind = "get" THEN 1 ELSE m
    /\ UNCHANGED <<dbVars, requestVars, pc, applied, stored, answer>>

\* A statement has taken effect.
Takes ==
    /\ pc = "ops" /\ pos <= Len(plan) /\ Op.kind = "write" /\ rows[Op.table] < MaxRows
    /\ rows' = [rows EXCEPT ![Op.table] = @ + 1]
    /\ applied' = Append(applied, pos)

Applies ==
    /\ Takes /\ Step(0, 0)
    /\ UNCHANGED <<objects, changes, requestVars, pc, header, file, stored, answer>>

\* An operation has failed; a statement may have taken effect all the same.
Breaks ==
    /\ pc = "ops" /\ pc' = "failed" /\ pos <= Len(plan)
    /\ Takes \/ UNCHANGED <<rows, applied>>
    /\ file' \in Seq(Record)
    /\ UNCHANGED <<objects, changes, requestVars, pos, header, access, rowcount, stored, answer>>

LEMMA Repeated ==
  ASSUME NEW n \in Nat, NEW r \in Record
  PROVE  [i \in 1 .. n |-> r] \in Seq(Record) /\ Len([i \in 1 .. n |-> r]) = n
<1> HIDE DEF Record
<1> QED
  OBVIOUS

LEMMA WritesRows ==
  ASSUME NEW n, NEW columns \in SUBSET Columns, OutType, WriteRows(n, columns)
  PROVE  /\ header' \in (SUBSET Columns) \cup {NoHeader}
         /\ \E lacks \in SUBSET Columns :
               file' = file \o [i \in 1 .. n |-> [op |-> pos, lacks |-> lacks]]
<1>1. Lacks(header, columns) \in SUBSET Columns
  BY DEF Lacks
<1> QED
  BY <1>1 DEF WriteRows, OutType

LEMMA FailBreaks ==
  ASSUME OutType, pc = "ops", pos <= Len(plan), Fail
  PROVE  Breaks
  BY DEF Fail, Breaks, OutType, dbVars, outVars

LEMMA ReplayKinds ==
  ASSUME IInv, RunSelect \/ RunWrite \/ RunGet \/ RunRaw
  PROVE  (\E n, m, counted \in Nat : Finds(n, m, counted)) \/ Applies \/ Breaks
<1> USE PlanTypes DEF IInv
<1>1. CASE RunSelect
  <2>1. pc = "ops" /\ pos <= Len(plan) /\ Op.kind = "select" /\ Op.table \in Tables
    BY <1>1, OpKinds DEF RunSelect, Running
  <2>2. rows[Op.table] \in Nat /\ ColumnsOf[Op.table] \in SUBSET Columns
    BY <2>1 DEF WorldType, Columns
  <2>3. format # "raw"
    BY <2>1 DEF RequestType, Op
  <2>4. CASE Fail
    BY <2>1, <2>4, FailBreaks
  <2>5. CASE ~Fail
    <3>1. /\ WriteRows(rows[Op.table], ColumnsOf[Op.table])
          /\ Step(rows[Op.table], rows[Op.table])
          /\ UNCHANGED <<dbVars, requestVars, pc, applied, stored, answer>>
      BY <1>1, <2>5 DEF RunSelect
    <3>2. Finds(rows[Op.table], rows[Op.table], rows[Op.table])
      BY <2>1, <2>2, <2>3, <3>1, WritesRows DEF Finds
    <3> QED
      BY <2>2, <3>2
  <2> QED
    BY <2>4, <2>5
<1>2. CASE RunWrite
  <2>1. /\ pc = "ops" /\ pos <= Len(plan) /\ Op.kind = "write" /\ rows[Op.table] < MaxRows
        /\ UNCHANGED <<objects, changes, requestVars, header, file, stored, answer>>
    BY <1>2 DEF RunWrite, Running
  <2>2. PICK o \in Outcomes("sql") :
          /\ rows' = IF Effective(o) THEN [rows EXCEPT ![Op.table] = @ + 1] ELSE rows
          /\ applied' = IF Effective(o) THEN Append(applied, pos) ELSE applied
          /\ IF o = "ok" THEN Step(0, 0) /\ UNCHANGED pc
             ELSE pc' = "failed" /\ UNCHANGED <<pos, access, rowcount>>
    BY <1>2 DEF RunWrite
  <2>3. Takes \/ UNCHANGED <<rows, applied>>
    BY <2>1, <2>2 DEF Takes
  <2>4. CASE o = "ok"
    BY <2>1, <2>2, <2>4 DEF Applies, Takes, Effective
  <2>5. CASE o # "ok"
    BY <2>1, <2>2, <2>3, <2>5 DEF Breaks, OutType
  <2> QED
    BY <2>4, <2>5
<1>3. CASE RunGet
  <2>1. /\ pc = "ops" /\ pos <= Len(plan) /\ Op.kind = "get" /\ Op.key \in Keys
        /\ format # "raw"
    BY <1>3, OpKinds DEF RunGet, Running
  <2>2. CASE Fail
    BY <2>1, <2>2, FailBreaks
  <2>3. CASE ~Fail
    <3>1. /\ objects[Op.key] >= 0 /\ WriteRows(1, BlobColumns) /\ Step(objects[Op.key], 1)
          /\ UNCHANGED <<dbVars, requestVars, pc, applied, stored, answer>>
      BY <1>3, <2>3 DEF RunGet
    <3>2. objects[Op.key] \in Nat /\ BlobColumns \in SUBSET Columns
      BY <2>1, <3>1, BoundsAssumption DEF WorldType, Columns
    <3>3. Finds(1, objects[Op.key], 1)
      BY <2>1, <3>1, <3>2, WritesRows DEF Finds
    <3> QED
      BY <3>2, <3>3
  <2> QED
    BY <2>2, <2>3
<1>4. CASE RunRaw
  <2>1. /\ pc = "ops" /\ pos <= Len(plan) /\ Op.kind = "get" /\ Op.key \in Keys
        /\ format = "raw"
    BY <1>4, OpKinds DEF RunRaw, Running
  <2>2. pos = 1 /\ file = <<>>
    <3>1. pos = 1
      <4>1. Len(plan) = 1
        BY <2>1 DEF RequestType
      <4>2. pos \in Nat /\ pos > 0 /\ pos <= 1
        BY <2>1, <4>1, PlanTypes
      <4> QED
        BY <4>2
    <3> QED
      BY <2>1, <3>1 DEF Counted, Live
  <2>3. objects[Op.key] \in Int /\ objects[Op.key] \in {-1, MaxSize}
    BY <2>1, BoundsAssumption DEF WorldType
  <2> DEFINE r == [op |-> pos, lacks |-> {}]
  <2>4. r \in Record
    BY DEF Record
  <2>5. CASE pc' = "failed"
    <3>1. PICK n \in {0} \cup 1 .. objects[Op.key] : file' = [i \in 1 .. n |-> r]
      BY <1>4, <2>1, <2>5 DEF RunRaw
    <3>2. file' \in Seq(Record)
      BY <2>3, <2>4, <3>1, Repeated
    <3> QED
      BY <1>4, <2>1, <2>5, <3>2 DEF RunRaw, Breaks, dbVars
  <2>6. CASE pc' # "failed"
    <3> DEFINE n == objects[Op.key]
    <3>1. /\ n >= 0 /\ file' = [i \in 1 .. n |-> r] /\ Step(n, 1)
          /\ UNCHANGED <<dbVars, requestVars, pc, header, applied, stored, answer>>
      BY <1>4, <2>6 DEF RunRaw
    <3>2. n \in Nat /\ n = MaxSize
      BY <2>3, <3>1
    <3>3. file' = file \o [i \in 1 .. n |-> r]
      <4>1. [i \in 1 .. n |-> r] \in Seq(Record)
        BY <2>4, <3>2, Repeated
      <4>2. \A q \in Seq(Record) : <<>> \o q = q
        BY SMT
      <4> HIDE DEF n, r
      <4> QED
        BY <2>2, <3>1, <4>1, <4>2
    <3>4. Finds(n, n, 1)
      <4>1. header' \in (SUBSET Columns) \cup {NoHeader}
        BY <3>1 DEF OutType
      <4>2. {} \in SUBSET Columns
        OBVIOUS
      <4> QED
        BY <2>1, <3>1, <3>2, <3>3, <4>1, <4>2 DEF Finds
    <3> QED
      BY <3>2, <3>4
  <2> QED
    BY <2>5, <2>6
<1> QED
  BY <1>1, <1>2, <1>3, <1>4
-----------------------------------------------------------------------------
(* The types are kept.                                                      *)

LEMMA Nothing ==
  \A S : <<>> \in Seq(S) /\ Len(<<>>) = 0
  OBVIOUS

LEMMA Initially == Init => IInv
<1> SUFFICES ASSUME Init PROVE IInv
  OBVIOUS
<1> USE BoundsAssumption DEF Init
<1>1. WorldType /\ StoredType
  <2>2. objects \in [Keys -> {-1, MaxSize}]
    OBVIOUS
  <2>3. rows \in [Tables -> 0 .. MaxRows]
    OBVIOUS
  <2> QED
    BY <2>2, <2>3 DEF WorldType, StoredType
<1>2. RequestType
  BY DEF RequestType, Phases
<1>3. OutType
  <2>1. Len(access) = pos - 1 /\ rowcount \in Nat
    OBVIOUS
  <2>2. file \in Seq(Record) /\ access \in Seq(Nat) /\ applied \in Seq(1 .. Len(plan))
    BY Nothing, Zenon
  <2>3. header \in (SUBSET Columns) \cup {NoHeader}
    OBVIOUS
  <2> QED
    BY <2>1, <2>2, <2>3, Zenon DEF OutType
<1>4. Effects /\ StoredIsWhole /\ Ordered /\ Counted /\ Answered
  BY DEF Effects, StoredIsWhole, Ordered, Counted, Answered, Live
<1> QED
  BY <1>1, <1>2, <1>3, <1>4 DEF IInv

LEMMA Kinds ==
  ASSUME IInv, [Next]_vars
  PROVE  \/ \E p \in Plans, f \in Formats : Call(p, f)
         \/ \E n, m, counted \in Nat : Finds(n, m, counted)
         \/ Applies \/ Breaks \/ Replayed \/ Store \/ Answer \/ Change \/ UNCHANGED vars
  BY ReplayKinds DEF Next

LEMMA WorldTypeStep ==
  ASSUME IInv, [Next]_vars
  PROVE  WorldType'
<1> USE BoundsAssumption DEF IInv, WorldType
<1>1. ASSUME NEW t \in Tables, NEW n \in 0 .. MaxRows, rows' = [rows EXCEPT ![t] = n],
             UNCHANGED objects, changes' \in 0 .. MaxChanges
      PROVE  WorldType'
  BY <1>1
<1>2. CASE Change
  <2>1. changes' \in 0 .. MaxChanges
    BY <1>2 DEF Change
  <2>2. ASSUME NEW k \in Keys, NEW n \in {-1, MaxSize}, objects' = [objects EXCEPT ![k] = n],
               UNCHANGED rows
        PROVE  WorldType'
    BY <2>1, <2>2
  <2> QED
    BY <1>1, <1>2, <2>1, <2>2 DEF Change
<1>3. CASE Takes /\ UNCHANGED <<objects, changes>>
  <2>1. Op.table \in Tables
    BY <1>3, PlanTypes, OpKinds DEF Takes
  <2>2. rows[Op.table] + 1 \in 0 .. MaxRows /\ rows' = [rows EXCEPT ![Op.table] = rows[Op.table] + 1]
    BY <1>3, <2>1 DEF Takes
  <2> QED
    BY <1>1, <1>3, <2>1, <2>2
<1>4. CASE UNCHANGED dbVars
  BY <1>4 DEF dbVars
<1> QED
  BY <1>2, <1>3, <1>4, Kinds DEF Call, Finds, Applies, Breaks, Replayed, Store, Answer, vars, dbVars

LEMMA RequestTypeStep ==
  ASSUME IInv, [Next]_vars
  PROVE  RequestType'
<1> USE DEF IInv
<1>0. pos \in Nat /\ pos > 0 /\ Len(plan) \in Nat
  BY PlanTypes
<1>1. ASSUME NEW p \in Plans, NEW f \in Formats, Call(p, f)
      PROVE  RequestType'
  <2>1. attempt' \in 1 .. Attempts
    BY <1>1, BoundsAssumption DEF Call, RequestType
  <2>2. Len(p) \in Nat /\ plan' = p /\ format' = f /\ pos' = 1
    BY <1>1, PlansAssumption DEF Call
  <2>3. pc' \in {"ops", "failed"} /\ (pc' = "ops" => ~Refused(p, f))
    BY <1>1 DEF Call
  <2>4. ~Refused(p, "raw") => Len(p) = 1 /\ p[1].kind = "get"
    BY DEF Refused
  <2> QED
    BY <2>1, <2>2, <2>3, <2>4 DEF RequestType, Phases
<1>2. ASSUME UNCHANGED requestVars, pc = "ops", pc' \in {"ops", "failed"},
             pos' = pos + 1, pos <= Len(plan)
      PROVE  RequestType'
  BY <1>0, <1>2 DEF RequestType, requestVars, Phases
<1>3. ASSUME UNCHANGED <<requestVars, pos>>, pc \in {"ops", "store", "audit"},
             \/ pc' = "failed"
             \/ pc = "ops" /\ pc' = "store" /\ pos > Len(plan)
             \/ pc = "store" /\ pc' = "audit"
             \/ pc = "audit" /\ pc' = "answered"
      PROVE  RequestType'
  BY <1>0, <1>3 DEF RequestType, requestVars, Phases
<1>4. CASE UNCHANGED <<requestVars, pc, pos>>
  BY <1>4 DEF RequestType, requestVars
<1>5. CASE Applies \/ \E n, m, counted \in Nat : Finds(n, m, counted)
  BY <1>2, <1>5 DEF Applies, Takes, Finds, Step
<1>6. CASE Breaks \/ Replayed \/ Store \/ Answer
  BY <1>3, <1>6 DEF Breaks, Replayed, Store, Answer
<1> QED
  BY <1>1, <1>4, <1>5, <1>6, Kinds DEF Change, vars

LEMMA OutTypeStep ==
  ASSUME IInv, [Next]_vars
  PROVE  OutType'
<1> USE DEF IInv, OutType
<1>0. pos \in Nat /\ pos > 0 /\ Len(plan) \in Nat
  BY PlanTypes
<1>1. ASSUME NEW p \in Plans, NEW f \in Formats, Call(p, f)
      PROVE  OutType'
  <2>1. /\ file' = <<>> /\ access' = <<>> /\ applied' = <<>> /\ pos' = 1
        /\ header' = NoHeader /\ rowcount' = 0
    BY <1>1 DEF Call
  <2>2. Len(access') = pos' - 1 /\ rowcount' \in Nat
    BY <2>1
  <2>3. file' \in Seq(Record) /\ access' \in Seq(Nat) /\ applied' \in Seq(1 .. Len(plan'))
    BY <2>1, Nothing, Zenon
  <2>4. header' \in (SUBSET Columns) \cup {NoHeader}
    BY <2>1
  <2> QED
    BY <2>2, <2>3, <2>4, Zenon
<1>2. ASSUME NEW m \in Nat, NEW counted \in Nat, Step(m, counted)
      PROVE  /\ access' \in Seq(Nat) /\ Len(access') = pos' - 1 /\ rowcount' \in Nat
             /\ access'[pos] = m /\ \A i \in 1 .. pos - 1 : access'[i] = access[i]
  BY <1>0, <1>2 DEF Step
<1>3. CASE \E n, m, counted \in Nat : Finds(n, m, counted)
  <2>1. PICK n \in Nat, m \in Nat, counted \in Nat : Finds(n, m, counted)
    BY <1>3
  <2>2. /\ access' \in Seq(Nat) /\ Len(access') = pos' - 1 /\ rowcount' \in Nat
        /\ applied' = applied /\ plan' = plan /\ header' \in (SUBSET Columns) \cup {NoHeader}
    BY <1>2, <2>1 DEF Finds, requestVars
  <2>3. PICK lacks \in SUBSET Columns : file' = file \o [i \in 1 .. n |-> [op |-> pos, lacks |-> lacks]]
    BY <2>1 DEF Finds
  <2>4. file' \in Seq(Record)
    <3> DEFINE r == [op |-> pos, lacks |-> lacks]
    <3>1. r \in Record
      BY <1>0 DEF Record
    <3> HIDE DEF r
    <3>2. [i \in 1 .. n |-> r] \in Seq(Record)
      BY <3>1, Repeated
    <3> DEFINE q == [i \in 1 .. n |-> r]
    <3> HIDE DEF q, Record
    <3>3. file \o q \in Seq(Record)
      BY <3>2 DEF q
    <3> QED
      BY <2>3, <3>3 DEF q, r
  <2> QED
    BY <2>2, <2>4
<1>4. CASE Takes
  <2>1. applied' = Append(applied, pos) /\ pos \in 1 .. Len(plan)
    BY <1>0, <1>4 DEF Takes
  <2>2. applied' \in Seq(1 .. Len(plan))
    BY <2>1
  <2>3. CASE Applies
    BY <1>2, <2>2, <2>3 DEF Applies, requestVars
  <2>4. CASE Breaks
    BY <2>2, <2>4 DEF Breaks, requestVars
  <2>5. ASSUME NEW p, NEW f, Call(p, f) PROVE FALSE
    BY <1>4, <2>5 DEF Takes, Call
  <2>6. CASE ~Applies /\ ~Breaks
    BY <1>3, <1>4, <2>5, <2>6, Kinds DEF Takes, Replayed, Store, Answer, Change, vars, outVars, requestVars
  <2> QED
    BY <2>3, <2>4, <2>6
<1>5. CASE ~Takes /\ Breaks
  BY <1>5 DEF Breaks, requestVars
<1>6. CASE UNCHANGED <<requestVars, pos, outVars, applied>>
  BY <1>6 DEF requestVars, outVars
<1> QED
  BY <1>1, <1>3, <1>4, <1>5, <1>6, Kinds DEF Applies, Replayed, Store, Answer, Change, vars

LEMMA StoredTypeStep ==
  ASSUME IInv, [Next]_vars
  PROVE  StoredType'
<1> USE DEF IInv
<1>1. CASE Store
  <2> DEFINE new == [file |-> file, plan |-> plan, format |-> format, applied |-> applied, at |-> pos]
  <2>1. stored' = stored \/ stored' = [stored EXCEPT ![attempt] = new]
    BY <1>1 DEF Store
  <2>2. new \in Result
    <3>1. plan \in Plans /\ format \in Formats /\ pos \in Nat
      BY <1>1, PlanTypes DEF Store, RequestType
    <3>2. applied \in Seq(Nat)
      <4>1. Len(plan) \in Nat
        BY PlanTypes
      <4> QED
        BY <4>1 DEF OutType
    <3> QED
      BY <3>1, <3>2 DEF Result, OutType
  <2> HIDE DEF new
  <2> QED
    BY <2>1, <2>2 DEF StoredType
<1>2. CASE ~Store
  <2>1. stored' = stored
    BY <1>2, Kinds DEF Call, Finds, Applies, Breaks, Replayed, Answer, Change, vars
  <2> QED
    BY <2>1 DEF StoredType
<1> QED
  BY <1>1, <1>2
-----------------------------------------------------------------------------
(* What the statements of a plan do.                                        *)

\* What was entered in the access chain stays there.
LEMMA Chain ==
  ASSUME IInv, NEW m \in Nat, NEW counted \in Nat, Step(m, counted)
  PROVE  /\ pos' = pos + 1 /\ pos \in Nat /\ pos > 0 /\ access'[pos] = m
         /\ \A i \in 1 .. pos - 1 : access'[i] = access[i]
         /\ \A i \in 1 .. pos' - 1 : i \in 1 .. pos - 1 \/ i = pos
<1>1. pos \in Nat /\ pos > 0 /\ access \in Seq(Nat) /\ Len(access) = pos - 1
  BY PlanTypes DEF IInv, OutType
<1> QED
  BY <1>1 DEF Step

LEMMA EffectsStep ==
  ASSUME IInv, [Next]_vars
  PROVE  Effects'
<1> USE DEF IInv, Effects
<1>0. pos \in Nat /\ pos > 0 /\ Len(plan) \in Nat /\ applied \in Seq(1 .. Len(plan))
  BY PlanTypes DEF OutType
<1>1. ASSUME NEW p \in Plans, NEW f \in Formats, Call(p, f)
      PROVE  Effects'
  BY <1>1 DEF Call
<1>2. ASSUME NEW n \in Nat, NEW m \in Nat, NEW counted \in Nat, Finds(n, m, counted)
      PROVE  Effects'
  <2>1. pc = "ops" /\ applied' = applied /\ plan' = plan /\ plan[pos].kind # "write"
    BY <1>2 DEF Finds, requestVars, Op
  <2>2. pos' = pos + 1 /\ \A i \in 1 .. pos' - 1 : i \in 1 .. pos - 1 \/ i = pos
    BY <1>2, Chain DEF Finds
  <2>3. \A i \in 1 .. Len(applied) : applied[i] \in Nat /\ applied[i] < pos
    BY <1>0, <2>1
  <2>4. \A i \in 1 .. Len(applied') : applied'[i] <= pos' /\ applied'[i] < pos'
    BY <1>0, <2>1, <2>2, <2>3
  <2> QED
    BY <2>1, <2>2, <2>4
<1>3. ASSUME Takes
      PROVE  /\ \A i, j \in 1 .. Len(applied') : i < j => applied'[i] < applied'[j]
             /\ \A i \in 1 .. Len(applied') : applied'[i] \in Nat /\ applied'[i] <= pos
             /\ \A i \in 1 .. pos : plan[i].kind = "write" => Contains(applied', i)
  <2>1. pc = "ops" /\ applied' = Append(applied, pos) /\ pos \in 1 .. Len(plan)
    BY <1>0, <1>3 DEF Takes
  <2>2. /\ Len(applied) \in Nat /\ Len(applied') = Len(applied) + 1
        /\ applied'[Len(applied) + 1] = pos
        /\ \A i \in 1 .. Len(applied) : applied'[i] = applied[i]
    BY <1>0, <2>1
  <2>3. \A i \in 1 .. Len(applied) : applied[i] \in Nat /\ applied[i] < pos
    BY <1>0, <2>1
  <2>4. ASSUME NEW i \in 1 .. pos, plan[i].kind = "write"
        PROVE  Contains(applied', i)
    <3>1. CASE i = pos
      BY <2>2, <3>1 DEF Contains
    <3>2. CASE i # pos
      <4>1. i \in 1 .. pos - 1
        BY <1>0, <3>2
      <4>2. PICK k \in 1 .. Len(applied) : applied[k] = i
        BY <2>4, <4>1 DEF Contains
      <4> QED
        BY <2>2, <4>2 DEF Contains
    <3> QED
      BY <3>1, <3>2
  <2>5. \A i \in 1 .. Len(applied') : i \in 1 .. Len(applied) \/ i = Len(applied) + 1
    BY <2>2
  <2>6. \A i \in 1 .. Len(applied') : applied'[i] \in Nat /\ applied'[i] <= pos
    BY <1>0, <2>2, <2>3, <2>5
  <2>7. ASSUME NEW i \in 1 .. Len(applied'), NEW j \in 1 .. Len(applied'), i < j
        PROVE  applied'[i] < applied'[j]
    <3>1. i \in 1 .. Len(applied)
      BY <2>2, <2>7
    <3>2. CASE j \in 1 .. Len(applied)
      BY <2>2, <2>7, <3>1, <3>2
    <3>3. CASE j = Len(applied) + 1
      BY <2>2, <2>3, <3>1, <3>3
    <3> QED
      BY <2>5, <3>2, <3>3
  <2> QED
    BY <2>4, <2>6, <2>7
<1>4. CASE Applies
  <2>1. pos' = pos + 1 /\ plan' = plan
    BY <1>4 DEF Applies, Step, requestVars
  <2>2. \A i \in 1 .. pos' - 1 : i \in 1 .. pos
    BY <1>0, <2>1
  <2>3. \A i \in 1 .. Len(applied') : applied'[i] <= pos' /\ applied'[i] < pos'
    BY <1>0, <1>3, <1>4, <2>1 DEF Applies
  <2> QED
    BY <1>3, <1>4, <2>1, <2>2, <2>3 DEF Applies
<1>5. CASE Breaks
  <2>1. pos' = pos /\ plan' = plan /\ pc' = "failed"
    BY <1>5 DEF Breaks, requestVars
  <2>2. CASE Takes
    <3>1. \A i \in 1 .. pos - 1 : i \in 1 .. pos
      BY <1>0
    <3> QED
      BY <1>3, <2>1, <2>2, <3>1
  <2>3. CASE ~Takes
    BY <1>5, <2>1, <2>3 DEF Breaks
  <2> QED
    BY <2>2, <2>3
<1>6. CASE Replayed \/ Store \/ Answer \/ Change \/ UNCHANGED vars
  <2>1. pos' = pos /\ plan' = plan /\ applied' = applied /\ (pc' = "ops" => pc = "ops")
    BY <1>6 DEF Replayed, Store, Answer, Change, vars, requestVars
  <2> QED
    BY <2>1
<1> QED
  BY <1>1, <1>2, <1>4, <1>5, <1>6, Kinds

\* The bucket gets what the whole plan gave, and nothing of a plan that failed.
LEMMA StoredIsWholeStep ==
  ASSUME IInv, [Next]_vars
  PROVE  StoredIsWhole'
<1> USE DEF IInv, StoredIsWhole
<1>1. CASE Store
  <2> DEFINE new == [file |-> file, plan |-> plan, format |-> format, applied |-> applied, at |-> pos]
  <2>1. stored' = stored \/ stored' = [stored EXCEPT ![attempt] = new]
    BY <1>1 DEF Store
  <2>2. /\ new.at = pos /\ new.plan = plan /\ new.applied = applied
        /\ new.format = format /\ new.file = file
    OBVIOUS
  <2>3. pos = Len(plan) + 1 /\ Len(plan) \in Nat /\ DOMAIN plan = 1 .. Len(plan)
    BY <1>1, PlanTypes DEF Store, RequestType
  <2>4. \A i \in DOMAIN plan : plan[i].kind = "write" => Contains(applied, i)
    <3>1. pos - 1 = Len(plan)
      BY <2>3
    <3> QED
      BY <2>3, <3>1 DEF Effects
  <2>5. format = "raw" => Len(file) = MaxSize
    BY <1>1, <2>3 DEF Store, Counted, Live, RequestType
  <2> HIDE DEF new
  <2>6. \A a \in 1 .. Attempts : stored'[a] = stored[a] \/ stored'[a] = new
    BY <2>1 DEF StoredType
  <2> QED
    BY <2>2, <2>3, <2>4, <2>5, <2>6
<1>2. CASE ~Store
  <2>1. stored' = stored
    BY <1>2, Kinds DEF Call, Finds, Applies, Breaks, Replayed, Answer, Change, vars
  <2> QED
    BY <2>1
<1> QED
  BY <1>1, <1>2

-----------------------------------------------------------------------------
(* The file, its records and the answer.                                    *)

\* What one operation adds to the file is its own.
AllAre(q, r) == \A k \in 1 .. Len(q) : q[k] = r
HasNone(f, i) == \A k \in 1 .. Len(f) : f[k].op # i

\* g is f with n records of operation i after it, the only ones of that operation.
Extended(f, g, n, i) ==
    /\ Len(f) \in Nat /\ Len(g) = Len(f) + n
    /\ \A k \in 1 .. Len(f) : g[k] = f[k]
    /\ \A k \in 1 .. Len(g) : k \in 1 .. Len(f) \/ (k > Len(f) /\ g[k].op = i)
    /\ RecordsOf(g, i) = n
    /\ \A j : j # i => RecordsOf(g, j) = RecordsOf(f, j)

LEMMA Concatenated ==
  ASSUME NEW S, NEW f \in Seq(S), NEW q \in Seq(S)
  PROVE  /\ f \o q \in Seq(S) /\ Len(f) \in Nat /\ Len(q) \in Nat
         /\ Len(f \o q) = Len(f) + Len(q)
         /\ \A k \in 1 .. Len(f) : (f \o q)[k] = f[k]
         /\ \A k \in Len(f) + 1 .. Len(f) + Len(q) : (f \o q)[k] = q[k - Len(f)]
  OBVIOUS

LEMMA Added ==
  ASSUME NEW f \in Seq(Record), NEW c, HasNone(f, c), NEW r \in Record, r.op = c,
         NEW q \in Seq(Record), AllAre(q, r), NEW g, g = f \o q
  PROVE  Extended(f, g, Len(q), c)
<1> DEFINE n == Len(q)
<1>1. (\A k \in 1 .. Len(f) : f[k].op # r.op) /\ \A i \in 1 .. n : q[i] = r
  BY DEF AllAre, HasNone
<1>2. /\ n \in Nat /\ Len(f) \in Nat /\ Len(g) = Len(f) + n /\ g \in Seq(Record)
      /\ \A k \in 1 .. Len(f) : g[k] = f[k]
      /\ \A k \in Len(f) + 1 .. Len(f) + n : g[k] = q[k - Len(f)]
  BY Concatenated
<1>3. \A k \in Len(f) + 1 .. Len(f) + n : k - Len(f) \in 1 .. n
  BY <1>2
<1>4. \A k \in Len(f) + 1 .. Len(f) + n : g[k] = r
  BY <1>1, <1>2, <1>3
<1>5. \A k \in 1 .. Len(g) : k \in 1 .. Len(f) \/ (k \in Len(f) + 1 .. Len(f) + n /\ k > Len(f))
  BY <1>2
<1>6. DOMAIN g = 1 .. Len(g) /\ DOMAIN f = 1 .. Len(f)
  BY <1>2
<1>7. \A k \in Len(f) + 1 .. Len(f) + n : k \in 1 .. Len(g)
  BY <1>2
<1>8. \A k \in 1 .. Len(f) : k \in 1 .. Len(g)
  BY <1>2
<1>9. RecordsOf(g, r.op) = n
  <2>1. {k \in DOMAIN g : g[k].op = r.op} = Len(f) + 1 .. Len(f) + n
    BY <1>1, <1>2, <1>4, <1>5, <1>6, <1>7
  <2> DEFINE a == Len(f) + 1
             b == Len(f) + n
  <2>2. a \in Int /\ b \in Int /\ b - a + 1 = n /\ (a > b => n = 0)
    BY <1>2
  <2> HIDE DEF a, b
  <2>3. Cardinality(a .. b) = IF a > b THEN 0 ELSE b - a + 1
    BY <2>2, FS_Interval
  <2>4. Cardinality(a .. b) = n
    BY <2>2, <2>3
  <2> QED
    BY <2>1, <2>4 DEF RecordsOf, a, b
<1>10. ASSUME NEW i, i # r.op
       PROVE  RecordsOf(g, i) = RecordsOf(f, i)
  <2>1. {k \in DOMAIN g : g[k].op = i} = {k \in DOMAIN f : f[k].op = i}
    BY <1>1, <1>2, <1>4, <1>5, <1>6, <1>8, <1>10
  <2> QED
    BY <2>1 DEF RecordsOf
<1>11. \A k \in 1 .. Len(g) : k \in 1 .. Len(f) \/ (k > Len(f) /\ g[k] = r)
  BY <1>4, <1>5
<1> QED
  BY <1>2, <1>9, <1>10, <1>11 DEF Extended

\* The record an operation writes is marked with its place, which no other record has.
LEMMA FileGrows ==
  ASSUME IInv, NEW n \in Nat, NEW m \in Nat, NEW counted \in Nat, Finds(n, m, counted)
  PROVE  /\ Len(file) \in Nat /\ Len(file') = Len(file) + n
         /\ \A k \in 1 .. Len(file) : file'[k] = file[k]
         /\ \A k \in 1 .. Len(file') : k \in 1 .. Len(file) \/ (k > Len(file) /\ file'[k].op = pos)
         /\ RecordsOf(file', pos) = n
         /\ \A i : i # pos => RecordsOf(file', i) = RecordsOf(file, i)
<1>1. PICK lacks \in SUBSET Columns : file' = file \o [i \in 1 .. n |-> [op |-> pos, lacks |-> lacks]]
  BY DEF Finds
<1> DEFINE r == [op |-> pos, lacks |-> lacks]
<1>2. pos \in Nat /\ r \in Record /\ r.op = pos /\ file \in Seq(Record)
  BY PlanTypes DEF IInv, Record, OutType
<1>3. HasNone(file, pos)
  BY <1>2 DEF IInv, Ordered, Live, Finds, HasNone
<1> DEFINE q == [i \in 1 .. n |-> r]
<1>4. file' = file \o q /\ q \in Seq(Record) /\ Len(q) = n /\ AllAre(q, r)
  BY <1>1, <1>2, Repeated DEF AllAre
<1> HIDE DEF r, q
<1>5. Extended(file, file', Len(q), pos)
  BY <1>2, <1>3, <1>4, Added
<1> QED
  BY <1>4, <1>5 DEF Extended

LEMMA OrderedStep ==
  ASSUME IInv, [Next]_vars
  PROVE  Ordered'
<1> USE DEF IInv, Ordered, Live
<1>0. pos \in Nat /\ pos > 0
  BY PlanTypes
<1>1. ASSUME NEW p \in Plans, NEW f \in Formats, Call(p, f)
      PROVE  Ordered'
  BY <1>1 DEF Call
<1>2. ASSUME NEW n \in Nat, NEW m \in Nat, NEW counted \in Nat, Finds(n, m, counted)
      PROVE  Ordered'
  <2>1. pc = "ops" /\ pos' = pos + 1
    BY <1>2 DEF Finds, Step
  <2>2. \A k \in 1 .. Len(file) : file[k].op \in 1 .. pos - 1
    BY <2>1
  <2>3. \A k \in 1 .. Len(file) : file'[k].op \in 1 .. pos - 1
    BY <1>2, <2>2, FileGrows
  <2>4. \A k \in 1 .. Len(file') : file'[k].op \in 1 .. pos - 1 \/ file'[k].op = pos
    BY <1>2, <2>3, FileGrows
  <2>5. \A k \in 1 .. Len(file') : file'[k].op \in 1 .. pos' - 1
    BY <1>0, <2>1, <2>4
  <2>6. ASSUME NEW j \in 1 .. Len(file'), NEW k \in 1 .. Len(file'), j < k
        PROVE  file'[j].op <= file'[k].op
    <3>1. CASE k \in 1 .. Len(file)
      <4>1. Len(file) \in Nat
        BY <1>2, FileGrows
      <4>2. j \in 1 .. Len(file)
        BY <2>6, <3>1, <4>1
      <4>3. file[j].op <= file[k].op
        BY <2>1, <2>6, <3>1, <4>2
      <4> QED
        BY <1>2, <3>1, <4>2, <4>3, FileGrows
    <3>2. CASE k \notin 1 .. Len(file)
      <4>1. file'[k].op = pos
        BY <1>2, <3>2, FileGrows
      <4>2. file'[j].op \in 1 .. pos - 1 \/ file'[j].op = pos
        BY <2>4
      <4> QED
        BY <1>0, <4>1, <4>2
    <3> QED
      BY <3>1, <3>2
  <2> QED
    BY <2>5, <2>6
<1>3. CASE Applies
  <2>1. pos' = pos + 1 /\ file' = file /\ pc = "ops"
    BY <1>3 DEF Applies, Takes, Step
  <2>2. \A x : x \in 1 .. pos - 1 => x \in 1 .. pos' - 1
    BY <1>0, <2>1
  <2> QED
    BY <2>1, <2>2
<1>4. CASE Breaks
  BY <1>4 DEF Breaks
<1>5. CASE Replayed \/ Store \/ Answer \/ Change \/ UNCHANGED vars
  <2>1. file' = file /\ pos' = pos /\ (Live' => Live)
    BY <1>5 DEF Replayed, Store, Answer, Change, vars, outVars
  <2> QED
    BY <2>1
<1> QED
  BY <1>1, <1>2, <1>3, <1>4, <1>5, Kinds

LEMMA CountedStep ==
  ASSUME IInv, [Next]_vars
  PROVE  Counted'
<1> USE DEF IInv, Live
<1>0. pos \in Nat /\ pos > 0 /\ file \in Seq(Record)
  BY PlanTypes DEF OutType
<1>1. ASSUME NEW p \in Plans, NEW f \in Formats, Call(p, f)
      PROVE  Counted'
  <2>1. pos' = 1 /\ file' = <<>> /\ rowcount' = 0 /\ Len(<<>>) = 0
    BY <1>1 DEF Call
  <2> QED
    BY <2>1 DEF Counted
<1>2. ASSUME NEW n \in Nat, NEW m \in Nat, NEW counted \in Nat, Finds(n, m, counted)
      PROVE  Counted'
  <2>1. /\ pc = "ops" /\ pos' = pos + 1 /\ plan' = plan /\ format' = format
        /\ pos <= Len(plan) /\ rowcount' = rowcount + counted /\ plan[pos].kind # "write"
    BY <1>2 DEF Finds, Step, requestVars, Op
  <2>2. /\ access'[pos] = m /\ \A i \in 1 .. pos - 1 : access'[i] = access[i]
        /\ \A i \in 1 .. pos' - 1 : i \in 1 .. pos - 1 \/ i = pos
    BY <1>2, Chain DEF Finds
  <2>3. CASE format = "raw"
    <3>1. Len(plan) = 1
      BY <2>1, <2>3 DEF RequestType
    <3>2. pos = 1
      BY <1>0, <2>1, <3>1
    <3>3. file = <<>>
      BY <2>1, <2>3, <3>2 DEF Counted
    <3>4. n = m /\ m = MaxSize /\ counted = 1
      BY <1>2, <2>3 DEF Finds
    <3>5. Len(file') = Len(file) + n /\ Len(file) = 0
      BY <1>2, <3>3, FileGrows
    <3>6. rowcount = 0
      BY <2>1, <2>3, <3>2 DEF Counted
    <3> QED
      BY <2>1, <2>2, <2>3, <3>2, <3>4, <3>5, <3>6 DEF Counted
  <2>4. CASE format # "raw"
    <3>1. counted = n /\ n = IF plan[pos].kind = "get" THEN 1 ELSE m
      BY <1>2, <2>4 DEF Finds, Op
    <3>2. rowcount = Len(file)
      BY <2>1, <2>4 DEF Counted
    <3>3. rowcount' = Len(file')
      BY <1>2, <2>1, <3>1, <3>2, FileGrows
    <3>4. ASSUME NEW i \in 1 .. pos' - 1
          PROVE  RecordsOf(file', i) = IF plan[i].kind = "get" THEN 1 ELSE access'[i]
      <4>1. CASE i \in 1 .. pos - 1
        <5>1. i # pos
          BY <1>0, <4>1
        <5>2. RecordsOf(file', i) = RecordsOf(file, i)
          BY <1>2, <5>1, FileGrows
        <5>3. RecordsOf(file, i) = IF plan[i].kind = "get" THEN 1 ELSE access[i]
          BY <2>1, <2>4, <4>1 DEF Counted
        <5> QED
          BY <2>2, <4>1, <5>2, <5>3
      <4>2. CASE i = pos
        <5>1. RecordsOf(file', pos) = n
          BY <1>2, FileGrows
        <5> QED
          BY <2>2, <3>1, <4>2, <5>1
      <4> QED
        BY <2>2, <4>1, <4>2
    <3>5. \A i : RecordsOf(file, i)' = RecordsOf(file', i)
      BY DEF RecordsOf
    <3> QED
      BY <2>1, <2>4, <3>3, <3>4, <3>5 DEF Counted
  <2> QED
    BY <2>3, <2>4
<1>3. CASE Applies
  <2>1. /\ pc = "ops" /\ pos' = pos + 1 /\ plan' = plan /\ format' = format /\ file' = file
        /\ pos <= Len(plan) /\ plan[pos].kind = "write" /\ Step(0, 0)
    BY <1>3 DEF Applies, Takes, Step, requestVars, Op
  <2>2. rowcount' = rowcount
    BY <2>1 DEF Step, OutType
  <2>3. /\ access'[pos] = 0 /\ \A i \in 1 .. pos - 1 : access'[i] = access[i]
        /\ \A i \in 1 .. pos' - 1 : i \in 1 .. pos - 1 \/ i = pos
    BY <2>1, Chain
  <2>4. format # "raw"
    <3>1. format = "raw" => Len(plan) = 1 /\ plan[1].kind = "get"
      BY <2>1 DEF RequestType
    <3>2. Len(plan) = 1 => pos = 1
      BY <1>0, <2>1
    <3> QED
      BY <2>1, <3>1, <3>2
  <2>5. RecordsOf(file, pos) = 0
    <3>1. {k \in DOMAIN file : file[k].op = pos} = {}
      BY <1>0, <2>1 DEF Ordered
    <3> QED
      BY <3>1, FS_EmptySet DEF RecordsOf
  <2>6. ASSUME NEW i \in 1 .. pos' - 1
        PROVE  RecordsOf(file, i) = IF plan[i].kind = "get" THEN 1 ELSE access'[i]
    <3>1. CASE i \in 1 .. pos - 1
      <4>1. RecordsOf(file, i) = IF plan[i].kind = "get" THEN 1 ELSE access[i]
        BY <2>1, <2>4, <3>1 DEF Counted
      <4> QED
        BY <2>3, <3>1, <4>1
    <3>2. CASE i = pos
      BY <2>1, <2>3, <2>5, <3>2
    <3> QED
      BY <2>3, <3>1, <3>2
  <2>7. \A i : RecordsOf(file, i)' = RecordsOf(file, i)
    BY <2>1 DEF RecordsOf
  <2> QED
    BY <2>1, <2>2, <2>4, <2>6, <2>7 DEF Counted
<1>4. CASE Breaks
  BY <1>4 DEF Breaks, Counted
<1>5. CASE Replayed \/ Store \/ Answer \/ Change \/ UNCHANGED vars
  <2>1. /\ file' = file /\ pos' = pos /\ (Live' => Live) /\ plan' = plan /\ format' = format
        /\ access' = access /\ rowcount' = rowcount
    BY <1>5 DEF Replayed, Store, Answer, Change, vars, outVars, requestVars
  <2>2. \A i : RecordsOf(file, i)' = RecordsOf(file, i)
    BY <2>1 DEF RecordsOf
  <2> QED
    BY <2>1, <2>2 DEF Counted
<1> QED
  BY <1>1, <1>2, <1>3, <1>4, <1>5, Kinds

LEMMA AnsweredStep ==
  ASSUME IInv, [Next]_vars
  PROVE  Answered'
<1> USE DEF IInv, Answered
<1>1. CASE Store
  <2> DEFINE new == [file |-> file, plan |-> plan, format |-> format, applied |-> applied, at |-> pos]
  <2>1. PICK o \in Outcomes("put") :
          /\ stored' = IF Effective(o) THEN [stored EXCEPT ![attempt] = new] ELSE stored
          /\ pc' = IF o = "ok" THEN "audit" ELSE "failed"
    BY <1>1 DEF Store
  <2>2. attempt \in 1 .. Attempts /\ attempt' = attempt /\ file' = file
    BY <1>1 DEF Store, RequestType, requestVars, outVars
  <2>3. new.file = file
    OBVIOUS
  <2> HIDE DEF new
  <2> QED
    BY <2>1, <2>2, <2>3 DEF StoredType, Effective
<1>2. CASE Answer
  BY <1>2 DEF Answer, requestVars, outVars
<1>3. CASE Replayed \/ Change \/ UNCHANGED vars
  <2>1. /\ stored' = stored /\ attempt' = attempt /\ file' = file /\ access' = access
        /\ rowcount' = rowcount /\ answer' = answer
    BY <1>3 DEF Replayed, Change, vars, outVars, requestVars
  <2>2. pc' = pc \/ pc' = "store"
    BY <1>3 DEF Replayed, Change, vars
  <2> QED
    BY <2>1, <2>2
<1>4. ASSUME pc' \notin {"audit", "answered"} PROVE Answered'
  BY <1>4
<1> QED
  BY <1>1, <1>2, <1>3, <1>4, Kinds DEF Call, Finds, Applies, Takes, Breaks

LEMMA IInvStep ==
  ASSUME IInv, [Next]_vars
  PROVE  IInv'
  BY WorldTypeStep, RequestTypeStep, OutTypeStep, StoredTypeStep, EffectsStep, StoredIsWholeStep,
     OrderedStep, CountedStep, AnsweredStep DEF IInv

LEMMA Invariant == Spec => []IInv
<1>1. Init => IInv
  BY Initially
<1>2. IInv /\ [Next]_vars => IInv'
  BY IInvStep
<1> QED
  BY <1>1, <1>2, PTL DEF Spec
-----------------------------------------------------------------------------
(* The theorems.                                                            *)

\* The state of a replay always has its type; the access chain has one entry per operation
\* that is done.
THEOREM ReplayTypes == Spec => []TypeOK
<1>1. IInv => TypeOK
  BY DEF IInv, WorldType, RequestType, OutType, StoredType, TypeOK, Phases
<1> QED
  BY <1>1, Invariant, PTL

\* Only plans that were run to their end are in the bucket: all their statements had taken
\* effect, and a raw object is there to its last byte, for every plan and however its
\* operations, the stream of the object and the storing failed.
THEOREM OnlyWholeIsStored == Spec => []StoredIsWhole
  BY Invariant, PTL DEF IInv

\* A tool call applies no statement twice and none out of its turn.
THEOREM EffectsAreInOrder == Spec => []EffectsInOrder
<1>1. IInv => EffectsInOrder
  <2> SUFFICES ASSUME IInv PROVE EffectsInOrder
    OBVIOUS
  <2>1. DOMAIN applied = 1 .. Len(applied)
    BY DEF IInv, OutType
  <2> QED
    BY <2>1 DEF IInv, Effects, EffectsInOrder
<1> QED
  BY <1>1, Invariant, PTL

\* What a replay answers fits the file it stored: the steps, the records of each operation,
\* their order and their number, for text and for raw results.
THEOREM AnswersFit == Spec => []AnswerFitsResult
<1>1. IInv => AnswerFitsResult
  <2> SUFFICES ASSUME IInv, pc = "answered"
               PROVE  LET result == stored[attempt].file IN
                      /\ Len(answer.access) = Len(plan)
                      /\ \A i, j \in DOMAIN result : i < j => result[i].op <= result[j].op
                      /\ format = "raw" => Len(result) = answer.access[1] /\ answer.rowcount = 1
                      /\ format # "raw" =>
                          /\ answer.rowcount = Len(result)
                          /\ \A i \in DOMAIN plan :
                              RecordsOf(result, i) = IF plan[i].kind = "get" THEN 1 ELSE answer.access[i]
    BY DEF AnswerFitsResult
  <2> USE DEF IInv
  <2>1. stored[attempt].file = file /\ answer.access = access /\ answer.rowcount = rowcount
    BY DEF Answered
  <2>2. pos = Len(plan) + 1 /\ Len(plan) \in Nat /\ DOMAIN plan = 1 .. Len(plan) /\ pos - 1 = Len(plan)
    BY PlanTypes DEF RequestType
  <2>3. Len(access) = Len(plan) /\ DOMAIN file = 1 .. Len(file)
    BY <2>2 DEF OutType
  <2>4. \A i, j \in 1 .. Len(file) : i < j => file[i].op <= file[j].op
    BY DEF Ordered, Live
  <2>5. format = "raw" => Len(file) = access[1] /\ rowcount = 1
    BY <2>2 DEF Counted, Live, RequestType
  <2>6. format # "raw" =>
           rowcount = Len(file) /\ \A i \in 1 .. Len(plan) :
              RecordsOf(file, i) = IF plan[i].kind = "get" THEN 1 ELSE access[i]
    BY <2>2 DEF Counted, Live
  <2> QED
    BY <2>1, <2>2, <2>3, <2>4, <2>5, <2>6
<1> QED
  BY <1>1, Invariant, PTL
===============================================================================
