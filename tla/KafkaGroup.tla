---------------------------- MODULE KafkaGroup ----------------------------
(***************************************************************************)
(* What streams/kafka.py relies on from aiokafka and the broker: one       *)
(* single-partition topic and one consumer group per stream source.        *)
(*                                                                         *)
(* KafkaSource.open builds an AIOKafkaConsumer with group_id set and       *)
(* enable_auto_commit=True, so the library -- not lumid.data -- commits.   *)
(* What it commits is the position, and the position moves when a record   *)
(* is handed to the caller, before the caller has done anything with it.   *)
(* The library is external: nothing in this module is code of src/.        *)
(***************************************************************************)
EXTENDS Integers, FiniteSets

CONSTANTS
    Sources,     \* stream_sources rows whose transport is "kafka"
    Tasks,       \* identities of asyncio tasks, recycled when unreferenced
    NoTask,      \* the absence of a task
    MaxOffset,   \* bound: records ever produced to one topic
    Earliest     \* auto_offset_reset: TRUE for "earliest", FALSE for "latest"

NoOffset == -1

Offsets == 0 .. MaxOffset - 1

ASSUME NoTaskAssumption == NoTask \notin Tasks
ASSUME MaxOffsetAssumption == MaxOffset \in Nat
ASSUME EarliestAssumption == Earliest \in BOOLEAN

VARIABLES
    logEnd,      \* logEnd[s]: the offset the next record will get
    committed,   \* committed[s]: the group's committed offset, or NoOffset
    position,    \* position[s]: next offset the owner will be handed
    members,     \* members[s]: the tasks whose consumer is in the group
    owner        \* owner[s]: the member the partition is assigned to

groupVars == <<logEnd, committed, position, members, owner>>

GroupTypeOK ==
    /\ logEnd \in [Sources -> 0 .. MaxOffset]
    /\ committed \in [Sources -> {NoOffset} \cup 0 .. MaxOffset]
    /\ position \in [Sources -> 0 .. MaxOffset]
    /\ members \in [Sources -> SUBSET Tasks]
    /\ owner \in [Sources -> Tasks \cup {NoTask}]

GroupInit ==
    /\ logEnd = [s \in Sources |-> 0]
    /\ committed = [s \in Sources |-> NoOffset]
    /\ position = [s \in Sources |-> 0]
    /\ members = [s \in Sources |-> {}]
    /\ owner = [s \in Sources |-> NoTask]

\* Where a consumer starts reading: the committed offset, else the reset policy.
StartAt(s, c) ==
    IF c # NoOffset THEN c ELSE IF Earliest THEN 0 ELSE logEnd[s]

\* What the group has committed once the current owner has flushed.
Flushed(s) == IF owner[s] # NoTask THEN position[s] ELSE committed[s]

\* The owner holds a position the group does not know yet.
Uncommitted(s) == owner[s] # NoTask /\ committed[s] # position[s]

Produce(s) ==
    /\ logEnd[s] < MaxOffset
    /\ logEnd' = [logEnd EXCEPT ![s] = @ + 1]
    /\ UNCHANGED <<committed, position, members, owner>>

Join(s, t) ==
    /\ members' = [members EXCEPT ![s] = @ \cup {t}]
    /\ UNCHANGED <<logEnd, committed, position, owner>>

\* A rebalance: the previous owner commits its position before it lets go.
Assign(s, t) ==
    /\ t \in members[s] /\ t # owner[s]
    /\ owner' = [owner EXCEPT ![s] = t]
    /\ committed' = [committed EXCEPT ![s] = Flushed(s)]
    /\ position' = [position EXCEPT ![s] = StartAt(s, Flushed(s))]
    /\ UNCHANGED <<logEnd, members>>

AutoCommit(s) ==
    /\ Uncommitted(s)
    /\ committed' = [committed EXCEPT ![s] = position[s]]
    /\ UNCHANGED <<logEnd, position, members, owner>>

\* consumer.stop(), or the eviction of a consumer that did not stop cleanly;
\* "flush" tells whether its last position reached the group.
Depart(s, t, flush) ==
    /\ members' = [members EXCEPT ![s] = @ \ {t}]
    /\ owner' = IF owner[s] = t THEN [owner EXCEPT ![s] = NoTask] ELSE owner
    /\ committed' = IF owner[s] = t /\ flush
                    THEN [committed EXCEPT ![s] = position[s]] ELSE committed
    /\ position' = IF owner[s] = t THEN [position EXCEPT ![s] = 0] ELSE position
    /\ UNCHANGED logEnd

\* The record at the owner's position is handed over.
Take(s) ==
    /\ position[s] < logEnd[s]
    /\ position' = [position EXCEPT ![s] = @ + 1]
    /\ UNCHANGED <<logEnd, committed, members, owner>>

\* The process that holds every consumer dies without flushing any of them.
LoseMembers ==
    /\ members' = [s \in Sources |-> {}]
    /\ owner' = [s \in Sources |-> NoTask]
    /\ position' = [s \in Sources |-> 0]
    /\ UNCHANGED <<logEnd, committed>>
=============================================================================
