---------------------------- MODULE MCStreamIngest ----------------------------
(* StreamIngest on small instances.                                           *)
EXTENDS StreamIngest, TLC

\* A webhook into a table and into objects, a websocket into objects with and without a prefix, and
\* bodies that are refused: no table, unsafe names, a foreign time column.
MCTable ==
    [transport |-> "webhook", kind |-> "postgres_table", target |-> TRUE, prefix |-> FALSE,
     safe |-> TRUE, hypertable |-> TRUE, time_column |-> "received_at"]

MCObjects ==
    [transport |-> "websocket", kind |-> "s3_object", target |-> TRUE, prefix |-> TRUE,
     safe |-> TRUE, hypertable |-> FALSE, time_column |-> "received_at"]

MCHookObjects == [MCObjects EXCEPT !.transport = "webhook"]

MCBodies ==
    {MCTable, MCObjects, MCHookObjects, [MCObjects EXCEPT !.prefix = FALSE],
     [MCTable EXCEPT !.target = FALSE], [MCTable EXCEPT !.safe = FALSE],
     [MCTable EXCEPT !.time_column = "another"]}

\* A webhook into objects without a prefix.
MCNoPrefix == {[MCHookObjects EXCEPT !.prefix = FALSE]}

Symmetry == Permutations(Replayers) \cup Permutations(Posts)
===============================================================================
