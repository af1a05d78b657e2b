--------------------------- MODULE MCToolCatalog ---------------------------
(* ToolCatalog on small instances.                                         *)
EXTENDS ToolCatalog

\* Values of one segment but for paths, some of them words of the routes.
MCValuesOf ==
    [bucket |-> {<<"b1">>, <<"sign">>}, path |-> {<<"k1">>, <<"d", "k1">>},
     source_id |-> {<<"s1">>, <<"dlq">>}, dlq_id |-> {<<"7">>}, run_id |-> {<<"r1">>}]

\* The tools of the data_retrieval skill, and no limit.
MCAllowlists ==
    {{}, {<<"get_schema_cards">>, <<"POST", "sql", "v1", "explain">>,
          <<"GET", "storage", "v1", "list", "bucket">>, <<"replay_retrieval_plan">>},
     {RemoteName("bars"), <<"GET", "v1", "streams">>}}
============================================================================
