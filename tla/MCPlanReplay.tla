--------------------------- MODULE MCPlanReplay ----------------------------
(* PlanReplay on small instances: two tables that share a column.          *)
EXTENDS PlanReplay, TLC

CONSTANTS t1, t2, k1

MCTables == {t1, t2}
MCColumnsOf == (t1 :> {"id", "name"}) @@ (t2 :> {"id", "price"})

\* Every kind of plan: none at all, one operation, reads of two tables, a
\* statement between reads, two statements, objects alone and mixed in.
MCPlans == {
    <<>>, <<Get(k1)>>, <<Select(t1)>>,
    <<Select(t1), Write(t1), Select(t1)>>,
    <<Write(t1), Write(t1), Select(t1)>>,
    <<Write(t2), Get(k1)>>,
    <<Get(k1), Get(k1)>>,
    <<Select(t1), Get(k1), Select(t1)>> }

\* Plans whose operations return different columns.
MCMixedPlans == {<<Select(t1), Select(t2)>>}
============================================================================
