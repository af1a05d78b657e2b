------------------------------ MODULE MCAgentRun ------------------------------
(* AgentRun on small instances: a retrieval, one whose request leaves out the *)
(* tool the skill requires, a restricted run without a skill, a bad request.  *)
EXTENDS AgentRun

CONSTANTS cards, probe, remote_q

MCBodies ==
    {[skill |-> "data_retrieval", tools |-> {}],
     [skill |-> "data_retrieval", tools |-> {cards, probe}],
     [skill |-> "none", tools |-> {probe, remote_q}],
     [skill |-> "unknown", tools |-> {}]}
===============================================================================
