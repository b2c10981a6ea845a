-------------------------- MODULE MCAgentExecutor --------------------------
(* Instances of AgentExecutor for TLC: the tasks t1 and t2 send the same   *)
(* command, x1 the same identifiers with another payload.                  *)
EXTENDS AgentExecutor, TLC

CONSTANTS t1, t2, x1, k1, good, failure, unfit

MCKeyOf == [c \in Calls |-> k1]
MCPrintOf == [c \in Calls |-> IF c = x1 THEN "changed" ELSE "original"]
MCFlowOf == [r \in Results |-> k1]
=============================================================================
