----------------------------- MODULE MCAgentRun -----------------------------
(* Constants for TLC: every request the evidence compiler can produce, and  *)
(* two provider calls of planner and evaluator, one more than is expected.  *)
EXTENDS AgentRun

MCRequests == {r \in RequestRecord : Coherent(r)}

MCLimits == {0, 1}
=============================================================================
