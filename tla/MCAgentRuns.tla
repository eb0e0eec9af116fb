---------------------------- MODULE MCAgentRuns ----------------------------
(* An instance of AgentRuns for TLC: two calls, one stream, two days. *)
EXTENDS AgentRuns
=============================================================================
