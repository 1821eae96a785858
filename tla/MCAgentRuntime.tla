---------------------------- MODULE MCAgentRuntime ----------------------------
(* AgentRuntime on two workers. *)
EXTENDS AgentRuntime

CONSTANTS w1, w2
=============================================================================
