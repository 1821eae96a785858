-------------------------- MODULE MCAgentDeployment --------------------------
(* AgentDeployment on two overlapping workers and two runners. *)
EXTENDS AgentDeployment, TLC

DeploymentSymmetry == Permutations(Workers) \cup Permutations(Runners)
=============================================================================
