------------------------- MODULE MCDeploymentWakeups -------------------------
(* DeploymentWakeups on two overlapping invocations. *)
EXTENDS DeploymentWakeups

CONSTANTS p1, p2
=============================================================================
