------------------------- MODULE MCRunnerReplacement -------------------------
(* RunnerReplacement on two workers and two agents. *)
EXTENDS RunnerReplacement

CONSTANTS w1, w2, a1, a2
=============================================================================
