-------------------------- MODULE MCRunnerLaunches --------------------------
(* RunnerLaunches on three overlapping calls and two config revisions. *)
EXTENDS RunnerLaunches, TLC

CallSymmetry == Permutations(Calls) \cup Permutations(Targets)
=============================================================================
