--------------------------- MODULE MCRunnerLoop ---------------------------
(* RunnerLoop for TLC: two commands. *)
EXTENDS RunnerLoop
=============================================================================
