-------------------------- MODULE MCRunnerTeardown --------------------------
(* Small instances of RunnerTeardown: a shell with one or two children.      *)
EXTENDS RunnerTeardown

CONSTANTS sh, c1, c2
=============================================================================
