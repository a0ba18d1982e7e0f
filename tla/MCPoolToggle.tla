---------------------------- MODULE MCPoolToggle ----------------------------
(* An upstream with two backends and one with one.                           *)
EXTENDS PoolToggle, TLC
CONSTANTS web, api, w1, w2, a1
MCPoolOf == [b \in Backends |-> IF b = a1 THEN api ELSE web]
\* Goroutines are interchangeable, and so are the two backends of one upstream.
Symmetry == Permutations(Procs) \cup Permutations(Backends \ {a1})
=============================================================================
