---------------------------- MODULE MCCoalescer ----------------------------
(* A small instance of Coalescer: a leader, a waiter, and one too many; two *)
(* pipelines of one repository, and a key that is used for two revisions.   *)
EXTENDS Coalescer

CONSTANTS p1, p2, p3, r1, r2, repo1, k1, k2

Pay(r, n, k) == [ref |-> r, repo |-> repo1, rev |-> n, key |-> k]
MCPayloads == {Pay(r1, 1, k1), Pay(r1, 2, k1), Pay(r2, 1, k2)}
=============================================================================
