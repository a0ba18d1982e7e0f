--------------------------- MODULE MCNonceReplay ---------------------------
(***************************************************************************)
(* A small instance of NonceReplay: a request that is delivered again and  *)
(* again, a forged one with its nonce, a later one whose handler sweeps    *)
(* the cache, and one without a nonce.  The margin is exact: with TTL = 4  *)
(* the first request is accepted twice.                                    *)
(***************************************************************************)
EXTENDS NonceReplay, TLC

CONSTANTS p1, p2, n1, n2

MCRequests == {[id |-> 1, ts |-> 3, nonce |-> n1, genuine |-> TRUE],
               [id |-> 2, ts |-> 3, nonce |-> n1, genuine |-> FALSE],
               [id |-> 3, ts |-> 6, nonce |-> n2, genuine |-> TRUE],
               [id |-> 4, ts |-> 4, nonce |-> EmptyNonce, genuine |-> TRUE]}

MCSymmetry == Permutations(Handlers)
=============================================================================
