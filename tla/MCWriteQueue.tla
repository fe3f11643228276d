---------------------------- MODULE MCWriteQueue ----------------------------
(* Three calls, one of them of a job with two commits; two worker          *)
(* identities, so that a stale worker and its replacement can coexist.     *)
EXTENDS WriteQueue

CONSTANTS c1, c2, c3, w1, w2

MCCallers == {c1, c2, c3}
MCMultiCommit == {c3}
MCWorkers == {w1, w2}
=============================================================================
