---------------------------- MODULE MCTokenBucket ----------------------------
(* Small instances of TokenBucket, of either bucket. *)
EXTENDS TokenBucket, TLC

CONSTANTS c1, c2

Symmetry == Permutations({c1, c2})
=============================================================================
