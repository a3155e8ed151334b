----------------------- MODULE MCLocalExecutionLease -----------------------
(* TLC instance of LocalExecutionLease.                                    *)
EXTENDS LocalExecutionLease, TLC

Symmetry == Permutations(Requests) \cup Permutations(Threads)
=============================================================================
