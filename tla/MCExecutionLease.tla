-------------------------- MODULE MCExecutionLease --------------------------
(* TLC instance of ExecutionLease and of its refinement of ThreadLease.    *)
EXTENDS ExecutionLeaseRefinement, TLC

MCSkews == {-1, 0, 1}
Symmetry == Permutations(Requests) \cup Permutations(Threads)
=============================================================================
