---------------------- MODULE ExecutionLeaseRefinement ----------------------
(***************************************************************************)
(* ExecutionLease implements ThreadLease: the rows of execution_runs read  *)
(* as ownership of threads, fences as tokens, stored responses as answers. *)
(***************************************************************************)
EXTENDS ExecutionLease

Abstract == INSTANCE ThreadLease WITH
    issued <- sequence,
    token <- [r \in Requests |-> runs[r].fence],
    owners <- [t \in Threads |-> ActiveOn(t)],
    answered <- {r \in Requests : runs[r].answer # 0}

\* Every claim, heartbeat, finish, crash and tick of the coordinator is a grant
\* or an end of the abstract lease, or leaves it alone.
ImplementsThreadLease == Abstract!LeaseSpec
=============================================================================
