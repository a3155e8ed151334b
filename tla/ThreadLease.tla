---------------------------- MODULE ThreadLease ----------------------------
(***************************************************************************)
(* What app/runtime/leases.py promises its callers, without clocks, rows   *)
(* or statuses: on every conversation thread at most one request owns the  *)
(* thread, ownership is granted under ever larger fencing tokens, and a    *)
(* request is answered at most once and never granted again afterwards.    *)
(* ExecutionLease implements it (ExecutionLeaseRefinement).                *)
(***************************************************************************)
EXTENDS Naturals

CONSTANTS Requests, Threads

VARIABLES
    issued,     \* the largest token granted so far
    token,      \* per request, the token of its last grant, 0 before the first
    owners,     \* per thread, the requests that own it
    answered    \* requests with a final answer

leaseVars == <<issued, token, owners, answered>>

LeaseInit ==
    /\ issued = 0
    /\ token = [r \in Requests |-> 0]
    /\ owners = [t \in Threads |-> {}]
    /\ answered = {}

\* r takes thread t, from its present owner if it has one.  A request stays on
\* one thread.
Grant(r, t) ==
    /\ r \notin answered
    /\ \A u \in Threads \ {t} : r \notin owners[u]
    /\ issued' \in Nat /\ issued' > issued
    /\ token' = [token EXCEPT ![r] = issued']
    /\ owners' = [owners EXCEPT ![t] = {r}]
    /\ UNCHANGED answered

\* The run of r ends, with an answer or without, and r owns no thread.  An
\* overtaken run may end too.
End(r) ==
    /\ r \notin answered
    /\ token[r] > 0
    /\ owners' = [t \in Threads |-> owners[t] \ {r}]
    /\ answered' \in {answered, answered \cup {r}}
    /\ UNCHANGED <<issued, token>>

LeaseNext ==
    \/ \E r \in Requests, t \in Threads : Grant(r, t)
    \/ \E r \in Requests : End(r)

LeaseSpec == LeaseInit /\ [][LeaseNext]_leaseVars
=============================================================================
