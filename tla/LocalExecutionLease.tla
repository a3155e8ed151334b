------------------------ MODULE LocalExecutionLease ------------------------
(***************************************************************************)
(* InMemoryExecutionCoordinator (app/runtime/leases.py), the coordinator   *)
(* of a process that runs without Postgres.  It keeps the runs and, per    *)
(* thread, a pointer to the active run and a fence counter of its own.     *)
(* Every method holds one asyncio.Lock, so every method is one action, and *)
(* there is one clock.                                                     *)
(*                                                                         *)
(* Unlike the Postgres coordinator (ExecutionLease) it finds the active    *)
(* run through the pointer, and finish clears the pointer of the thread    *)
(* whichever run it points at.                                             *)
(***************************************************************************)
EXTENDS Naturals

CONSTANTS
    Requests,   \* client request ids
    Threads,    \* conversation threads
    NoThread,   \* the thread of a run that does not exist
    NoRequest,  \* _active.get(key) is None
    LeaseTime,  \* run_lease_seconds
    MaxTime,    \* bound: the clock stops here
    MaxFence    \* bound: claims granted per thread

ASSUME LocalLeaseAssumption ==
    /\ NoThread \notin Threads
    /\ NoRequest \notin Requests
    /\ LeaseTime \in Nat \ {0}
    /\ MaxTime \in Nat
    /\ MaxFence \in Nat

VARIABLES
    now,        \* datetime.now(UTC)
    runs,       \* _runs and _requests: a run is named by its request
    active,     \* _active: thread -> request of the run it points at
    fences,     \* _fences: thread -> last fence handed out
    claims      \* (request, fence) pairs that live handlers act under

vars == <<now, runs, active, fences, claims>>

ACTIVE_STATUSES == {"CLAIMED", "RUNNING"}
RECLAIMABLE_STATUSES == ACTIVE_STATUSES \cup {"FAILED", "RECOVERABLE"}
Statuses == RECLAIMABLE_STATUSES \cup {"WAITING_INTERRUPT", "COMPLETED"}
FinishStatuses == {"FAILED", "WAITING_INTERRUPT", "COMPLETED"}

\* `answer' is the fence of the claim whose response_data the run holds.
ExecutionRun ==
    [status : Statuses \cup {"NONE"}, thread : Threads \cup {NoThread},
     expires : Nat, fence : Nat, answer : Nat]

Claims == [request : Requests, fence : Nat]

Init ==
    /\ now = 0
    /\ runs = [r \in Requests |-> [status |-> "NONE", thread |-> NoThread,
                                   expires |-> 0, fence |-> 0, answer |-> 0]]
    /\ active = [t \in Threads |-> NoRequest]
    /\ fences = [t \in Threads |-> 0]
    /\ claims = {}

IsActive(r) == runs[r].status \in ACTIVE_STATUSES

\* The run the thread's pointer finds, if it is still active.
Current(t) == {r \in Requests : r = active[t] /\ IsActive(r)}

FenceMatches_RunOnly(c) == TRUE
FenceMatches(c) == runs[c.request].fence = c.fence

Expired(r) == runs[r].expires <= now

\* The runs with the expired active run of t made RECOVERABLE.
Retired(t) ==
    [q \in Requests |-> IF q \in Current(t)
                        THEN [runs[q] EXCEPT !.status = "RECOVERABLE"] ELSE runs[q]]

-----------------------------------------------------------------------------

\* claim, when it grants the run.
Claim(r, t) ==
    /\ fences[t] < MaxFence
    /\ runs[r].answer = 0
    /\ \A q \in Current(t) : Expired(q)
    /\ runs[r].status # "NONE" =>
          runs[r].thread = t /\ runs[r].status \in RECLAIMABLE_STATUSES
    /\ fences' = [fences EXCEPT ![t] = @ + 1]
    /\ runs' = [Retired(t) EXCEPT ![r] =
                   [status |-> "RUNNING", thread |-> t, expires |-> now + LeaseTime,
                    fence |-> fences[t] + 1, answer |-> 0]]
    /\ active' = [active EXCEPT ![t] = r]
    /\ claims' = claims \cup {[request |-> r, fence |-> fences[t] + 1]}
    /\ UNCHANGED now

\* claim, when it raises after it has retired the expired run: the request
\* belongs to another thread or is not reclaimable.  The retired run stays
\* RECOVERABLE.  Every other refusal changes nothing.
ClaimRefused(r, t) ==
    /\ runs[r].answer = 0
    /\ Current(t) # {} /\ \A q \in Current(t) : Expired(q)
    /\ runs[r].status # "NONE"
    /\ runs[r].thread # t \/ runs[r].status \notin RECLAIMABLE_STATUSES
    /\ runs' = Retired(t)
    /\ UNCHANGED <<now, active, fences, claims>>

Heartbeat(c) ==
    /\ c \in claims
    /\ FenceMatches(c) /\ IsActive(c.request)
    /\ runs' = [runs EXCEPT ![c.request].expires = now + LeaseTime]
    /\ UNCHANGED <<now, active, fences, claims>>

\* finish: matches the fence, whatever the status, and clears the pointer of the
\* run's thread without asking which run it points at.
Finish(c, status) ==
    /\ c \in claims
    /\ IF FenceMatches(c)
       THEN /\ runs' = [runs EXCEPT ![c.request].status = status,
                                    ![c.request].expires = 0,
                                    ![c.request].answer =
                                        IF status = "FAILED" THEN 0 ELSE c.fence]
            /\ active' = [active EXCEPT ![runs[c.request].thread] = NoRequest]
       ELSE UNCHANGED <<runs, active>>
    /\ claims' = claims \ {c}
    /\ UNCHANGED <<now, fences>>

\* The handler is cancelled before it can finish.
Abandon(c) ==
    /\ c \in claims
    /\ claims' = claims \ {c}
    /\ UNCHANGED <<now, runs, active, fences>>

Tick ==
    /\ now < MaxTime
    /\ now' = now + 1
    /\ UNCHANGED <<runs, active, fences, claims>>

Next ==
    \/ \E r \in Requests, t \in Threads : Claim(r, t) \/ ClaimRefused(r, t)
    \/ \E c \in claims : Heartbeat(c)
    \/ \E c \in claims, status \in FinishStatuses : Finish(c, status)
    \/ \E c \in claims : Abandon(c)
    \/ Tick

Spec == Init /\ [][Next]_vars

\* can_promote and can_promote_cached: the pointer, the fence and the status,
\* but not the expiry that the Postgres coordinator also asks for.
CanPromote(c) ==
    /\ active[runs[c.request].thread] = c.request
    /\ FenceMatches(c)
    /\ IsActive(c.request)

-----------------------------------------------------------------------------

\* Types of the variables.
TypeOK ==
    /\ now \in Nat
    /\ runs \in [Requests -> ExecutionRun]
    /\ active \in [Threads -> Requests \cup {NoRequest}]
    /\ fences \in [Threads -> Nat]
    /\ claims \subseteq Claims

\* Even when the pointer has been cleared under a running handler, whoever
\* passes can_promote holds the newest fence of its thread.
PromoterIsNewest ==
    \A c, d \in claims :
        CanPromote(c) /\ runs[d.request].thread = runs[c.request].thread
            => d.fence <= c.fence

\* A stored response is final.
AnswerIsFinal ==
    [][\A r \in Requests : runs[r].answer # 0 => runs'[r] = runs[r]]_vars

\* tests/runtime/test_leases.py:10, "concurrent claims allow one active lease":
\* a thread has at most one active run whose lease has not expired.  The code
\* breaks it: an overtaken handler's finish clears the pointer of the run that
\* overtook it, and the next claim does not see that run.
OneActiveLease ==
    \A t \in Threads : \A q, r \in Requests :
        /\ IsActive(q) /\ runs[q].thread = t /\ runs[q].expires > now
        /\ IsActive(r) /\ runs[r].thread = t /\ runs[r].expires > now
        => q = r
=============================================================================
