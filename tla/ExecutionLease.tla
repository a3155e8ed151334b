--------------------------- MODULE ExecutionLease ---------------------------
(***************************************************************************)
(* PostgresExecutionCoordinator (app/runtime/leases.py): the table         *)
(* execution_runs as the lease manager of the API replicas.  Every chat    *)
(* request claims a run of its conversation thread before it drives the    *)
(* agent graph, renews the lease from a background task, asks              *)
(* can_promote before it publishes results, and finishes the run.          *)
(*                                                                         *)
(* Each coordinator method is one transaction; claim serialises on         *)
(* advisory locks for the request and the thread and locks the rows it     *)
(* reads, so each method is one action.  The workspace is fixed: every     *)
(* query is restricted to one.  Rows are never deleted and                 *)
(* (workspace_id, request_id) is unique, so a run is named by its request. *)
(*                                                                         *)
(* Two clocks are involved: claim compares and writes the lease with the   *)
(* clock of the API host, heartbeat and can_promote use the database's     *)
(* now().  `now' is the database clock and a claim is made by a host whose *)
(* clock is off by some s in Skews.                                        *)
(***************************************************************************)
EXTENDS Integers

CONSTANTS
    Requests,   \* client request ids (the X-Request-ID / payload.request_id)
    Threads,    \* conversation threads (payload.session_id)
    NoThread,   \* the thread of a row that has not been inserted
    LeaseTime,  \* run_lease_seconds
    Skews,      \* host clock minus database clock, in ticks
    MaxTime,    \* bound: the database clock stops here
    MaxFence    \* bound: claims granted in one behaviour

ASSUME LeaseAssumption ==
    /\ NoThread \notin Threads
    /\ LeaseTime \in Nat \ {0}
    /\ Skews \subseteq Int
    /\ MaxTime \in Nat
    /\ MaxFence \in Nat

VARIABLES
    now,        \* the database clock
    runs,       \* execution_runs, one row per request
    sequence,   \* the identity sequence behind fence_token
    claims      \* (request, fence) pairs that live handlers act under

vars == <<now, runs, sequence, claims>>

ACTIVE_STATUSES == {"CLAIMED", "RUNNING"}
RECLAIMABLE_STATUSES == ACTIVE_STATUSES \cup {"FAILED", "RECOVERABLE"}
Statuses == RECLAIMABLE_STATUSES \cup {"WAITING_INTERRUPT", "COMPLETED"}

\* "NONE" is a row not inserted yet.  `answer' is the fence of the claim whose
\* response_json the row holds, 0 for NULL.  `expires' is meaningful for active
\* rows only: the code writes NULL when a row leaves them, here 0.
ExecutionRun ==
    [status : Statuses \cup {"NONE"}, thread : Threads \cup {NoThread},
     expires : Int, fence : Nat, answer : Nat]

Claims == [request : Requests, fence : Nat]

Init ==
    /\ now = 0
    /\ runs = [r \in Requests |-> [status |-> "NONE", thread |-> NoThread,
                                   expires |-> 0, fence |-> 0, answer |-> 0]]
    /\ sequence = 0
    /\ claims = {}

Active(r) == runs[r].status \in ACTIVE_STATUSES

ActiveOn(t) == {r \in Requests : Active(r) /\ runs[r].thread = t}

\* ORDER BY fence_token DESC LIMIT 1
LatestActive_ClaimedOnly(t) == {r \in ActiveOn(t) : runs[r].status = "CLAIMED"}
LatestActive(t) ==
    {r \in ActiveOn(t) : \A q \in ActiveOn(t) : runs[q].fence <= runs[r].fence}

\* lease_expires_at compared with the clock of the host that claims.
Expired_FromStart(r, clock) == runs[r].expires <= clock + LeaseTime
Expired(r, clock) == runs[r].expires <= clock

\* WHERE run_id = :run_id AND fence_token = :fence
FenceMatches_RunOnly(c) == TRUE
FenceMatches(c) == runs[c.request].fence = c.fence

\* The WHERE clause shared by heartbeat and can_promote.
Owns(c) == Active(c.request) /\ FenceMatches(c)

\* How the handler finishes a run, and which response it stores with it: a
\* failed run has none.
FinishStatuses == {"FAILED", "WAITING_INTERRUPT", "COMPLETED"}

Response_FinalOnly(c, status) == IF status = "COMPLETED" THEN c.fence ELSE 0
Response(c, status) == IF status = "FAILED" THEN 0 ELSE c.fence

-----------------------------------------------------------------------------

\* claim, when it grants the run: the request is not answered, it belongs to
\* this thread, and the thread's active run, if any, has expired by the
\* claimant's clock.  The expired run becomes RECOVERABLE; the claimed row is
\* inserted, or updated when it exists, under the next fence.  Every other
\* outcome (the stored response, RUN_ALREADY_CLAIMED) changes nothing.
Claim(r, t, s) ==
    /\ sequence < MaxFence
    /\ runs[r].thread \in {t, NoThread}
    /\ runs[r].answer = 0
    /\ \A q \in LatestActive(t) : Expired(q, now + s)
    /\ runs[r].status \in RECLAIMABLE_STATUSES \cup {"NONE"}
    /\ sequence' = sequence + 1
    /\ runs' = [q \in Requests |->
          IF q = r
          THEN [status |-> "RUNNING", thread |-> t, expires |-> now + s + LeaseTime,
                fence |-> sequence + 1, answer |-> 0]
          ELSE IF q \in LatestActive(t)
          THEN [runs[q] EXCEPT !.status = "RECOVERABLE", !.expires = 0]
          ELSE runs[q]]
    /\ claims' = claims \cup {[request |-> r, fence |-> sequence + 1]}
    /\ UNCHANGED now

\* heartbeat: extends the lease from the database clock.  It asks for the fence
\* and an active status, not for a lease that is still running.
Heartbeat(c) ==
    /\ c \in claims
    /\ Owns(c)
    /\ runs' = [runs EXCEPT ![c.request].expires = now + LeaseTime]
    /\ UNCHANGED <<now, sequence, claims>>

\* finish: matches the run and the fence, whatever the status, and the handler
\* is done with the claim.  FAILED is written without a response, the other
\* two with one.
Finish(c, status) ==
    /\ c \in claims
    /\ runs' = IF FenceMatches(c)
               THEN [runs EXCEPT ![c.request].status = status,
                                 ![c.request].expires = 0,
                                 ![c.request].answer = Response(c, status)]
               ELSE runs
    /\ claims' = claims \ {c}
    /\ UNCHANGED <<now, sequence>>

\* The handler ends without finish: the process dies, or the request is
\* cancelled (CancelledError is not an Exception).
Abandon(c) ==
    /\ c \in claims
    /\ claims' = claims \ {c}
    /\ UNCHANGED <<now, runs, sequence>>

Tick ==
    /\ now < MaxTime
    /\ now' = now + 1
    /\ UNCHANGED <<runs, sequence, claims>>

Next ==
    \/ \E r \in Requests, t \in Threads, s \in Skews : Claim(r, t, s)
    \/ \E c \in claims : Heartbeat(c)
    \/ \E c \in claims, status \in FinishStatuses : Finish(c, status)
    \/ \E c \in claims : Abandon(c)
    \/ Tick

Spec == Init /\ [][Next]_vars

\* can_promote: reads the row with the database clock.
CanPromote(c) == Owns(c) /\ runs[c.request].expires > now

-----------------------------------------------------------------------------

\* Types of the variables.
TypeOK ==
    /\ now \in Nat
    /\ runs \in [Requests -> ExecutionRun]
    /\ sequence \in Nat
    /\ claims \subseteq Claims

\* A thread has at most one active run.  claim retires only the active row with
\* the greatest fence, so this rests on every earlier claim having done so; the
\* partial unique index uq_execution_runs_active_thread is never what saves it.
SingleActiveRun ==
    \A t \in Threads : \A q, r \in ActiveOn(t) : q = r

\* Whoever passes can_promote holds the newest fence ever granted on its
\* thread: no handler that was overtaken, and no second handler of the same
\* run, can promote, whatever order claims, heartbeats and late finishes take.
PromoterIsNewest ==
    \A c, d \in claims :
        CanPromote(c) /\ runs[d.request].thread = runs[c.request].thread
            => d.fence <= c.fence

\* A stored response is final: a retry, a late finish of an overtaken handler or
\* a reclaim never replaces or removes it.
AnswerIsFinal ==
    [][\A r \in Requests : runs[r].answer # 0 => runs'[r] = runs[r]]_vars

\* A run without a response can always be taken again, so claim's last refusal
\* (status not in RECLAIMABLE_STATUSES) never strands a request.
UnansweredIsReclaimable ==
    \A r \in Requests :
        runs[r].status # "NONE" /\ runs[r].answer = 0
            => runs[r].status \in RECLAIMABLE_STATUSES

\* A handler that may promote stops being able to only by its own finish, by the
\* clock, or by a claim made when no more than the clock skew of its lease is
\* left: a live lease is never stolen.
LeaseOutlastsSkew ==
    [][\A c \in claims \cap claims' :
          CanPromote(c) /\ now' = now /\ ~CanPromote(c)'
              => \E s \in Skews : runs[c.request].expires <= now + s]_vars
=============================================================================
