--------------------------- MODULE ProviderCalls ---------------------------
(***************************************************************************)
(* Calls of outside providers (app/research/runtime.py) in one API         *)
(* process: BoundedProviderRuntime.execute with the budget of its research *)
(* run (BudgetGuard), the semaphore of the operation, the circuit breaker  *)
(* that all research runs of the process share (circuit_breaker.py), the   *)
(* rate limiter, the retries, the record of the tool run and what a        *)
(* restarted process rebuilds of it (ResearchService._runtime).            *)
(*                                                                         *)
(* A step runs from one suspension of the coroutine to the next.  The      *)
(* asyncio locks of the guard and the breaker are never held across an     *)
(* await, so reserving, asking the breaker and telling it the outcome      *)
(* suspend nothing.  One provider serves each operation: an operation is   *)
(* the key of its circuit.  Answers do not age out of the store within a   *)
(* run: their TTLs are hours, a run's max_runtime_seconds ten minutes.     *)
(***************************************************************************)
EXTENDS Integers, FiniteSets

CONSTANTS
    Calls,          \* slots for invocations of execute in progress
    Runs,           \* research runs
    Ops,            \* operations: enterprise_search, map, web_fetch ...
    Requests,       \* request hashes
    OpOf,           \* request -> its operation
    NoRun,          \* the run of an idle slot, of a request without a row
    NoRequest,      \* the request of an idle slot
    ToolCalls,      \* the budget's key of all operations together
    MaxToolCalls,   \* budget of a run over all operations
    OpLimit,        \* operation -> budget of a run
    Slots,          \* operation -> its semaphore's size in a run
    MaxRetries,     \* retries of a call
    Threshold,      \* failures that open a circuit
    ProbeCount,     \* calls a half-open circuit admits
    MaxRestarts     \* bound: restarts of the process

ASSUME ProviderAssumption ==
    /\ OpOf \in [Requests -> Ops]
    /\ NoRun \notin Runs /\ NoRequest \notin Requests
    /\ ToolCalls \notin Ops
    /\ {OpLimit, Slots} \subseteq [Ops -> Nat \ {0}]
    /\ {MaxToolCalls, Threshold, ProbeCount} \subseteq Nat \ {0}
    /\ {MaxRetries, MaxRestarts} \subseteq Nat

VARIABLES
    call,       \* slot -> the invocation of execute
    used,       \* run -> BudgetGuard.used
    late,       \* runs whose max_runtime_seconds have passed
    circuit,    \* operation -> its circuit
    answered,   \* requests with a SUCCESS among the tool runs in memory
    rows,       \* tool_runs: request -> its row, the hash is unique
    saved,      \* research_runs.used_budget: run -> amounts, zero until final
    made,       \* history: run -> operation -> provider calls started
    probes,     \* history: operation -> calls its half-open circuit admitted
    restarts    \* how often the process restarted

vars == <<call, used, late, circuit, answered, rows, saved, made, probes, restarts>>

Keys == Ops \cup {ToolCalls}
Pcs == {"idle", "queued", "limiter", "calling", "sleeping", "storing"}
Statuses == {"SUCCESS", "EMPTY", "FAILED"}

Call == [pc : Pcs, run : Runs \cup {NoRun}, request : Requests \cup {NoRequest},
         attempt : 0..MaxRetries, status : Statuses]
Circuit == [state : {"CLOSED", "OPEN", "HALF_OPEN"}, failures : 0..Threshold,
            inflight : 0..ProbeCount, due : BOOLEAN]
Row == [run : Runs \cup {NoRun}, attempts : 0..(MaxRetries + 1), success : BOOLEAN]

Idle == [pc |-> "idle", run |-> NoRun, request |-> NoRequest, attempt |-> 0,
         status |-> "FAILED"]
Closed == [state |-> "CLOSED", failures |-> 0, inflight |-> 0, due |-> FALSE]
NoRow == [run |-> NoRun, attempts |-> 0, success |-> FALSE]
Nothing == [k \in Keys |-> 0]

Init ==
    /\ call = [c \in Calls |-> Idle]
    /\ used = [r \in Runs |-> Nothing]
    /\ late = {}
    /\ circuit = [o \in Ops |-> Closed]
    /\ answered = {}
    /\ rows = [q \in Requests |-> NoRow]
    /\ saved = [r \in Runs |-> Nothing]
    /\ made = [r \in Runs |-> [o \in Ops |-> 0]]
    /\ probes = [o \in Ops |-> {}]
    /\ restarts = 0

At(c, pc) == call[c].pc = pc
OpIn(c) == OpOf[call[c].request]
\* Where an invocation holds the semaphore of its run and operation.
Holding == {"limiter", "calling", "sleeping"}
Holders(r, o) == {c \in Calls : call[c].pc \in Holding /\ call[c].run = r /\ OpIn(c) = o}

(***************************************************************************)
(* BudgetGuard and CircuitBreaker.                                         *)
(***************************************************************************)
\* Mutant: one call more than the limits.
CanReserve_AtLimit(r, o) ==
    r \notin late /\ used[r][ToolCalls] <= MaxToolCalls /\ used[r][o] <= OpLimit[o]

CanReserve(r, o) ==
    r \notin late /\ used[r][ToolCalls] < MaxToolCalls /\ used[r][o] < OpLimit[o]

Reserve(r, o) ==
    used' = [used EXCEPT ![r] =
                [k \in Keys |-> IF k \in {o, ToolCalls} THEN @[k] + 1 ELSE @[k]]]

\* allow, first part: an open circuit whose time has come is half open.
Aged(k) == IF k.state = "OPEN" /\ k.due
           THEN [k EXCEPT !.state = "HALF_OPEN", !.inflight = 0, !.due = FALSE] ELSE k

Allows(k) == \/ k.state = "CLOSED"
             \/ k.state = "HALF_OPEN" /\ k.inflight < ProbeCount

\* Mutant: the calls admitted to a half-open circuit are not counted.
Taken_NotCounted(k) == k

Taken(k) == IF k.state = "HALF_OPEN" THEN [k EXCEPT !.inflight = @ + 1] ELSE k

\* A failure gives a slot back, if any is taken.
Returned(n) == IF n > 0 THEN n - 1 ELSE 0

\* failures only matter below the threshold: they saturate there.
Failed(k) ==
    LET n == IF k.failures < Threshold THEN k.failures + 1 ELSE Threshold
        opens == k.state = "HALF_OPEN" \/ n = Threshold
    IN [state |-> IF opens THEN "OPEN" ELSE k.state, failures |-> n,
        inflight |-> Returned(k.inflight), due |-> FALSE]

(***************************************************************************)
(* save_tool_run ends an invocation: the tool run is in memory, and in the *)
(* table unless the table has one of its hash.  attempts is what a rebuilt *)
(* guard will count, retry_count + 1.                                      *)
(***************************************************************************)
EndWith(c, attempts, status) ==
    LET q == call[c].request
    IN /\ call' = [call EXCEPT ![c] = Idle]
       /\ answered' = IF status = "SUCCESS" THEN answered \cup {q} ELSE answered
       /\ rows' = IF rows[q] = NoRow
                  THEN [rows EXCEPT ![q] = [run |-> call[c].run, attempts |-> attempts,
                                            success |-> status = "SUCCESS"]]
                  ELSE rows
       /\ probes' = [o \in Ops |-> probes[o] \ {c}]

\* An attempt that never reached the provider leaves retry_count as it was.
EndRejected(c) ==
    EndWith(c, IF call[c].attempt = 0 THEN 1 ELSE call[c].attempt, "FAILED")

(***************************************************************************)
(* BoundedProviderRuntime.execute.                                         *)
(***************************************************************************)
\* The lookup found no answer; an invocation that finds one changes nothing.
Execute(c, r, q) ==
    /\ At(c, "idle")
    /\ q \notin answered
    /\ call' = [call EXCEPT ![c] = [pc |-> "queued", run |-> r, request |-> q,
                                    attempt |-> 0, status |-> "FAILED"]]
    /\ UNCHANGED <<used, late, circuit, answered, rows, saved, made, probes, restarts>>

\* The next attempt: the semaphore was acquired or the backoff has passed.
Ready(c) ==
    \/ At(c, "sleeping")
    \/ At(c, "queued") /\ Cardinality(Holders(call[c].run, OpIn(c))) < Slots[OpIn(c)]

\* Mutant: waits for budget instead of giving up.
Blocked_Waits(c) ==
    /\ Ready(c) /\ ~CanReserve(call[c].run, OpIn(c))
    /\ call' = [call EXCEPT ![c].pc = "sleeping"]
    /\ UNCHANGED <<used, late, circuit, answered, rows, saved, made, probes, restarts>>

\* The budget is used up, or the run's time is over.
Blocked(c) ==
    /\ Ready(c) /\ ~CanReserve(call[c].run, OpIn(c))
    /\ EndRejected(c)
    /\ UNCHANGED <<used, late, circuit, saved, made, restarts>>

Refused(c) ==
    LET r == call[c].run  o == OpIn(c) IN
    /\ Ready(c) /\ CanReserve(r, o)
    /\ ~Allows(Aged(circuit[o]))
    /\ Reserve(r, o)
    /\ circuit' = [circuit EXCEPT ![o] = Aged(@)]
    /\ EndRejected(c)
    /\ UNCHANGED <<late, saved, made, restarts>>

Admitted(c) ==
    LET r == call[c].run  o == OpIn(c)  k == Aged(circuit[o]) IN
    /\ Ready(c) /\ CanReserve(r, o)
    /\ Allows(k)
    /\ Reserve(r, o)
    /\ circuit' = [circuit EXCEPT ![o] = Taken(k)]
    /\ call' = [call EXCEPT ![c].pc = "limiter"]
    /\ probes' = [probes EXCEPT ![o] =
                    (IF k # circuit[o] THEN {} ELSE @)
                    \cup (IF k.state = "HALF_OPEN" THEN {c} ELSE {})]
    /\ UNCHANGED <<late, answered, rows, saved, made, restarts>>

\* The rate limiter's answer, from Redis or its fallback.
LimiterAllows(c) ==
    /\ At(c, "limiter")
    /\ call' = [call EXCEPT ![c].pc = "calling"]
    /\ made' = [made EXCEPT ![call[c].run][OpIn(c)] = @ + 1]
    /\ UNCHANGED <<used, late, circuit, answered, rows, saved, probes, restarts>>

LimiterRejects(c) ==
    /\ At(c, "limiter")
    /\ EndRejected(c)
    /\ UNCHANGED <<used, late, circuit, saved, made, restarts>>

\* The answer is written to the shared cache, the semaphore is released.
Succeed(c, status) ==
    /\ At(c, "calling")
    /\ circuit' = [circuit EXCEPT ![OpIn(c)] = Closed]
    /\ call' = [call EXCEPT ![c].pc = "storing", ![c].status = status]
    /\ probes' = [probes EXCEPT ![OpIn(c)] = {}]
    /\ UNCHANGED <<used, late, answered, rows, saved, made, restarts>>

Store(c) ==
    /\ At(c, "storing")
    /\ EndWith(c, call[c].attempt + 1, call[c].status)
    /\ UNCHANGED <<used, late, circuit, saved, made, restarts>>

\* Any other status than 429, 502 and 503, or an answer that is not JSON.
Fail(c) ==
    /\ At(c, "calling")
    /\ EndWith(c, call[c].attempt + 1, "FAILED")
    /\ UNCHANGED <<used, late, circuit, saved, made, restarts>>

\* A timeout, a network error or one of those statuses.
FailRetryable(c) ==
    /\ At(c, "calling")
    /\ circuit' = [circuit EXCEPT ![OpIn(c)] = Failed(@)]
    /\ IF call[c].attempt < MaxRetries
       THEN /\ call' = [call EXCEPT ![c].pc = "sleeping", ![c].attempt = @ + 1]
            /\ probes' = [o \in Ops |-> probes[o] \ {c}]
            /\ UNCHANGED <<answered, rows>>
       ELSE EndWith(c, call[c].attempt + 1, "FAILED")
    /\ UNCHANGED <<used, late, saved, made, restarts>>

\* Cancelled with a sibling of the same superstep that raised, or raising itself.
Cancel(c) ==
    /\ ~At(c, "idle")
    /\ call' = [call EXCEPT ![c] = Idle]
    /\ probes' = [o \in Ops |-> probes[o] \ {c}]
    /\ UNCHANGED <<used, late, circuit, answered, rows, saved, made, restarts>>

\* open_seconds have passed since the circuit opened.
Elapse(o) ==
    /\ circuit[o].state = "OPEN" /\ ~circuit[o].due
    /\ circuit' = [circuit EXCEPT ![o].due = TRUE]
    /\ UNCHANGED <<call, used, late, answered, rows, saved, made, probes, restarts>>

\* max_runtime_seconds have passed since the guard was made.
RunOut(r) ==
    /\ r \notin late
    /\ late' = late \cup {r}
    /\ UNCHANGED <<call, used, circuit, answered, rows, saved, made, probes, restarts>>

\* finalize saves the run with its budget once the batches have joined; the
\* verification of its candidates goes on calling.
Finalize(r) ==
    /\ saved[r] = Nothing
    /\ \A c \in Calls : call[c].run # r
    /\ saved' = [saved EXCEPT ![r] = used[r]]
    /\ UNCHANGED <<call, used, late, circuit, answered, rows, made, probes, restarts>>

\* _runtime: the saved budget if there is one, else what the tool runs tell: the
\* attempts of the run's rows, one by one, of an operation or of all.
Attempts(r, requests) ==
    UNION {{q} \X (1..rows[q].attempts) : q \in {x \in requests : rows[x].run = r}}
Rebuilt(r) ==
    IF saved[r] # Nothing THEN saved[r]
    ELSE [k \in Keys |-> Cardinality(Attempts(r,
             IF k = ToolCalls THEN Requests ELSE {q \in Requests : OpOf[q] = k}))]

Restart ==
    /\ restarts < MaxRestarts
    /\ restarts' = restarts + 1
    /\ call' = [c \in Calls |-> Idle]
    /\ used' = [r \in Runs |-> Rebuilt(r)]
    /\ late' = {}
    /\ circuit' = [o \in Ops |-> Closed]
    /\ answered' = {q \in Requests : rows[q].success}
    /\ probes' = [o \in Ops |-> {}]
    /\ UNCHANGED <<rows, saved, made>>

Step(c) ==
    \/ \E r \in Runs, q \in Requests : Execute(c, r, q)
    \/ Blocked(c) \/ Refused(c) \/ Admitted(c)
    \/ LimiterAllows(c) \/ LimiterRejects(c)
    \/ \E status \in {"SUCCESS", "EMPTY"} : Succeed(c, status)
    \/ Store(c) \/ Fail(c) \/ FailRetryable(c) \/ Cancel(c)

Next == \/ \E c \in Calls : Step(c)
        \/ \E o \in Ops : Elapse(o)
        \/ \E r \in Runs : RunOut(r) \/ Finalize(r)
        \/ Restart

Spec == Init /\ [][Next]_vars

\* Every await ends: the limiter and the provider by their timeouts, the backoff
\* by its delay, and a semaphore wakes those who wait for it in their order.
Fairness ==
    \A c \in Calls :
        /\ SF_vars(Blocked(c) \/ Refused(c) \/ Admitted(c))
        /\ WF_vars(LimiterAllows(c) \/ LimiterRejects(c))
        /\ WF_vars(Fail(c) \/ FailRetryable(c) \/ \E s \in {"SUCCESS", "EMPTY"} : Succeed(c, s))
        /\ WF_vars(Store(c))

FairSpec == Spec /\ Fairness

(***************************************************************************)
(* Properties.                                                             *)
(***************************************************************************)
\* The variables keep their types.
TypeOK ==
    /\ call \in [Calls -> Call]
    /\ used \in [Runs -> [Keys -> Nat]]
    /\ late \subseteq Runs
    /\ circuit \in [Ops -> Circuit]
    /\ answered \subseteq Requests
    /\ rows \in [Requests -> Row]
    /\ saved \in [Runs -> [Keys -> Nat]]
    /\ made \in [Runs -> [Ops -> Nat]]
    /\ probes \in [Ops -> SUBSET Calls]
    /\ restarts \in 0..MaxRestarts

\* The calls a run has made, each by its operation and its number.
CallsMade(r) == UNION {{o} \X (1..made[r][o]) : o \in Ops}
MadeBy(r) == Cardinality(CallsMade(r))

\* However its calls are interleaved, retried, cancelled and refused, a run never
\* makes more provider calls than its budget, nor more of an operation than its
\* limit, in the life of one process: BudgetGuard.reserve precedes every call.  A
\* restarted process may spend the budget again.
CallsWithinBudget ==
    \A r \in Runs :
        /\ MadeBy(r) <= (restarts + 1) * MaxToolCalls
        /\ \A o \in Ops : made[r][o] <= (restarts + 1) * OpLimit[o]

\* Of the calls under way, whichever run they belong to, a half-open circuit has
\* admitted no more than half_open_probe_count since it became half open.
HalfOpenAdmitsFew == \A o \in Ops : Cardinality(probes[o]) <= ProbeCount

\* Every invocation of execute ends: neither the semaphores nor the retries nor
\* a circuit that stays open keeps one forever.
EveryCallEnds == \A c \in Calls : ~At(c, "idle") ~> At(c, "idle")

\* A slot of a half-open circuit is taken by a probe that is still under way.
\* Otherwise allow refuses without anything to wait for.
ProbeSlotsInUse ==
    \A o \in Ops : circuit[o].state = "HALF_OPEN" => circuit[o].inflight <= Cardinality(probes[o])

\* What the process would reuse instead of calling again, a restarted process
\* would reuse, too: a success is not behind the row of an earlier failure.
AnswerIsDurable == \A q \in answered : rows[q].success

\* A run's calls stay within its budget when the process restarts: the rebuilt
\* guard counts all that was spent.
BudgetOutlivesProcess == \A r \in Runs : MadeBy(r) <= MaxToolCalls
=============================================================================
