------------------------ MODULE ProviderCallsProofs ------------------------
(***************************************************************************)
(* Two results about app/research/runtime.py, for every number of calls,   *)
(* runs, operations and probes.                                            *)
(*                                                                         *)
(* The half-open circuit of circuit_breaker.py as execute drives it: the   *)
(* calls it has admitted never exceed half_open_probe_count.  inflight     *)
(* alone does not say so: a failure gives back a slot whether or not its   *)
(* call had taken one, and a cancelled call gives nothing back.  The       *)
(* inductive invariant is IInv: while the circuit is half open the probes  *)
(* under way are covered by inflight, and no change of state adds to them. *)
(*                                                                         *)
(* The budget of a run: its calls stay within it in one life of the        *)
(* process.  A reservation becomes a call only behind an await (the        *)
(* limiter's answer), so the inductive invariant BInv counts the calls     *)
(* that wait there with those made.                                        *)
(***************************************************************************)
EXTENDS ProviderCalls, FiniteSetTheorems, TLAPS

\* The probes of one circuit are few, and covered while it is half open.
Covered(k, p) ==
    /\ IsFiniteSet(p)
    /\ Cardinality(p) <= ProbeCount
    /\ k.state = "HALF_OPEN" => Cardinality(p) <= k.inflight

IInv ==
    /\ circuit \in [Ops -> Circuit]
    /\ probes \in [Ops -> SUBSET Calls]
    /\ \A o \in Ops : Covered(circuit[o], probes[o])

-----------------------------------------------------------------------------

LEMMA InitLemma == Init => IInv
<1> SUFFICES ASSUME Init PROVE IInv
    OBVIOUS
<1>1. circuit = [o \in Ops |-> Closed] /\ probes = [o \in Ops |-> {}]
    BY DEF Init
<1>2. Closed \in Circuit /\ ProbeCount \in Nat
    BY ProviderAssumption DEF Closed, Circuit
<1>3. IsFiniteSet({}) /\ Cardinality({}) = 0
    BY FS_EmptySet
<1>4. QED
    BY <1>1, <1>2, <1>3 DEF IInv, Covered, Closed

\* A call that ends takes its place among the probes with it.
LEMMA CoveredWithout ==
    ASSUME NEW k \in Circuit, NEW p, NEW c, Covered(k, p)
    PROVE  Covered(k, p \ {c}) /\ Cardinality(p \ {c}) <= Cardinality(p)
<1>1. IsFiniteSet(p \ {c}) /\ Cardinality(p) \in Nat
    BY FS_RemoveElement, FS_CardinalityType DEF Covered
<1>2. Cardinality(p \ {c}) = IF c \in p THEN Cardinality(p) - 1 ELSE Cardinality(p)
    BY FS_RemoveElement DEF Covered
<1>3. Cardinality(p \ {c}) <= Cardinality(p)
    BY <1>1, <1>2
<1>4. Cardinality(p \ {c}) \in Nat /\ k.inflight \in Nat /\ ProbeCount \in Nat
    BY <1>1, FS_CardinalityType, ProviderAssumption DEF Circuit
<1>5. QED
    BY <1>1, <1>3, <1>4 DEF Covered

\* allow turns an open circuit half open, and changes nothing else.
LEMMA AgedLemma ==
    ASSUME NEW k \in Circuit
    PROVE  /\ Aged(k) \in Circuit
           /\ Aged(k) # k => /\ Aged(k).state = "HALF_OPEN" /\ Aged(k).inflight = 0
<1>1. CASE k.state = "OPEN" /\ k.due
    <2>1. Aged(k) = [k EXCEPT !.state = "HALF_OPEN", !.inflight = 0, !.due = FALSE]
        BY <1>1 DEF Aged
    <2>2. Aged(k) = [state |-> "HALF_OPEN", failures |-> k.failures, inflight |-> 0,
                     due |-> FALSE]
        BY <2>1 DEF Circuit
    <2>3. QED
        BY <2>2, ProviderAssumption DEF Circuit
<1>2. CASE ~(k.state = "OPEN" /\ k.due)
    <2>1. Aged(k) = k
        BY <1>2 DEF Aged
    <2>2. QED
        BY <2>1
<1>3. QED
    BY <1>1, <1>2

\* A half-open circuit admits a call and counts it.
LEMMA AdmittedLemma ==
    ASSUME NEW k \in Circuit, NEW p, NEW c, Covered(k, p), Allows(Aged(k))
    PROVE  /\ Taken(Aged(k)) \in Circuit
           /\ Covered(Taken(Aged(k)),
                      (IF Aged(k) # k THEN {} ELSE p)
                      \cup (IF Aged(k).state = "HALF_OPEN" THEN {c} ELSE {}))
<1>1. /\ ProbeCount \in Nat /\ ProbeCount > 0
      /\ Aged(k) \in Circuit
    BY ProviderAssumption, AgedLemma
<1>2. CASE Aged(k) # k
    <2>1. Aged(k).state = "HALF_OPEN" /\ Aged(k).inflight = 0
        BY <1>2, AgedLemma
    <2>2. Taken(Aged(k)) \in Circuit /\ Taken(Aged(k)).inflight = 1
        BY <1>1, <2>1 DEF Taken, Circuit
    <2>3. IsFiniteSet({c}) /\ Cardinality({c}) = 1
        BY FS_Singleton
    <2>4. QED
        BY <1>1, <1>2, <2>1, <2>2, <2>3 DEF Covered
<1>3. CASE Aged(k) = k /\ k.state = "HALF_OPEN"
    <2>1. k.inflight \in Nat /\ k.inflight < ProbeCount
        BY <1>3 DEF Allows, Circuit
    <2>2. Taken(k) \in Circuit /\ Taken(k).inflight = k.inflight + 1
        BY <1>1, <1>3, <2>1 DEF Taken, Circuit
    <2>3. /\ IsFiniteSet(p \cup {c}) /\ Cardinality(p) \in Nat
          /\ Cardinality(p \cup {c}) = IF c \in p THEN Cardinality(p) ELSE Cardinality(p) + 1
        BY FS_AddElement, FS_CardinalityType DEF Covered
    <2>4. Cardinality(p) <= k.inflight
        BY <1>3 DEF Covered
    <2>5. Cardinality(p \cup {c}) <= k.inflight + 1
        BY <2>1, <2>3, <2>4
    <2>6. Cardinality(p \cup {c}) <= ProbeCount
        BY <1>1, <2>1, <2>3, <2>5
    <2>7. QED
        BY <1>3, <2>2, <2>3, <2>5, <2>6 DEF Covered
<1>4. CASE Aged(k) = k /\ k.state # "HALF_OPEN"
    <2>1. Taken(Aged(k)) = k
        BY <1>4 DEF Taken
    <2>2. (IF Aged(k) # k THEN {} ELSE p)
             \cup (IF Aged(k).state = "HALF_OPEN" THEN {c} ELSE {}) = p
        BY <1>4
    <2>3. QED
        BY <2>1, <2>2
<1>5. QED
    BY <1>2, <1>3, <1>4

\* A failure leaves a half-open circuit open, so nothing is asked of its inflight.
LEMMA FailedLemma ==
    ASSUME NEW k \in Circuit
    PROVE  Failed(k) \in Circuit /\ Failed(k).state # "HALF_OPEN"
<1>1. /\ ProbeCount \in Nat /\ Threshold \in Nat
      /\ k.failures \in 0..Threshold /\ k.inflight \in 0..ProbeCount
      /\ k.state \in {"CLOSED", "OPEN", "HALF_OPEN"}
    BY ProviderAssumption DEF Circuit
<1>2. Returned(k.inflight) \in 0..ProbeCount
    BY <1>1 DEF Returned
<1>3. QED
    BY <1>1, <1>2 DEF Failed, Circuit

\* Every step that leaves the circuits alone and adds no probe.
LEMMA QuietLemma ==
    ASSUME IInv, UNCHANGED circuit, NEW c,
           \/ UNCHANGED probes
           \/ probes' = [o \in Ops |-> probes[o] \ {c}]
    PROVE  IInv'
<1>1. CASE UNCHANGED probes
    BY <1>1 DEF IInv, Covered
<1>2. CASE probes' = [o \in Ops |-> probes[o] \ {c}]
    <2>1. probes' \in [Ops -> SUBSET Calls]
        BY <1>2 DEF IInv
    <2>2. \A o \in Ops : Covered(circuit[o], probes'[o])
        BY <1>2, CoveredWithout DEF IInv
    <2>3. QED
        BY <2>1, <2>2 DEF IInv, Covered
<1>3. QED
    BY <1>1, <1>2

\* What an invocation does to the circuits and their probes.
LEMMA StepLemma ==
    ASSUME IInv, NEW c \in Calls, Step(c)
    PROVE  IInv'
<1>1. CASE \E r \in Runs, q \in Requests : Execute(c, r, q)
    <2>1. UNCHANGED <<circuit, probes>>
        BY <1>1 DEF Execute
    <2>2. QED
        BY <2>1, QuietLemma
<1>2. CASE Blocked(c) \/ LimiterRejects(c) \/ Store(c) \/ Fail(c)
    <2>1. UNCHANGED circuit /\ probes' = [o \in Ops |-> probes[o] \ {c}]
        BY <1>2 DEF Blocked, LimiterRejects, Store, Fail, EndRejected, EndWith
    <2>2. QED
        BY <2>1, QuietLemma
<1>3. CASE Refused(c)
    <2>1. PICK o : /\ o = OpIn(c) /\ ~Allows(Aged(circuit[o]))
                   /\ circuit' = [circuit EXCEPT ![o] = Aged(@)]
                   /\ probes' = [p \in Ops |-> probes[p] \ {c}]
        BY <1>3 DEF Refused, EndRejected, EndWith
    <2>2. o \in Ops => Aged(circuit[o]) = circuit[o]
        <3>1. o \in Ops => circuit[o] \in Circuit
            BY DEF IInv
        <3>2. QED
            BY <2>1, <3>1, AgedLemma, ProviderAssumption DEF Allows
    <2>3. circuit' = circuit
        BY <2>1, <2>2 DEF IInv
    <2>4. QED
        BY <2>1, <2>3, QuietLemma
<1>4. CASE Admitted(c)
    <2>1. PICK o : /\ o = OpIn(c) /\ Allows(Aged(circuit[o]))
                   /\ circuit' = [circuit EXCEPT ![o] = Taken(Aged(circuit[o]))]
                   /\ probes' = [probes EXCEPT ![o] =
                        (IF Aged(circuit[o]) # circuit[o] THEN {} ELSE probes[o])
                        \cup (IF Aged(circuit[o]).state = "HALF_OPEN" THEN {c} ELSE {})]
        BY <1>4 DEF Admitted
    <2>2. ASSUME NEW q \in Ops
          PROVE  /\ circuit'[q] \in Circuit /\ probes'[q] \in SUBSET Calls
                 /\ Covered(circuit'[q], probes'[q])
        <3>1. circuit[q] \in Circuit /\ probes[q] \in SUBSET Calls /\ Covered(circuit[q], probes[q])
            BY DEF IInv
        <3>2. CASE q = o
            <4>1. /\ circuit'[q] = Taken(Aged(circuit[q]))
                  /\ probes'[q] = (IF Aged(circuit[q]) # circuit[q] THEN {} ELSE probes[q])
                        \cup (IF Aged(circuit[q]).state = "HALF_OPEN" THEN {c} ELSE {})
                BY <2>1, <3>2 DEF IInv
            <4>2. /\ Taken(Aged(circuit[q])) \in Circuit
                  /\ Covered(Taken(Aged(circuit[q])),
                             (IF Aged(circuit[q]) # circuit[q] THEN {} ELSE probes[q])
                             \cup (IF Aged(circuit[q]).state = "HALF_OPEN" THEN {c} ELSE {}))
                BY <2>1, <3>1, <3>2, AdmittedLemma
            <4>3. probes'[q] \in SUBSET Calls
                BY <3>1, <4>1
            <4>4. QED
                BY <4>1, <4>2, <4>3
        <3>3. CASE q # o
            BY <2>1, <3>1, <3>3 DEF IInv
        <3>4. QED
            BY <3>2, <3>3
    <2>3. circuit' \in [Ops -> Circuit] /\ probes' \in [Ops -> SUBSET Calls]
        BY <2>1, <2>2 DEF IInv
    <2>4. QED
        BY <2>2, <2>3 DEF IInv, Covered
<1>5. CASE LimiterAllows(c)
    <2>1. UNCHANGED <<circuit, probes>>
        BY <1>5 DEF LimiterAllows
    <2>2. QED
        BY <2>1, QuietLemma
<1>6. CASE \E status \in {"SUCCESS", "EMPTY"} : Succeed(c, status)
    <2>1. /\ circuit' = [circuit EXCEPT ![OpIn(c)] = Closed]
          /\ probes' = [probes EXCEPT ![OpIn(c)] = {}]
        BY <1>6 DEF Succeed
    <2>2. Closed \in Circuit /\ Covered(Closed, {})
        BY FS_EmptySet, ProviderAssumption DEF Closed, Circuit, Covered
    <2>3. \A o \in Ops : Covered(circuit'[o], probes'[o])
        BY <2>1, <2>2 DEF IInv
    <2>4. circuit' \in [Ops -> Circuit] /\ probes' \in [Ops -> SUBSET Calls]
        BY <2>1, <2>2 DEF IInv
    <2>5. QED
        BY <2>3, <2>4 DEF IInv, Covered
<1>7. CASE FailRetryable(c)
    <2>1. /\ circuit' = [circuit EXCEPT ![OpIn(c)] = Failed(circuit[OpIn(c)])]
          /\ probes' = [o \in Ops |-> probes[o] \ {c}]
        BY <1>7 DEF FailRetryable, EndWith
    <2>2. ASSUME NEW o \in Ops
          PROVE  circuit'[o] \in Circuit /\ Covered(circuit'[o], probes'[o])
        <3>1. circuit[o] \in Circuit /\ Covered(circuit[o], probes[o] \ {c})
            BY CoveredWithout DEF IInv
        <3>2. probes'[o] = probes[o] \ {c}
            BY <2>1
        <3>3. CASE o = OpIn(c)
            BY <2>1, <3>1, <3>2, <3>3, FailedLemma DEF IInv, Covered
        <3>4. CASE o # OpIn(c)
            BY <2>1, <3>1, <3>2, <3>4 DEF IInv
        <3>5. QED
            BY <3>3, <3>4
    <2>3. circuit' \in [Ops -> Circuit] /\ probes' \in [Ops -> SUBSET Calls]
        BY <2>1, <2>2 DEF IInv
    <2>4. QED
        BY <2>2, <2>3 DEF IInv, Covered
<1>8. CASE Cancel(c)
    <2>1. UNCHANGED circuit /\ probes' = [o \in Ops |-> probes[o] \ {c}]
        BY <1>8 DEF Cancel
    <2>2. QED
        BY <2>1, QuietLemma
<1>9. QED
    BY <1>1, <1>2, <1>3, <1>4, <1>5, <1>6, <1>7, <1>8 DEF Step

-----------------------------------------------------------------------------

\* In every state the probes of a half-open circuit are covered by inflight.
THEOREM Invariance == Spec => []IInv
<1>1. IInv /\ [Next]_vars => IInv'
    <2> SUFFICES ASSUME IInv, [Next]_vars PROVE IInv'
        OBVIOUS
    <2>1. CASE \E c \in Calls : Step(c)
        BY <2>1, StepLemma
    <2>2. CASE \E o \in Ops : Elapse(o)
        <3>1. PICK o \in Ops : /\ circuit[o].state = "OPEN"
                               /\ circuit' = [circuit EXCEPT ![o].due = TRUE]
                               /\ probes' = probes
            BY <2>2 DEF Elapse
        <3>2. circuit' \in [Ops -> Circuit]
            BY <3>1 DEF IInv, Circuit
        <3>3. \A p \in Ops : /\ circuit'[p].state = circuit[p].state
                             /\ circuit'[p].inflight = circuit[p].inflight
            BY <3>1 DEF IInv, Circuit
        <3>4. QED
            BY <3>1, <3>2, <3>3 DEF IInv, Covered
    <2>3. CASE \E r \in Runs : RunOut(r) \/ Finalize(r)
        <3>1. UNCHANGED <<circuit, probes>>
            BY <2>3 DEF RunOut, Finalize
        <3>2. QED
            BY <3>1, QuietLemma
    <2>4. CASE Restart
        <3>1. circuit' = [o \in Ops |-> Closed] /\ probes' = [o \in Ops |-> {}]
            BY <2>4 DEF Restart
        <3>2. Closed \in Circuit /\ Covered(Closed, {})
            BY FS_EmptySet, ProviderAssumption DEF Closed, Circuit, Covered
        <3>3. QED
            BY <3>1, <3>2 DEF IInv, Covered
    <2>5. CASE UNCHANGED vars
        BY <2>5, QuietLemma DEF vars
    <2>6. QED
        BY <2>1, <2>2, <2>3, <2>4, <2>5 DEF Next
<1>2. QED
    BY <1>1, InitLemma, PTL DEF Spec

\* circuit_breaker.py:26, :36: whichever calls fail, are cancelled or succeed in
\* between, a half-open circuit has no more than half_open_probe_count admitted
\* calls under way.
THEOREM ProbesFew == Spec => []HalfOpenAdmitsFew
<1>1. IInv => HalfOpenAdmitsFew
    BY DEF IInv, Covered, HalfOpenAdmitsFew
<1>2. QED
    BY <1>1, Invariance, PTL

-----------------------------------------------------------------------------
(***************************************************************************)
(* The budget.  BInv: the calls a run has made, and those that wait at the *)
(* limiter with a reservation in hand, are covered by what its guard has   *)
(* counted since the last restart, up to the limit, and a full budget for  *)
(* every life of the process before.                                       *)
(***************************************************************************)

\* The types of what the guard and the tool runs say; with IInv, of everything.
BudgetTypes ==
    /\ call \in [Calls -> Call]
    /\ used \in [Runs -> [Keys -> Nat]]
    /\ late \subseteq Runs
    /\ answered \subseteq Requests
    /\ rows \in [Requests -> Row]
    /\ saved \in [Runs -> [Keys -> Nat]]
    /\ made \in [Runs -> [Ops -> Nat]]
    /\ restarts \in 0..MaxRestarts

\* An invocation belongs to a run and a request; finitely many requests have rows.
BusyOK == \A c \in Calls : ~At(c, "idle") => call[c].run \in Runs /\ call[c].request \in Requests
Recorded == {q \in Requests : rows[q] # NoRow}

\* The calls of a run, and of an operation in it, that have a reservation and no
\* answer of the limiter.
Waiting(r) == {c \in Calls : At(c, "limiter") /\ call[c].run = r}
WaitingFor(r, o) == {c \in Waiting(r) : OpIn(c) = o}
Capped(n, limit) == IF n < limit THEN n ELSE limit

RunCovered(r) ==
    /\ IsFiniteSet(CallsMade(r)) /\ IsFiniteSet(Waiting(r))
    /\ MadeBy(r) + Cardinality(Waiting(r))
           <= restarts * MaxToolCalls + Capped(used[r][ToolCalls], MaxToolCalls)
OpCovered(r, o) ==
    made[r][o] + Cardinality(WaitingFor(r, o))
        <= restarts * OpLimit[o] + Capped(used[r][o], OpLimit[o])
Spent == \A r \in Runs : RunCovered(r) /\ \A o \in Ops : OpCovered(r, o)

BInv == BudgetTypes /\ BusyOK /\ IsFiniteSet(Recorded) /\ Spent

LEMMA LimitTypes ==
    /\ MaxToolCalls \in Nat /\ \A o \in Ops : OpLimit[o] \in Nat
    /\ Ops \subseteq Keys /\ ToolCalls \in Keys /\ ToolCalls \notin Ops
    /\ MaxRetries \in Nat /\ MaxRestarts \in Nat
BY ProviderAssumption DEF Keys

LEMMA BudgetInit == Init => BInv
<1> SUFFICES ASSUME Init PROVE BInv
    OBVIOUS
<1> USE LimitTypes
<1>1. Idle \in Call /\ NoRow \in Row /\ Nothing \in [Keys -> Nat]
    BY DEF Idle, Call, Pcs, Statuses, NoRow, Row, Nothing
<1>2. BudgetTypes /\ BusyOK
    BY <1>1 DEF Init, BudgetTypes, BusyOK, At, Idle
<1>3. Recorded = {}
    BY DEF Init, Recorded
<1>4. ASSUME NEW r \in Runs PROVE RunCovered(r) /\ \A o \in Ops : OpCovered(r, o)
    <2>1. Waiting(r) = {} /\ \A o \in Ops : WaitingFor(r, o) = {}
        BY DEF Init, Waiting, WaitingFor, At, Idle
    <2>2. CallsMade(r) = {}
        BY DEF Init, CallsMade
    <2>3. restarts = 0 /\ \A k \in Keys : used[r][k] = 0
        BY DEF Init, Nothing
    <2>4. \A o \in Ops : made[r][o] = 0
        BY DEF Init
    <2>5. RunCovered(r)
        BY <2>1, <2>2, <2>3, FS_EmptySet DEF RunCovered, MadeBy, Capped
    <2>6. ASSUME NEW o \in Ops PROVE OpCovered(r, o)
        <3>1. WaitingFor(r, o) = {} /\ made[r][o] = 0 /\ used[r][o] = 0
            BY <2>1, <2>3, <2>4
        <3>2. QED
            BY <2>3, <3>1, FS_EmptySet DEF OpCovered, Capped
    <2>7. QED
        BY <2>5, <2>6
<1>5. QED
    BY <1>2, <1>3, <1>4, FS_EmptySet DEF BInv, Spent

\* What multiplying by the lives of the process gives.
LEMMA LivesLemma ==
    ASSUME NEW n \in Nat, NEW limit \in Nat
    PROVE  n * limit \in Nat /\ (n + 1) * limit = n * limit + limit
OBVIOUS

\* A step that makes no call and brings none to the limiter, and takes nothing
\* back from the guard.
LEMMA QuietBudget ==
    ASSUME BInv, BudgetTypes',
           \A c \in Calls : call'[c].pc = "limiter" => call'[c] = call[c],
           made' = made, restarts' = restarts,
           \A r \in Runs, k \in Keys : used[r][k] <= used'[r][k]
    PROVE  Spent'
<1> USE LimitTypes
<1>1. ASSUME NEW r \in Runs PROVE (RunCovered(r) /\ \A o \in Ops : OpCovered(r, o))'
    <2>1. Waiting(r)' \subseteq Waiting(r) /\ \A o \in Ops : WaitingFor(r, o)' \subseteq WaitingFor(r, o)
        BY DEF Waiting, WaitingFor, At, OpIn
    <2>2. IsFiniteSet(Waiting(r)) /\ IsFiniteSet(CallsMade(r))
        BY DEF BInv, Spent, RunCovered
    <2>3. /\ IsFiniteSet(Waiting(r)') /\ Cardinality(Waiting(r)') <= Cardinality(Waiting(r))
          /\ Cardinality(Waiting(r)') \in Nat /\ Cardinality(Waiting(r)) \in Nat
        BY <2>1, <2>2, FS_Subset, FS_CardinalityType
    <2>4. CallsMade(r)' = CallsMade(r) /\ MadeBy(r)' = MadeBy(r) /\ MadeBy(r) \in Nat
        BY <2>2, FS_CardinalityType DEF CallsMade, MadeBy
    <2>5. \A k \in Keys : used[r][k] \in Nat /\ used'[r][k] \in Nat /\ used[r][k] <= used'[r][k]
        BY DEF BInv, BudgetTypes
    <2>6. restarts * MaxToolCalls \in Nat
        BY LivesLemma DEF BInv, BudgetTypes
    <2>7. RunCovered(r)'
        <3>1. Capped(used[r][ToolCalls], MaxToolCalls) <= Capped(used[r][ToolCalls], MaxToolCalls)'
            BY <2>5 DEF Capped
        <3>2. Capped(used[r][ToolCalls], MaxToolCalls) \in Nat /\ Capped(used[r][ToolCalls], MaxToolCalls)' \in Nat
            BY <2>5 DEF Capped
        <3>3. MadeBy(r) + Cardinality(Waiting(r))
                  <= restarts * MaxToolCalls + Capped(used[r][ToolCalls], MaxToolCalls)
            BY DEF BInv, Spent, RunCovered
        <3>4. (restarts * MaxToolCalls)' = restarts * MaxToolCalls
            OBVIOUS
        <3>5. MadeBy(r)' + Cardinality(Waiting(r)')
                  <= restarts * MaxToolCalls + Capped(used[r][ToolCalls], MaxToolCalls)'
            BY <2>3, <2>4, <2>6, <3>1, <3>2, <3>3
        <3>6. QED
            BY <2>2, <2>3, <2>4, <3>4, <3>5 DEF RunCovered
    <2>8. ASSUME NEW o \in Ops PROVE OpCovered(r, o)'
        <3>1. IsFiniteSet(WaitingFor(r, o))
            BY <2>2, FS_Subset DEF WaitingFor
        <3>2. /\ Cardinality(WaitingFor(r, o)') <= Cardinality(WaitingFor(r, o))
              /\ Cardinality(WaitingFor(r, o)') \in Nat /\ Cardinality(WaitingFor(r, o)) \in Nat
            BY <2>1, <3>1, FS_Subset, FS_CardinalityType
        <3>3. /\ Capped(used[r][o], OpLimit[o]) <= Capped(used[r][o], OpLimit[o])'
              /\ Capped(used[r][o], OpLimit[o]) \in Nat /\ Capped(used[r][o], OpLimit[o])' \in Nat
            BY <2>5 DEF Capped
        <3>4. made[r][o] \in Nat /\ made'[r][o] = made[r][o] /\ restarts * OpLimit[o] \in Nat
            BY LivesLemma DEF BInv, BudgetTypes
        <3>5. made[r][o] + Cardinality(WaitingFor(r, o)) <= restarts * OpLimit[o] + Capped(used[r][o], OpLimit[o])
            BY DEF BInv, Spent, OpCovered
        <3>6. made[r][o] + Cardinality(WaitingFor(r, o)')
                  <= restarts * OpLimit[o] + Capped(used[r][o], OpLimit[o])'
            BY <3>2, <3>3, <3>4, <3>5
        <3>7. QED
            BY <3>4, <3>6 DEF OpCovered
    <2>9. QED
        BY <2>7, <2>8
<1>2. QED
    BY <1>1 DEF Spent

\* The parts of the invariant beside the covers.
Bookkeeping == BudgetTypes /\ BusyOK /\ IsFiniteSet(Recorded)

\* An invocation in progress.
LEMMA CallLemma ==
    ASSUME BInv, NEW c \in Calls, ~At(c, "idle")
    PROVE  /\ call[c] \in Call /\ call[c].run \in Runs /\ call[c].request \in Requests
           /\ OpIn(c) \in Ops /\ OpIn(c) \in Keys
BY ProviderAssumption DEF BInv, BudgetTypes, BusyOK, OpIn, Keys

LEMMA EndLemma ==
    ASSUME BInv, NEW c \in Calls, ~At(c, "idle"),
           NEW attempts \in 0..(MaxRetries + 1), NEW status \in Statuses,
           EndWith(c, attempts, status),
           used' \in [Runs -> [Keys -> Nat]], UNCHANGED <<late, saved, made, restarts>>
    PROVE  /\ Bookkeeping'
           /\ \A d \in Calls : call'[d].pc = "limiter" => call'[d] = call[d]
<1>1. PICK q : q = call[c].request
    OBVIOUS
<1>2. q \in Requests /\ call[c].run \in Runs
    BY <1>1, CallLemma
<1>3. call' = [call EXCEPT ![c] = Idle]
    BY DEF EndWith
<1>4. Idle \in Call /\ Idle.pc = "idle"
    BY LimitTypes DEF Idle, Call, Pcs, Statuses
<1>5. call' \in [Calls -> Call] /\ BusyOK'
    BY <1>3, <1>4 DEF BInv, BudgetTypes, BusyOK, At
<1>6. answered' \subseteq Requests
    BY <1>1, <1>2 DEF EndWith, BInv, BudgetTypes
<1>7. PICK row : row = [run |-> call[c].run, attempts |-> attempts, success |-> status = "SUCCESS"]
    OBVIOUS
<1>8. row \in Row
    BY <1>2, <1>7 DEF Row
<1>9. rows' = rows \/ rows' = [rows EXCEPT ![q] = row]
    BY <1>1, <1>7 DEF EndWith
<1>10. rows' \in [Requests -> Row] /\ Recorded' \subseteq Recorded \cup {q}
    BY <1>2, <1>8, <1>9 DEF BInv, BudgetTypes, Recorded
<1>11. IsFiniteSet(Recorded \cup {q})
    BY FS_AddElement DEF BInv
<1>12. IsFiniteSet(Recorded')
    BY <1>10, <1>11, FS_Subset
<1>13. BudgetTypes'
    BY <1>5, <1>6, <1>10 DEF BInv, BudgetTypes
<1>14. QED
    BY <1>3, <1>4, <1>5, <1>12, <1>13 DEF Bookkeeping, BInv, BudgetTypes

\* An invocation goes on.
LEMMA GoLemma ==
    ASSUME BInv, NEW c \in Calls, NEW x \in Call, x.run \in Runs, x.request \in Requests,
           call' = [call EXCEPT ![c] = x],
           used' \in [Runs -> [Keys -> Nat]], made' \in [Runs -> [Ops -> Nat]],
           UNCHANGED <<late, answered, rows, saved, restarts>>
    PROVE  Bookkeeping' /\ \A d \in Calls : call'[d] = IF d = c THEN x ELSE call[d]
<1>1. \A d \in Calls : call'[d] = IF d = c THEN x ELSE call[d]
    BY DEF BInv, BudgetTypes
<1>2. call' \in [Calls -> Call]
    BY DEF BInv, BudgetTypes
<1>3. BudgetTypes'
    BY <1>2 DEF BInv, BudgetTypes
<1>4. BusyOK'
    BY <1>1 DEF BInv, BusyOK, At
<1>5. Recorded' = Recorded
    BY DEF Recorded
<1>6. QED
    BY <1>1, <1>3, <1>4, <1>5 DEF BInv, Bookkeeping

\* The guard counts an attempt.
LEMMA ReserveLemma ==
    ASSUME BInv, NEW r \in Runs, NEW o \in Ops, Reserve(r, o)
    PROVE  /\ used' \in [Runs -> [Keys -> Nat]]
           /\ \A q \in Runs, k \in Keys :
                 used'[q][k] = IF q = r /\ k \in {o, ToolCalls} THEN used[q][k] + 1 ELSE used[q][k]
           /\ \A q \in Runs, k \in Keys : used[q][k] \in Nat /\ used[q][k] <= used'[q][k]
<1>1. used \in [Runs -> [Keys -> Nat]] /\ \A q \in Runs, k \in Keys : used[q][k] \in Nat
    BY DEF BInv, BudgetTypes
<1>2. PICK f : f = [k \in Keys |-> IF k \in {o, ToolCalls} THEN used[r][k] + 1 ELSE used[r][k]]
    OBVIOUS
<1>3. used' = [used EXCEPT ![r] = f]
    BY <1>2 DEF Reserve
<1>4. f \in [Keys -> Nat]
    BY <1>1, <1>2
<1>5. used' \in [Runs -> [Keys -> Nat]]
    BY <1>1, <1>3, <1>4
<1>6. \A q \in Runs, k \in Keys :
          used'[q][k] = IF q = r /\ k \in {o, ToolCalls} THEN used[q][k] + 1 ELSE used[q][k]
    BY <1>1, <1>2, <1>3
<1>7. QED
    BY <1>1, <1>5, <1>6

\* The steps that make no call, and bring none to the limiter.
LEMMA OtherBudget ==
    ASSUME BInv, NEW c \in Calls,
           \/ \E r \in Runs, q \in Requests : Execute(c, r, q)
           \/ Blocked(c) \/ Refused(c) \/ LimiterRejects(c)
           \/ \E status \in {"SUCCESS", "EMPTY"} : Succeed(c, status)
           \/ Store(c) \/ Fail(c) \/ FailRetryable(c) \/ Cancel(c)
    PROVE  BInv'
<1> USE LimitTypes
<1>1. /\ made' = made /\ restarts' = restarts
      /\ used' \in [Runs -> [Keys -> Nat]]
      /\ \A r \in Runs, k \in Keys : used[r][k] <= used'[r][k]
    <2>1. CASE Refused(c)
        <3>1. ~At(c, "idle")
            BY <2>1 DEF Refused, Ready, At
        <3>2. Reserve(call[c].run, OpIn(c)) /\ made' = made /\ restarts' = restarts
            BY <2>1 DEF Refused
        <3>3. QED
            BY <3>1, <3>2, CallLemma, ReserveLemma
    <2>2. CASE ~Refused(c)
        BY <2>2 DEF Execute, Blocked, LimiterRejects, Succeed, Store, Fail, FailRetryable, Cancel,
                    BInv, BudgetTypes
    <2>3. QED
        BY <2>1, <2>2
<1>2. Bookkeeping' /\ \A d \in Calls : call'[d].pc = "limiter" => call'[d] = call[d]
    <2>1. CASE \E r \in Runs, q \in Requests : Execute(c, r, q)
        <3>1. PICK r \in Runs, q \in Requests : Execute(c, r, q)
            BY <2>1
        <3>2. PICK x : x = [pc |-> "queued", run |-> r, request |-> q, attempt |-> 0, status |-> "FAILED"]
            OBVIOUS
        <3>3. x \in Call /\ x.run = r /\ x.request = q /\ x.pc = "queued"
            BY <3>2 DEF Call, Pcs, Statuses
        <3>4. QED
            BY <1>1, <3>1, <3>2, <3>3, GoLemma DEF Execute, BInv, BudgetTypes
    <2>2. CASE Blocked(c) \/ Refused(c) \/ LimiterRejects(c)
        <3>1. ~At(c, "idle") /\ EndRejected(c) /\ UNCHANGED <<late, saved, made, restarts>>
            BY <2>2 DEF Blocked, Refused, LimiterRejects, Ready, At
        <3>2. (IF call[c].attempt = 0 THEN 1 ELSE call[c].attempt) \in 0..(MaxRetries + 1)
            BY <3>1, CallLemma DEF Call
        <3>3. "FAILED" \in Statuses
            BY DEF Statuses
        <3>4. QED
            BY <1>1, <3>1, <3>2, <3>3, EndLemma DEF EndRejected
    <2>3. CASE Store(c) \/ Fail(c) \/ (FailRetryable(c) /\ ~(call[c].attempt < MaxRetries))
        <3>1. /\ ~At(c, "idle") /\ UNCHANGED <<late, saved, made, restarts>>
              /\ \E status \in {call[c].status, "FAILED"} : EndWith(c, call[c].attempt + 1, status)
            BY <2>3 DEF Store, Fail, FailRetryable, At
        <3>2. call[c].attempt + 1 \in 0..(MaxRetries + 1) /\ call[c].status \in Statuses
            BY <3>1, CallLemma DEF Call
        <3>3. "FAILED" \in Statuses
            BY DEF Statuses
        <3>4. QED
            BY <1>1, <3>1, <3>2, <3>3, EndLemma
    <2>4. CASE FailRetryable(c) /\ call[c].attempt < MaxRetries
        <3>1. ~At(c, "idle")
            BY <2>4 DEF FailRetryable, At
        <3>2. PICK x : x = [call[c] EXCEPT !.pc = "sleeping", !.attempt = call[c].attempt + 1]
            OBVIOUS
        <3>3. call' = [call EXCEPT ![c] = x]
            BY <2>4, <3>2 DEF FailRetryable, BInv, BudgetTypes
        <3>4. /\ x \in Call /\ x.pc = "sleeping"
              /\ x.run = call[c].run /\ x.request = call[c].request
            <4>1. call[c] \in Call /\ call[c].attempt + 1 \in 0..MaxRetries
                BY <2>4, <3>1, CallLemma DEF Call
            <4>2. QED
                BY <3>2, <4>1 DEF Call, Pcs
        <3>5. QED
            BY <1>1, <2>4, <3>1, <3>3, <3>4, CallLemma, GoLemma DEF FailRetryable, BInv, BudgetTypes
    <2>5. CASE \E status \in {"SUCCESS", "EMPTY"} : Succeed(c, status)
        <3>1. PICK status \in {"SUCCESS", "EMPTY"} : Succeed(c, status)
            BY <2>5
        <3>2. ~At(c, "idle")
            BY <3>1 DEF Succeed, At
        <3>3. PICK x : x = [call[c] EXCEPT !.pc = "storing", !.status = status]
            OBVIOUS
        <3>4. call' = [call EXCEPT ![c] = x]
            BY <3>1, <3>3 DEF Succeed, BInv, BudgetTypes
        <3>5. /\ x \in Call /\ x.pc = "storing"
              /\ x.run = call[c].run /\ x.request = call[c].request
            BY <3>2, <3>3, CallLemma DEF Call, Pcs, Statuses
        <3>6. QED
            <4>1. x.run \in Runs /\ x.request \in Requests
                BY <3>2, <3>5, CallLemma
            <4>2. UNCHANGED <<late, answered, rows, saved, restarts>> /\ made' \in [Runs -> [Ops -> Nat]]
                BY <1>1, <3>1 DEF Succeed, BInv, BudgetTypes
            <4>3. Bookkeeping' /\ \A d \in Calls : call'[d] = IF d = c THEN x ELSE call[d]
                BY <1>1, <3>4, <3>5, <4>1, <4>2, GoLemma
            <4>4. QED
                BY <3>5, <4>3
    <2>6. CASE Cancel(c)
        <3>1. Idle \in Call /\ Idle.pc = "idle"
            BY DEF Idle, Call, Pcs, Statuses
        <3>2. call' = [call EXCEPT ![c] = Idle] /\ UNCHANGED <<used, late, answered, rows, saved, made, restarts>>
            BY <2>6 DEF Cancel
        <3>3. call' \in [Calls -> Call] /\ BusyOK'
            BY <3>1, <3>2 DEF BInv, BudgetTypes, BusyOK, At
        <3>4. Recorded' = Recorded
            BY <3>2 DEF Recorded
        <3>5. QED
            BY <3>1, <3>2, <3>3, <3>4 DEF Bookkeeping, BInv, BudgetTypes
    <2>7. QED
        BY <2>1, <2>2, <2>3, <2>4, <2>5, <2>6
<1>3. BudgetTypes' /\ Spent'
    BY <1>1, <1>2, QuietBudget DEF Bookkeeping
<1>4. QED
    BY <1>2, <1>3 DEF BInv, Bookkeeping

\* What the cover of m calls made and w waiting becomes when one is admitted, one
\* is made, and the process starts again with a guard that says v.
LEMMA CoverLemma ==
    ASSUME NEW m \in Nat, NEW w, IsFiniteSet(w), NEW n \in Nat, NEW limit \in Nat, NEW u \in Nat,
           m + Cardinality(w) <= n * limit + Capped(u, limit)
    PROVE  /\ \A c : u < limit => /\ IsFiniteSet(w \cup {c})
                                  /\ m + Cardinality(w \cup {c}) <= n * limit + Capped(u + 1, limit)
           /\ \A c \in w : /\ IsFiniteSet(w \ {c})
                           /\ m + 1 + Cardinality(w \ {c}) <= n * limit + Capped(u, limit)
           /\ \A v \in Nat : m + Cardinality({}) <= (n + 1) * limit + Capped(v, limit)
<1>1. n * limit \in Nat /\ (n + 1) * limit = n * limit + limit /\ Cardinality(w) \in Nat
    BY LivesLemma, FS_CardinalityType
<1>2. ASSUME NEW c, u < limit
      PROVE  IsFiniteSet(w \cup {c}) /\ m + Cardinality(w \cup {c}) <= n * limit + Capped(u + 1, limit)
    <2>1. IsFiniteSet(w \cup {c})
        BY FS_AddElement
    <2>2. Cardinality(w \cup {c}) = IF c \in w THEN Cardinality(w) ELSE Cardinality(w) + 1
        BY FS_AddElement
    <2>3. Cardinality(w \cup {c}) \in Nat
        BY <2>1, FS_CardinalityType
    <2>4. Capped(u + 1, limit) = Capped(u, limit) + 1 /\ Capped(u, limit) \in Nat
        BY <1>2 DEF Capped
    <2>5. QED
        BY <1>1, <2>1, <2>2, <2>3, <2>4
<1>3. ASSUME NEW c \in w
      PROVE  IsFiniteSet(w \ {c}) /\ m + 1 + Cardinality(w \ {c}) <= n * limit + Capped(u, limit)
    <2>1. IsFiniteSet(w \ {c}) /\ Cardinality(w \ {c}) = Cardinality(w) - 1
        BY FS_RemoveElement
    <2>2. Capped(u, limit) \in Nat
        BY DEF Capped
    <2>3. QED
        BY <1>1, <2>1, <2>2
<1>4. ASSUME NEW v \in Nat
      PROVE  m + Cardinality({}) <= (n + 1) * limit + Capped(v, limit)
    <2>1. Cardinality({}) = 0
        BY FS_EmptySet
    <2>2. Capped(u, limit) <= limit /\ Capped(u, limit) \in Nat /\ Capped(v, limit) \in Nat
        BY DEF Capped
    <2>3. QED
        BY <1>1, <2>1, <2>2
<1>5. QED
    BY <1>2, <1>3, <1>4

\* A call with its reservation goes to the limiter.
LEMMA AdmittedBudget == ASSUME BInv, NEW c \in Calls, Admitted(c) PROVE BInv'
<1> USE LimitTypes
<1>1. PICK r, o : r = call[c].run /\ o = OpIn(c)
    OBVIOUS
<1>2. ~At(c, "idle") /\ ~At(c, "limiter")
    BY DEF Admitted, Ready, At
<1>3. call[c] \in Call /\ r \in Runs /\ call[c].request \in Requests /\ o \in Ops
    BY <1>1, <1>2, CallLemma
<1>4. /\ used[r][ToolCalls] < MaxToolCalls /\ used[r][o] < OpLimit[o]
      /\ Reserve(r, o)
      /\ UNCHANGED <<late, answered, rows, saved, made, restarts>>
    BY <1>1 DEF Admitted, CanReserve
<1>5. PICK x : x = [call[c] EXCEPT !.pc = "limiter"]
    OBVIOUS
<1>6. /\ call' = [call EXCEPT ![c] = x]
      /\ x \in Call /\ x.pc = "limiter" /\ x.run = r /\ x.request = call[c].request
    BY <1>1, <1>3, <1>5 DEF Admitted, Call, Pcs, BInv, BudgetTypes
<1>7. /\ used' \in [Runs -> [Keys -> Nat]]
      /\ \A q \in Runs, k \in Keys :
            used'[q][k] = IF q = r /\ k \in {o, ToolCalls} THEN used[q][k] + 1 ELSE used[q][k]
      /\ \A q \in Runs, k \in Keys : used[q][k] \in Nat
    BY <1>3, <1>4, ReserveLemma
<1>8. Bookkeeping' /\ \A d \in Calls : call'[d] = IF d = c THEN x ELSE call[d]
    BY <1>3, <1>4, <1>6, <1>7, GoLemma DEF BInv, BudgetTypes
<1>9. ASSUME NEW q \in Runs PROVE (RunCovered(q) /\ \A k \in Ops : OpCovered(q, k))'
    <2>1. Waiting(q)' = IF q = r THEN Waiting(q) \cup {c} ELSE Waiting(q)
        BY <1>1, <1>2, <1>6, <1>8 DEF Waiting, At
    <2>2. \A k \in Ops : WaitingFor(q, k)' =
              IF q = r /\ k = o THEN WaitingFor(q, k) \cup {c} ELSE WaitingFor(q, k)
        BY <1>1, <1>2, <1>3, <1>6, <1>8, <2>1 DEF WaitingFor, OpIn, Waiting, At
    <2>3. CallsMade(q)' = CallsMade(q) /\ MadeBy(q)' = MadeBy(q)
        BY <1>4 DEF CallsMade, MadeBy
    <2>4. restarts \in Nat /\ restarts' = restarts /\ MadeBy(q) \in Nat
        BY <1>4, FS_CardinalityType DEF BInv, BudgetTypes, Spent, RunCovered, MadeBy
    <2>5. /\ IsFiniteSet(CallsMade(q)) /\ IsFiniteSet(Waiting(q))
          /\ MadeBy(q) + Cardinality(Waiting(q))
                 <= restarts * MaxToolCalls + Capped(used[q][ToolCalls], MaxToolCalls)
        BY DEF BInv, Spent, RunCovered
    <2>6. RunCovered(q)'
        <3>1. CASE q = r
            <4>1. used'[q][ToolCalls] = used[q][ToolCalls] + 1 /\ used[q][ToolCalls] \in Nat
                BY <1>7, <3>1
            <4>2. used[q][ToolCalls] < MaxToolCalls /\ MadeBy(q) \in Nat /\ restarts \in Nat
                BY <1>4, <2>4, <3>1
            <4>3. /\ IsFiniteSet(Waiting(q) \cup {c})
                  /\ MadeBy(q) + Cardinality(Waiting(q) \cup {c})
                         <= restarts * MaxToolCalls + Capped(used[q][ToolCalls] + 1, MaxToolCalls)
                BY <2>5, <4>1, <4>2, CoverLemma
            <4>4. QED
                BY <2>1, <2>3, <2>4, <2>5, <3>1, <4>1, <4>3 DEF RunCovered
        <3>2. CASE q # r
            <4>1. used'[q][ToolCalls] = used[q][ToolCalls]
                BY <1>7, <3>2
            <4>2. QED
                BY <2>1, <2>3, <2>4, <2>5, <3>2, <4>1 DEF RunCovered
        <3>3. QED
            BY <3>1, <3>2
    <2>7. ASSUME NEW k \in Ops PROVE OpCovered(q, k)'
        <3>1. made'[q][k] = made[q][k] /\ made[q][k] \in Nat /\ IsFiniteSet(WaitingFor(q, k))
            BY <1>4, <2>5, FS_Subset DEF BInv, BudgetTypes, WaitingFor
        <3>2. made[q][k] + Cardinality(WaitingFor(q, k))
                  <= restarts * OpLimit[k] + Capped(used[q][k], OpLimit[k])
            BY DEF BInv, Spent, OpCovered
        <3>3. CASE q = r /\ k = o
            <4>1. used'[q][k] = used[q][k] + 1 /\ used[q][k] \in Nat
                BY <1>7, <3>3
            <4>2. made[q][k] + Cardinality(WaitingFor(q, k) \cup {c})
                      <= restarts * OpLimit[k] + Capped(used[q][k] + 1, OpLimit[k])
                <5>1. PICK m \in Nat, u \in Nat, v \in Nat, limit \in Nat, w \in {WaitingFor(q, k)} :
                          /\ m = made[q][k] /\ u = used[q][k] /\ v = restarts
                          /\ limit = OpLimit[k]
                    BY <2>4, <3>1, <4>1
                <5>2. IsFiniteSet(w) /\ u < limit /\ m + Cardinality(w) <= v * limit + Capped(u, limit)
                    BY <1>4, <3>1, <3>2, <3>3, <5>1
                <5>3. m + Cardinality(w \cup {c}) <= v * limit + Capped(u + 1, limit)
                    BY <5>2, CoverLemma
                <5>4. QED
                    BY <5>1, <5>3
            <4>3. QED
                BY <2>2, <2>4, <3>1, <3>3, <4>1, <4>2 DEF OpCovered
        <3>4. CASE ~(q = r /\ k = o)
            <4>1. used'[q][k] = used[q][k]
                BY <1>7, <3>4
            <4>2. QED
                BY <2>2, <2>4, <3>1, <3>2, <3>4, <4>1 DEF OpCovered
        <3>5. QED
            BY <3>3, <3>4
    <2>8. QED
        BY <2>6, <2>7
<1>10. QED
    BY <1>8, <1>9 DEF BInv, Bookkeeping, Spent

\* The limiter lets a call go: it is made, and waits no longer.
LEMMA AllowedBudget == ASSUME BInv, NEW c \in Calls, LimiterAllows(c) PROVE BInv'
<1> USE LimitTypes
<1>1. PICK r, o : r = call[c].run /\ o = OpIn(c)
    OBVIOUS
<1>2. ~At(c, "idle") /\ At(c, "limiter")
    BY DEF LimiterAllows, At
<1>3. call[c] \in Call /\ r \in Runs /\ call[c].request \in Requests /\ o \in Ops
    BY <1>1, <1>2, CallLemma
<1>4. PICK x : x = [call[c] EXCEPT !.pc = "calling"]
    OBVIOUS
<1>5. /\ call' = [call EXCEPT ![c] = x]
      /\ x \in Call /\ x.pc = "calling" /\ x.run = r /\ x.request = call[c].request
    BY <1>1, <1>3, <1>4 DEF LimiterAllows, Call, Pcs, BInv, BudgetTypes
<1>6. made \in [Runs -> [Ops -> Nat]] /\ made[r][o] \in Nat
    BY <1>3 DEF BInv, BudgetTypes
<1>7. PICK f : f = [made[r] EXCEPT ![o] = made[r][o] + 1]
    OBVIOUS
<1>8. made' = [made EXCEPT ![r] = f] /\ f \in [Ops -> Nat]
    BY <1>1, <1>3, <1>6, <1>7 DEF LimiterAllows
<1>9. /\ made' \in [Runs -> [Ops -> Nat]]
      /\ \A q \in Runs, k \in Ops :
            made'[q][k] = IF q = r /\ k = o THEN made[q][k] + 1 ELSE made[q][k]
    BY <1>6, <1>7, <1>8
<1>10. UNCHANGED <<used, late, answered, rows, saved, restarts>>
    BY DEF LimiterAllows
<1>11. Bookkeeping' /\ \A d \in Calls : call'[d] = IF d = c THEN x ELSE call[d]
    BY <1>3, <1>5, <1>9, <1>10, GoLemma DEF BInv, BudgetTypes
<1>12. ASSUME NEW q \in Runs PROVE (RunCovered(q) /\ \A k \in Ops : OpCovered(q, k))'
    <2>1. Waiting(q)' = IF q = r THEN Waiting(q) \ {c} ELSE Waiting(q)
        BY <1>1, <1>5, <1>11 DEF Waiting, At
    <2>2. \A k \in Ops : WaitingFor(q, k)' =
              IF q = r /\ k = o THEN WaitingFor(q, k) \ {c} ELSE WaitingFor(q, k)
        BY <1>1, <1>2, <1>3, <1>5, <1>11, <2>1 DEF WaitingFor, OpIn, Waiting, At
    <2>3. /\ c \in Waiting(r) /\ c \in WaitingFor(r, o)
        BY <1>1, <1>2 DEF Waiting, WaitingFor
    <2>4. restarts \in Nat /\ restarts' = restarts /\ MadeBy(q) \in Nat /\ used' = used
        BY <1>10, FS_CardinalityType DEF BInv, BudgetTypes, Spent, RunCovered, MadeBy
    <2>5. /\ IsFiniteSet(CallsMade(q)) /\ IsFiniteSet(Waiting(q))
          /\ MadeBy(q) + Cardinality(Waiting(q))
                 <= restarts * MaxToolCalls + Capped(used[q][ToolCalls], MaxToolCalls)
        BY DEF BInv, Spent, RunCovered
    <2>6. \A k \in Keys : used[q][k] \in Nat
        BY DEF BInv, BudgetTypes
    <2>7. RunCovered(q)'
        <3>1. CASE q = r
            <4>1. PICK n \in Nat : n = made[r][o]
                BY <1>6
            <4>2. \A k \in Ops : made'[q][k] = IF k = o THEN n + 1 ELSE made[q][k]
                BY <1>9, <3>1, <4>1
            <4>3. CallsMade(q)' = CallsMade(q) \cup {<<o, n + 1>>}
                <5>1. 1..(n + 1) = (1..n) \cup {n + 1}
                    BY <4>1
                <5>2. \A k \in Ops : {k} \X (1..made'[q][k]) =
                          IF k = o THEN ({o} \X (1..n)) \cup {<<o, n + 1>>} ELSE {k} \X (1..made[q][k])
                    BY <4>2, <5>1
                <5>3. {o} \X (1..made[q][o]) = {o} \X (1..n)
                    BY <3>1, <4>1
                <5>4. QED
                    BY <1>3, <5>2, <5>3 DEF CallsMade
            <4>4. <<o, n + 1>> \notin CallsMade(q)
                BY <1>3, <3>1, <4>1 DEF CallsMade
            <4>5. /\ IsFiniteSet(CallsMade(q)') /\ MadeBy(q)' = MadeBy(q) + 1
                BY <2>5, <4>3, <4>4, FS_AddElement DEF MadeBy
            <4>6. /\ IsFiniteSet(Waiting(q) \ {c})
                  /\ MadeBy(q) + 1 + Cardinality(Waiting(q) \ {c})
                         <= restarts * MaxToolCalls + Capped(used[q][ToolCalls], MaxToolCalls)
                <5>1. PICK m \in Nat, u \in Nat, v \in Nat, w \in {Waiting(q)} :
                          m = MadeBy(q) /\ u = used[q][ToolCalls] /\ v = restarts
                    BY <2>4, <2>6
                <5>2. IsFiniteSet(w) /\ c \in w /\ m + Cardinality(w) <= v * MaxToolCalls + Capped(u, MaxToolCalls)
                    BY <2>3, <2>5, <3>1, <5>1
                <5>3. /\ IsFiniteSet(w \ {c})
                      /\ m + 1 + Cardinality(w \ {c}) <= v * MaxToolCalls + Capped(u, MaxToolCalls)
                    BY <5>2, CoverLemma
                <5>4. QED
                    BY <5>1, <5>3
            <4>7. QED
                BY <2>1, <2>4, <3>1, <4>5, <4>6 DEF RunCovered
        <3>2. CASE q # r
            <4>1. \A k \in Ops : made'[q][k] = made[q][k]
                BY <1>9, <3>2
            <4>2. CallsMade(q)' = CallsMade(q) /\ MadeBy(q)' = MadeBy(q)
                BY <4>1 DEF CallsMade, MadeBy
            <4>3. QED
                BY <2>1, <2>4, <2>5, <3>2, <4>2 DEF RunCovered
        <3>3. QED
            BY <3>1, <3>2
    <2>8. ASSUME NEW k \in Ops PROVE OpCovered(q, k)'
        <3>1. made[q][k] \in Nat /\ IsFiniteSet(WaitingFor(q, k))
            BY <2>5, FS_Subset DEF BInv, BudgetTypes, WaitingFor
        <3>2. made[q][k] + Cardinality(WaitingFor(q, k))
                  <= restarts * OpLimit[k] + Capped(used[q][k], OpLimit[k])
            BY DEF BInv, Spent, OpCovered
        <3>3. CASE q = r /\ k = o
            <4>1. made[q][k] + 1 + Cardinality(WaitingFor(q, k) \ {c})
                      <= restarts * OpLimit[k] + Capped(used[q][k], OpLimit[k])
                <5>1. PICK m \in Nat, u \in Nat, v \in Nat, limit \in Nat, w \in {WaitingFor(q, k)} :
                          /\ m = made[q][k] /\ u = used[q][k] /\ v = restarts
                          /\ limit = OpLimit[k]
                    BY <2>4, <2>6, <3>1
                <5>2. IsFiniteSet(w) /\ c \in w /\ m + Cardinality(w) <= v * limit + Capped(u, limit)
                    BY <2>3, <3>1, <3>2, <3>3, <5>1
                <5>3. m + 1 + Cardinality(w \ {c}) <= v * limit + Capped(u, limit)
                    BY <5>2, CoverLemma
                <5>4. QED
                    BY <5>1, <5>3
            <4>2. QED
                BY <1>9, <2>2, <2>4, <3>3, <4>1 DEF OpCovered
        <3>4. CASE ~(q = r /\ k = o)
            BY <1>9, <2>2, <2>4, <3>2, <3>4 DEF OpCovered
        <3>5. QED
            BY <3>3, <3>4
    <2>9. QED
        BY <2>7, <2>8
<1>13. QED
    BY <1>11, <1>12 DEF BInv, Bookkeeping, Spent

\* What a restarted process counts is a number for every key.
LEMMA RebuiltLemma == ASSUME BInv, NEW r \in Runs PROVE Rebuilt(r) \in [Keys -> Nat]
<1>1. saved[r] \in [Keys -> Nat]
    BY DEF BInv, BudgetTypes
<1>2. ASSUME NEW requests \in SUBSET Requests PROVE Cardinality(Attempts(r, requests)) \in Nat
    <2>1. IsFiniteSet(Recorded) /\ IsFiniteSet(1..(MaxRetries + 1))
        BY LimitTypes, FS_Interval DEF BInv
    <2>2. IsFiniteSet(Recorded \X (1..(MaxRetries + 1)))
        BY <2>1, FS_Product
    <2>3. Attempts(r, requests) \subseteq Recorded \X (1..(MaxRetries + 1))
        <3>1. ASSUME NEW q \in requests, rows[q].run = r, NEW a \in {q} \X (1..rows[q].attempts)
              PROVE  a \in Recorded \X (1..(MaxRetries + 1))
            <4>1. rows[q] \in Row /\ rows[q] # NoRow
                BY <3>1, ProviderAssumption DEF BInv, BudgetTypes, NoRow
            <4>2. q \in Recorded /\ rows[q].attempts \in 0..(MaxRetries + 1)
                BY <4>1 DEF Recorded, Row
            <4>3. QED
                BY <4>2, LimitTypes
        <3>2. QED
            BY <3>1 DEF Attempts
    <2>4. QED
        BY <2>2, <2>3, FS_Subset, FS_CardinalityType
<1>3. \A k \in Keys : (IF k = ToolCalls THEN Requests ELSE {q \in Requests : OpOf[q] = k}) \in SUBSET Requests
    OBVIOUS
<1>4. QED
    BY <1>1, <1>2, <1>3 DEF Rebuilt

\* The process starts again.
LEMMA RestartBudget == ASSUME BInv, Restart PROVE BInv'
<1> USE LimitTypes
<1>1. /\ call' = [c \in Calls |-> Idle] /\ used' = [r \in Runs |-> Rebuilt(r)] /\ late' = {}
      /\ answered' \subseteq Requests /\ restarts < MaxRestarts /\ restarts' = restarts + 1
      /\ UNCHANGED <<rows, saved, made>>
    BY DEF Restart
<1>2. Idle \in Call /\ Idle.pc = "idle"
    BY DEF Idle, Call, Pcs, Statuses
<1>3. used' \in [Runs -> [Keys -> Nat]]
    BY <1>1, RebuiltLemma
<1>4. restarts \in Nat /\ restarts' \in 0..MaxRestarts
    BY <1>1 DEF BInv, BudgetTypes
<1>5. BudgetTypes' /\ BusyOK' /\ Recorded' = Recorded
    BY <1>1, <1>2, <1>3, <1>4 DEF BInv, BudgetTypes, BusyOK, At, Recorded
<1>6. ASSUME NEW r \in Runs PROVE (RunCovered(r) /\ \A o \in Ops : OpCovered(r, o))'
    <2>1. Waiting(r)' = {} /\ \A o \in Ops : WaitingFor(r, o)' = {}
        BY <1>1, <1>2 DEF Waiting, WaitingFor, At
    <2>2. CallsMade(r)' = CallsMade(r) /\ MadeBy(r)' = MadeBy(r)
        BY <1>1 DEF CallsMade, MadeBy
    <2>3. /\ IsFiniteSet(CallsMade(r)) /\ IsFiniteSet(Waiting(r)) /\ MadeBy(r) \in Nat
          /\ MadeBy(r) + Cardinality(Waiting(r))
                 <= restarts * MaxToolCalls + Capped(used[r][ToolCalls], MaxToolCalls)
        BY FS_CardinalityType DEF BInv, Spent, RunCovered, MadeBy
    <2>4. \A k \in Keys : used[r][k] \in Nat /\ used'[r][k] \in Nat
        BY <1>3 DEF BInv, BudgetTypes
    <2>5. RunCovered(r)'
        <3>1. MadeBy(r) + Cardinality({})
                  <= (restarts + 1) * MaxToolCalls + Capped(used'[r][ToolCalls], MaxToolCalls)
            BY <1>4, <2>3, <2>4, CoverLemma
        <3>2. QED
            BY <1>1, <2>1, <2>2, <2>3, <3>1, FS_EmptySet DEF RunCovered
    <2>6. ASSUME NEW o \in Ops PROVE OpCovered(r, o)'
        <3>1. made[r][o] \in Nat /\ OpLimit[o] \in Nat /\ IsFiniteSet(WaitingFor(r, o))
            BY <2>3, FS_Subset DEF BInv, BudgetTypes, WaitingFor
        <3>2. made[r][o] + Cardinality(WaitingFor(r, o))
                  <= restarts * OpLimit[o] + Capped(used[r][o], OpLimit[o])
            BY DEF BInv, Spent, OpCovered
        <3>3. made[r][o] + Cardinality({}) <= (restarts + 1) * OpLimit[o] + Capped(used'[r][o], OpLimit[o])
            BY <1>4, <2>4, <3>1, <3>2, CoverLemma
        <3>4. QED
            BY <1>1, <2>1, <3>3 DEF OpCovered
    <2>7. QED
        BY <2>5, <2>6
<1>7. QED
    BY <1>5, <1>6 DEF BInv, Spent

-----------------------------------------------------------------------------

\* In every state the calls made are covered by the budgets of the lives so far.
THEOREM BudgetInvariance == Spec => []BInv
<1>1. BInv /\ [Next]_vars => BInv'
    <2> SUFFICES ASSUME BInv, [Next]_vars PROVE BInv'
        OBVIOUS
    <2>1. ASSUME NEW c \in Calls, Step(c) PROVE BInv'
        BY <2>1, OtherBudget, AdmittedBudget, AllowedBudget DEF Step
    <2>2. CASE Restart
        BY <2>2, RestartBudget
    <2>3. CASE \/ \E o \in Ops : Elapse(o)
               \/ \E r \in Runs : RunOut(r) \/ Finalize(r)
               \/ UNCHANGED vars
        <3>1. /\ UNCHANGED <<call, used, answered, rows, made, restarts>>
              /\ late' \subseteq Runs /\ saved' \in [Runs -> [Keys -> Nat]]
            BY <2>3 DEF Elapse, RunOut, Finalize, vars, BInv, BudgetTypes
        <3>2. BudgetTypes' /\ BusyOK' /\ Recorded' = Recorded
            BY <3>1 DEF BInv, BudgetTypes, BusyOK, At, Recorded
        <3>3. \A r \in Runs, k \in Keys : used[r][k] \in Nat /\ used[r][k] <= used'[r][k]
            BY <3>1 DEF BInv, BudgetTypes
        <3>4. Spent'
            BY <3>1, <3>2, <3>3, QuietBudget
        <3>5. QED
            BY <3>2, <3>4 DEF BInv
    <2>4. QED
        BY <2>1, <2>2, <2>3 DEF Next
<1>2. QED
    BY <1>1, BudgetInit, PTL DEF Spec

\* runtime.py:41, :158: BudgetGuard.reserve precedes every call, so that no run makes
\* more calls than its budget, nor more of an operation than its limit, in one life
\* of the process, whatever its calls do to each other at their suspensions.
THEOREM WithinBudget == Spec => []CallsWithinBudget
<1>1. BInv => CallsWithinBudget
    <2> SUFFICES ASSUME BInv, NEW r \in Runs
                 PROVE  /\ MadeBy(r) <= (restarts + 1) * MaxToolCalls
                        /\ \A o \in Ops : made[r][o] <= (restarts + 1) * OpLimit[o]
        BY DEF CallsWithinBudget
    <2>1. restarts \in Nat /\ \A k \in Keys : used[r][k] \in Nat
        BY LimitTypes DEF BInv, BudgetTypes
    <2>2. /\ IsFiniteSet(CallsMade(r)) /\ IsFiniteSet(Waiting(r)) /\ MadeBy(r) \in Nat
          /\ MadeBy(r) + Cardinality(Waiting(r))
                 <= restarts * MaxToolCalls + Capped(used[r][ToolCalls], MaxToolCalls)
        BY FS_CardinalityType DEF BInv, Spent, RunCovered, MadeBy
    <2>3. MadeBy(r) <= (restarts + 1) * MaxToolCalls
        <3>1. (restarts + 1) * MaxToolCalls = restarts * MaxToolCalls + MaxToolCalls
            BY <2>1, LimitTypes, LivesLemma
        <3>2. /\ Capped(used[r][ToolCalls], MaxToolCalls) \in Nat
              /\ Capped(used[r][ToolCalls], MaxToolCalls) <= MaxToolCalls
            BY <2>1, LimitTypes DEF Capped
        <3>3. restarts * MaxToolCalls \in Nat /\ Cardinality(Waiting(r)) \in Nat
            BY <2>1, <2>2, LimitTypes, LivesLemma, FS_CardinalityType
        <3>4. QED
            BY <2>2, <3>1, <3>2, <3>3, LimitTypes
    <2>4. ASSUME NEW o \in Ops PROVE made[r][o] <= (restarts + 1) * OpLimit[o]
        <3>1. made[r][o] \in Nat /\ OpLimit[o] \in Nat /\ IsFiniteSet(WaitingFor(r, o))
            BY <2>2, LimitTypes, FS_Subset DEF BInv, BudgetTypes, WaitingFor
        <3>2. made[r][o] + Cardinality(WaitingFor(r, o))
                  <= restarts * OpLimit[o] + Capped(used[r][o], OpLimit[o])
            BY DEF BInv, Spent, OpCovered
        <3>3. (restarts + 1) * OpLimit[o] = restarts * OpLimit[o] + OpLimit[o]
            BY <2>1, <3>1, LivesLemma
        <3>4. Capped(used[r][o], OpLimit[o]) \in Nat /\ Capped(used[r][o], OpLimit[o]) <= OpLimit[o]
            BY <2>1, <3>1, LimitTypes DEF Capped
        <3>5. restarts * OpLimit[o] \in Nat /\ Cardinality(WaitingFor(r, o)) \in Nat
            BY <2>1, <3>1, LivesLemma, FS_CardinalityType
        <3>6. QED
            BY <3>1, <3>2, <3>3, <3>4, <3>5
    <2>5. QED
        BY <2>3, <2>4
<1>2. QED
    BY <1>1, BudgetInvariance, PTL

\* The variables keep their types.
THEOREM TypeCorrect == Spec => []TypeOK
<1>1. IInv /\ BInv => TypeOK
    BY DEF IInv, BInv, BudgetTypes, TypeOK
<1>2. QED
    BY <1>1, Invariance, BudgetInvariance, PTL
=============================================================================
