---------------------- MODULE LeaseAndPromotionProofs ----------------------
(***************************************************************************)
(* What keeps one request one run and one mutation one version, for every  *)
(* value of the constants: the two coordinators of app/runtime/leases.py,  *)
(* on Postgres (ExecutionLease) and in a process that runs without it      *)
(* (LocalExecutionLease), and the promotion of snapshots (TaskPromotion).  *)
(*                                                                         *)
(* The inductive invariant on Postgres is IInv: the fences of the rows     *)
(* come from the sequence and are distinct, a claim never carries a fence  *)
(* newer than its row, and the active row of a thread has the newest fence *)
(* of the thread.  LocalInvariant says the same of the process's memory.   *)
(* PromotionInv and LedgerInv are explained where the third part begins.   *)
(***************************************************************************)
EXTENDS ExecutionLeaseRefinement, TaskPromotion, SequenceTheorems, TLAPS

\* What LocalExecutionLease has besides.
CONSTANT NoRequest
VARIABLES active, fences

\* Where rows are: a row that is not inserted has no thread, fence or answer,
\* and an inserted one has a fence the sequence has passed.
RowsOK ==
    \A r \in Requests :
        /\ runs[r].status = "NONE" <=> runs[r].thread = NoThread
        /\ runs[r].status = "NONE" => runs[r].fence = 0 /\ runs[r].answer = 0
        /\ runs[r].status # "NONE" => runs[r].fence > 0
        /\ runs[r].fence <= sequence

\* fence_token is unique among the inserted rows.
FencesDistinct ==
    \A q, r \in Requests :
        runs[q].fence = runs[r].fence /\ runs[r].fence > 0 => q = r

\* An active row has the newest fence of its thread and no answer.
ActiveIsNewest ==
    \A r \in Requests : Active(r) =>
        /\ runs[r].answer = 0
        /\ \A q \in Requests :
              runs[q].thread = runs[r].thread => runs[q].fence <= runs[r].fence

\* A handler's fence is at most its row's, and the row that still carries it
\* has not been answered.
ClaimsOK ==
    \A c \in claims :
        /\ 0 < c.fence
        /\ c.fence <= runs[c.request].fence
        /\ c.fence = runs[c.request].fence => runs[c.request].answer = 0

IInv ==
    /\ TypeOK
    /\ RowsOK
    /\ FencesDistinct
    /\ ActiveIsNewest
    /\ ClaimsOK
    /\ UnansweredIsReclaimable

-----------------------------------------------------------------------------

\* The active row of a thread is unique, because active rows have the newest
\* fence of their thread and fences are distinct.
LEMMA SingleActiveLemma == IInv => SingleActiveRun
<1> SUFFICES ASSUME IInv, NEW t \in Threads, NEW q \in ActiveOn(t), NEW r \in ActiveOn(t)
             PROVE  q = r
    BY DEF SingleActiveRun
<1>1. /\ q \in Requests /\ r \in Requests /\ Active(q) /\ Active(r)
      /\ runs[q].thread = t /\ runs[r].thread = t
    BY DEF ActiveOn
<1>2. runs[q].fence <= runs[r].fence /\ runs[r].fence <= runs[q].fence
    BY <1>1 DEF IInv, ActiveIsNewest
<1>3. runs[r] \in ExecutionRun /\ runs[q] \in ExecutionRun
    BY <1>1 DEF IInv, TypeOK
<1>4. runs[q].fence = runs[r].fence
    BY <1>2, <1>3 DEF ExecutionRun
<1>5. runs[r].fence > 0
    BY <1>1 DEF IInv, RowsOK, Active, ACTIVE_STATUSES
<1>6. QED
    BY <1>1, <1>4, <1>5 DEF IInv, FencesDistinct

\* claim's ORDER BY ... LIMIT 1 finds every active row of the thread.
LEMMA LatestActiveLemma ==
    ASSUME IInv, NEW t \in Threads PROVE LatestActive(t) = ActiveOn(t)
<1>1. SUFFICES ASSUME NEW r \in ActiveOn(t), NEW q \in ActiveOn(t)
               PROVE  runs[q].fence <= runs[r].fence
    BY DEF LatestActive
<1>2. QED
    BY <1>1 DEF ActiveOn, IInv, ActiveIsNewest

-----------------------------------------------------------------------------

LEMMA InitLemma == Init => IInv
BY LeaseAssumption
   DEF Init, IInv, TypeOK, RowsOK, FencesDistinct, ActiveIsNewest, ClaimsOK,
       UnansweredIsReclaimable, ExecutionRun, Statuses, Claims, Active,
       ACTIVE_STATUSES, RECLAIMABLE_STATUSES

\* A granted claim.
LEMMA ClaimLemma ==
    ASSUME IInv, NEW r \in Requests, NEW t \in Threads, NEW s \in Skews, Claim(r, t, s)
    PROVE  IInv'
<1>1. /\ r \in Requests /\ t \in Threads /\ t # NoThread
      /\ now \in Nat /\ s \in Int /\ LeaseTime \in Nat /\ sequence \in Nat
      /\ runs \in [Requests -> ExecutionRun] /\ claims \subseteq Claims
    BY LeaseAssumption DEF IInv, TypeOK
<1>2. /\ sequence' = sequence + 1 /\ now' = now
      /\ claims' = claims \cup {[request |-> r, fence |-> sequence + 1]}
      /\ runs[r].thread \in {t, NoThread} /\ runs[r].answer = 0
    BY DEF Claim
<1>3. runs'[r] = [status |-> "RUNNING", thread |-> t, expires |-> now + s + LeaseTime,
                  fence |-> sequence + 1, answer |-> 0]
    BY DEF Claim
<1>4. \A q \in Requests : q # r /\ q \in ActiveOn(t) =>
          runs'[q] = [runs[q] EXCEPT !.status = "RECOVERABLE", !.expires = 0]
    BY LatestActiveLemma DEF Claim
<1>5. \A q \in Requests : q # r /\ q \notin ActiveOn(t) => runs'[q] = runs[q]
    BY LatestActiveLemma DEF Claim
<1>6. \A q \in Requests : runs[q] \in ExecutionRun
    BY <1>1
<1>7. TypeOK'
  <2>1. runs'[r] \in ExecutionRun
    BY <1>1, <1>3 DEF ExecutionRun, Statuses, RECLAIMABLE_STATUSES, ACTIVE_STATUSES
  <2>2. ASSUME NEW q \in Requests, q # r PROVE runs'[q] \in ExecutionRun
    <3>1. runs[q] \in ExecutionRun
      BY <1>6
    <3>2. CASE q \in ActiveOn(t)
      <4>1. runs'[q] = [runs[q] EXCEPT !.status = "RECOVERABLE", !.expires = 0]
        BY <1>4, <2>2, <3>2
      <4>2. "RECOVERABLE" \in Statuses \cup {"NONE"}
        BY DEF Statuses, RECLAIMABLE_STATUSES
      <4>3. runs'[q] = [status |-> "RECOVERABLE", thread |-> runs[q].thread, expires |-> 0,
                        fence |-> runs[q].fence, answer |-> runs[q].answer]
        BY <3>1, <4>1 DEF ExecutionRun
      <4>4. QED
        BY <3>1, <4>2, <4>3 DEF ExecutionRun
    <3>3. CASE q \notin ActiveOn(t)
      BY <1>5, <2>2, <3>1, <3>3
    <3>4. QED
      BY <3>2, <3>3
  <2>3. runs' = [q \in Requests |-> runs'[q]]
    BY DEF Claim
  <2>4. runs' \in [Requests -> ExecutionRun]
    BY <2>1, <2>2, <2>3
  <2>5. QED
    BY <1>1, <1>2, <2>4 DEF TypeOK, Claims
<1>8. \A q \in Requests : q # r =>
          /\ runs'[q].thread = runs[q].thread
          /\ runs'[q].fence = runs[q].fence
          /\ runs'[q].answer = runs[q].answer
          /\ runs'[q].status = runs[q].status \/ (q \in ActiveOn(t) /\ runs'[q].status = "RECOVERABLE")
    BY <1>4, <1>5, <1>6, ZenonT(40) DEF ExecutionRun
<1>9. \A q \in Requests : runs[q].fence \in Nat /\ runs[q].fence <= sequence
    BY <1>6 DEF IInv, RowsOK, ExecutionRun
<1>10. RowsOK'
  <2>1. SUFFICES ASSUME NEW q \in Requests
                 PROVE  /\ runs'[q].status = "NONE" <=> runs'[q].thread = NoThread
                        /\ runs'[q].status = "NONE" => runs'[q].fence = 0 /\ runs'[q].answer = 0
                        /\ runs'[q].status # "NONE" => runs'[q].fence > 0
                        /\ runs'[q].fence <= sequence + 1
    BY <1>2 DEF RowsOK
  <2>2. CASE q = r
    BY <2>2, <1>1, <1>3
  <2>3. CASE q # r
    <3>1. runs[q].status = "NONE" <=> runs'[q].status = "NONE"
      BY <2>3, <1>8 DEF ActiveOn, Active, ACTIVE_STATUSES
    <3>2. QED
      BY <2>3, <3>1, <1>1, <1>8, <1>9 DEF IInv, RowsOK
  <2>4. QED
    BY <2>2, <2>3
<1>11. FencesDistinct'
    BY <1>1, <1>3, <1>8, <1>9 DEF IInv, FencesDistinct
<1>12. ActiveIsNewest'
  <2>1. SUFFICES ASSUME NEW p \in Requests, runs'[p].status \in ACTIVE_STATUSES
                 PROVE  /\ runs'[p].answer = 0
                        /\ \A q \in Requests :
                              runs'[q].thread = runs'[p].thread => runs'[q].fence <= runs'[p].fence
    BY DEF ActiveIsNewest, Active
  <2>2. CASE p = r
    BY <2>2, <1>1, <1>3, <1>8, <1>9
  <2>3. CASE p # r
    <3>1. p \notin ActiveOn(t) /\ Active(p) /\ runs'[p] = runs[p]
      BY <2>1, <2>3, <1>4, <1>5, <1>6 DEF ActiveOn, Active, ExecutionRun, ACTIVE_STATUSES
    <3>2. runs[p].thread # t
      BY <3>1 DEF ActiveOn
    <3>3. QED
      BY <2>3, <3>1, <3>2, <1>1, <1>3, <1>8 DEF IInv, ActiveIsNewest
  <2>4. QED
    BY <2>2, <2>3
<1>13. ClaimsOK'
  <2>1. SUFFICES ASSUME NEW c \in claims'
                 PROVE  /\ 0 < c.fence
                        /\ c.fence <= runs'[c.request].fence
                        /\ c.fence = runs'[c.request].fence => runs'[c.request].answer = 0
    BY DEF ClaimsOK
  <2>2. CASE c \in claims
    <3>1. c.request \in Requests /\ c.fence \in Nat
      BY <2>2, <1>1 DEF Claims
    <3>2. 0 < c.fence /\ c.fence <= runs[c.request].fence
          /\ (c.fence = runs[c.request].fence => runs[c.request].answer = 0)
      BY <2>2 DEF IInv, ClaimsOK
    <3>3. CASE c.request = r
      BY <3>1, <3>2, <3>3, <1>1, <1>3, <1>9
    <3>4. CASE c.request # r
      BY <3>1, <3>2, <3>4, <1>8
    <3>5. QED
      BY <3>3, <3>4
  <2>3. CASE c = [request |-> r, fence |-> sequence + 1]
    BY <2>3, <1>1, <1>3
  <2>4. QED
    BY <2>2, <2>3, <1>2
<1>14. UnansweredIsReclaimable'
    BY <1>3, <1>8
       DEF IInv, UnansweredIsReclaimable, RECLAIMABLE_STATUSES, ACTIVE_STATUSES
<1>15. QED
    BY <1>7, <1>10, <1>11, <1>12, <1>13, <1>14 DEF IInv

\* A renewed lease, a tick and a crash.
LEMMA HeartbeatLemma ==
    ASSUME IInv, NEW c \in claims, Heartbeat(c) PROVE IInv'
<1>1. /\ c.request \in Requests /\ LeaseTime \in Int /\ now \in Int
      /\ runs \in [Requests -> ExecutionRun]
    BY LeaseAssumption DEF IInv, TypeOK, Claims
<1>2. /\ now' = now /\ sequence' = sequence /\ claims' = claims
      /\ runs' = [runs EXCEPT ![c.request].expires = now + LeaseTime]
    BY DEF Heartbeat
<1>3. \A q \in Requests :
          /\ runs'[q].status = runs[q].status
          /\ runs'[q].thread = runs[q].thread
          /\ runs'[q].fence = runs[q].fence
          /\ runs'[q].answer = runs[q].answer
    BY <1>1, <1>2 DEF ExecutionRun
<1>4. runs' \in [Requests -> ExecutionRun]
    BY <1>1, <1>2 DEF ExecutionRun
<1>5. TypeOK'
    BY <1>2, <1>4 DEF IInv, TypeOK
<1>6. RowsOK' /\ FencesDistinct' /\ UnansweredIsReclaimable'
    BY <1>2, <1>3 DEF IInv, RowsOK, FencesDistinct, UnansweredIsReclaimable
<1>7. ActiveIsNewest'
    BY <1>2, <1>3 DEF IInv, ActiveIsNewest, Active
<1>8. ClaimsOK'
    BY <1>2, <1>3 DEF IInv, ClaimsOK, TypeOK, Claims
<1>9. QED
    BY <1>5, <1>6, <1>7, <1>8 DEF IInv

LEMMA TickLemma == IInv /\ Tick => IInv'
BY DEF Tick, IInv, TypeOK, RowsOK, FencesDistinct, ActiveIsNewest, ClaimsOK,
       UnansweredIsReclaimable, Active

LEMMA AbandonLemma == ASSUME IInv, NEW c \in claims, Abandon(c) PROVE IInv'
BY DEF Abandon, IInv, TypeOK, RowsOK, FencesDistinct, ActiveIsNewest, ClaimsOK,
       UnansweredIsReclaimable, Active

\* A finished run.
LEMMA FinishLemma ==
    ASSUME IInv, NEW c \in claims, NEW status \in FinishStatuses, Finish(c, status)
    PROVE  IInv'
<1>1. /\ c.request \in Requests /\ c.fence \in Nat /\ c.fence > 0
      /\ runs \in [Requests -> ExecutionRun] /\ claims \subseteq Claims
    BY DEF IInv, TypeOK, ClaimsOK, Claims
<1>2. /\ now' = now /\ sequence' = sequence /\ claims' = claims \ {c}
    BY DEF Finish
<1>3. CASE ~FenceMatches(c)
  <2>1. runs' = runs
    BY <1>3 DEF Finish
  <2>2. QED
    BY <1>2, <2>1 DEF IInv, TypeOK, RowsOK, FencesDistinct, ActiveIsNewest, ClaimsOK,
                      UnansweredIsReclaimable, Active
<1>4. CASE FenceMatches(c)
  <2>1. runs' = [runs EXCEPT ![c.request].status = status,
                             ![c.request].expires = 0,
                             ![c.request].answer = Response(c, status)]
    BY <1>4 DEF Finish
  <2>2. Response(c, status) \in Nat /\ runs[c.request].fence = c.fence
    BY <1>1, <1>4 DEF Response, FenceMatches
  <2>3. status \in Statuses \cup {"NONE"} /\ status # "NONE" /\ status \notin ACTIVE_STATUSES
    BY DEF FinishStatuses, Statuses, RECLAIMABLE_STATUSES, ACTIVE_STATUSES
  <2>4. runs' \in [Requests -> ExecutionRun]
    BY <1>1, <2>1, <2>2, <2>3 DEF ExecutionRun
  <2>5. /\ runs'[c.request].status = status
        /\ runs'[c.request].thread = runs[c.request].thread
        /\ runs'[c.request].fence = runs[c.request].fence
        /\ runs'[c.request].answer = Response(c, status)
    BY <1>1, <2>1 DEF ExecutionRun
  <2>6. \A q \in Requests : q # c.request => runs'[q] = runs[q]
    BY <1>1, <2>1
  <2>7. runs[c.request].status # "NONE"
    BY <1>1, <2>2 DEF IInv, RowsOK
  <2>8. TypeOK'
    BY <1>1, <1>2, <2>4 DEF IInv, TypeOK
  <2>9. \A q \in Requests :
            /\ runs'[q].thread = runs[q].thread
            /\ runs'[q].fence = runs[q].fence
    BY <2>5, <2>6
  <2>10. RowsOK' /\ FencesDistinct'
    BY <1>2, <2>3, <2>5, <2>6, <2>7, <2>9 DEF IInv, RowsOK, FencesDistinct
  <2>11. ActiveIsNewest'
    BY <2>3, <2>5, <2>6, <2>9 DEF IInv, ActiveIsNewest, Active
  <2>12. ClaimsOK'
    <3>1. SUFFICES ASSUME NEW d \in claims, d # c
                   PROVE  /\ 0 < d.fence
                          /\ d.fence <= runs'[d.request].fence
                          /\ d.fence = runs'[d.request].fence => runs'[d.request].answer = 0
      BY <1>2 DEF ClaimsOK
    <3>2. d \in Claims /\ c \in Claims
      BY <1>1
    <3>3. d.request = c.request => d.fence # c.fence
      BY <3>1, <3>2 DEF Claims
    <3>4. d.request \in Requests
      BY <3>2 DEF Claims
    <3>5. QED
      BY <3>1, <3>3, <3>4, <2>2, <2>6, <2>9 DEF IInv, ClaimsOK
  <2>13. UnansweredIsReclaimable'
    <3>1. Response(c, status) = 0 => status \in RECLAIMABLE_STATUSES
      BY <1>1 DEF Response, RECLAIMABLE_STATUSES
    <3>2. QED
      BY <3>1, <2>5, <2>6 DEF IInv, UnansweredIsReclaimable
  <2>14. QED
    BY <2>8, <2>10, <2>11, <2>12, <2>13 DEF IInv
<1>5. QED
    BY <1>3, <1>4

\* IInv is inductive.
LEMMA StepLemma == IInv /\ [Next]_vars => IInv'
<1> SUFFICES ASSUME IInv, [Next]_vars PROVE IInv'
    OBVIOUS
<1>1. CASE \E r \in Requests, t \in Threads, s \in Skews : Claim(r, t, s)
    BY <1>1, ClaimLemma
<1>2. CASE \E c \in claims : Heartbeat(c)
    BY <1>2, HeartbeatLemma
<1>3. CASE \E c \in claims, status \in FinishStatuses : Finish(c, status)
    BY <1>3, FinishLemma
<1>4. CASE \E c \in claims : Abandon(c)
    BY <1>4, AbandonLemma
<1>5. CASE Tick
    BY <1>5, TickLemma
<1>6. CASE UNCHANGED vars
    BY <1>6 DEF vars, IInv, TypeOK, RowsOK, FencesDistinct, ActiveIsNewest, ClaimsOK,
                UnansweredIsReclaimable, Active
<1>7. QED
    BY <1>1, <1>2, <1>3, <1>4, <1>5, <1>6 DEF Next

\* Every reachable state satisfies the inductive invariant.
THEOREM Invariance == Spec => []IInv
BY InitLemma, StepLemma, PTL DEF Spec

-----------------------------------------------------------------------------

\* Types of the table, the sequence and the claims.
THEOREM TypeCorrect == Spec => []TypeOK
<1>1. IInv => TypeOK
    BY DEF IInv
<1>2. QED
    BY <1>1, Invariance, PTL

\* One active run per conversation thread, without the unique index.
THEOREM OneActiveRun == Spec => []SingleActiveRun
BY Invariance, SingleActiveLemma, PTL

\* can_promote admits only the newest grant of a thread.
THEOREM OnlyNewestPromotes == Spec => []PromoterIsNewest
<1>1. IInv => PromoterIsNewest
  <2> SUFFICES ASSUME IInv, NEW c \in claims, NEW d \in claims, CanPromote(c),
                      runs[d.request].thread = runs[c.request].thread
               PROVE  d.fence <= c.fence
      BY DEF PromoterIsNewest
  <2>1. c \in Claims /\ d \in Claims
      BY DEF IInv, TypeOK
  <2>2. d.request \in Requests /\ c.request \in Requests /\ d.fence \in Nat
      BY <2>1 DEF Claims
  <2>3. runs[d.request].fence \in Nat /\ runs[c.request].fence \in Nat
      BY <2>2 DEF IInv, TypeOK, ExecutionRun
  <2>4. Active(c.request) /\ runs[c.request].fence = c.fence
      BY DEF CanPromote, Owns, FenceMatches
  <2>5. runs[d.request].fence <= c.fence
      BY <2>2, <2>4 DEF IInv, ActiveIsNewest
  <2>6. d.fence <= runs[d.request].fence
      BY DEF IInv, ClaimsOK
  <2>7. QED
      BY <2>2, <2>3, <2>4, <2>5, <2>6
<1>2. QED
    BY <1>1, Invariance, PTL

\* No request without a response is stranded in a status claim refuses.
THEOREM NoRequestStranded == Spec => []UnansweredIsReclaimable
<1>1. IInv => UnansweredIsReclaimable
    BY DEF IInv
<1>2. QED
    BY <1>1, Invariance, PTL

-----------------------------------------------------------------------------

\* Stored responses never change: claim refuses an answered request, and a
\* handler that still matches its row's fence has not answered it.
THEOREM AnswersNeverChange == Spec => AnswerIsFinal
<1>1. ASSUME IInv, [Next]_vars, NEW r \in Requests, runs[r].answer # 0
      PROVE  runs'[r] = runs[r]
  <2>1. CASE \E q \in Requests, t \in Threads, s \in Skews : Claim(q, t, s)
    <3>1. PICK q \in Requests, t \in Threads, s \in Skews : Claim(q, t, s)
      BY <2>1
    <3>2. r # q
      BY <3>1, <1>1 DEF Claim
    <3>3. r \notin LatestActive(t)
      BY <1>1 DEF LatestActive, ActiveOn, IInv, ActiveIsNewest
    <3>4. QED
      BY <3>1, <3>2, <3>3 DEF Claim
  <2>2. CASE \E c \in claims : Heartbeat(c)
    <3>1. PICK c \in claims : Heartbeat(c)
      BY <2>2
    <3>2. c.request # r
      BY <3>1, <1>1 DEF Heartbeat, Owns, FenceMatches, IInv, ActiveIsNewest
    <3>3. QED
      BY <3>1, <3>2, <1>1 DEF Heartbeat, IInv, TypeOK
  <2>3. CASE \E c \in claims, status \in FinishStatuses : Finish(c, status)
    <3>1. PICK c \in claims, status \in FinishStatuses : Finish(c, status)
      BY <2>3
    <3>2. FenceMatches(c) => c.request # r
      BY <1>1 DEF FenceMatches, IInv, ClaimsOK
    <3>3. QED
      BY <3>1, <3>2, <1>1 DEF Finish, IInv, TypeOK
  <2>4. CASE \E c \in claims : Abandon(c)
    BY <2>4 DEF Abandon
  <2>5. CASE Tick \/ UNCHANGED vars
    BY <2>5 DEF Tick, vars
  <2>6. QED
    BY <1>1, <2>1, <2>2, <2>3, <2>4, <2>5 DEF Next
<1>2. IInv /\ [Next]_vars => [\A r \in Requests : runs[r].answer # 0 => runs'[r] = runs[r]]_vars
  BY <1>1
<1>3. QED
  BY <1>2, Invariance, PTL DEF Spec, AnswerIsFinal

\* A live lease ends by its owner, by the clock, or within the clock skew of its
\* end.
THEOREM LiveLeaseNotStolen == Spec => LeaseOutlastsSkew
<1>1. ASSUME IInv, [Next]_vars, NEW c \in claims \cap claims', CanPromote(c),
             now' = now, ~CanPromote(c)'
      PROVE  \E s \in Skews : runs[c.request].expires <= now + s
  <2>1. /\ c \in claims /\ c \in claims' /\ c.request \in Requests /\ now \in Int
        /\ runs \in [Requests -> ExecutionRun] /\ claims \subseteq Claims
        /\ LeaseTime \in Int /\ LeaseTime > 0
    BY <1>1, LeaseAssumption DEF IInv, TypeOK, Claims
  <2>2. /\ Active(c.request) /\ runs[c.request].fence = c.fence
        /\ runs[c.request].expires > now
    BY <1>1 DEF CanPromote, Owns, FenceMatches
  <2>3. ASSUME runs'[c.request] = runs[c.request] PROVE FALSE
    BY <1>1, <2>3 DEF CanPromote, Owns, FenceMatches, Active
  <2>4. CASE \E q \in Requests, t \in Threads, s \in Skews : Claim(q, t, s)
    <3>1. PICK q \in Requests, t \in Threads, s \in Skews : Claim(q, t, s)
      BY <2>4
    <3>2. runs[c.request].thread # NoThread
      BY <1>1, <2>1, <2>2 DEF IInv, RowsOK, Active, ACTIVE_STATUSES
    <3>3. c.request = q => c.request \in ActiveOn(t)
      BY <2>1, <2>2, <3>1, <3>2 DEF Claim, ActiveOn
    <3>4. c.request # q => c.request \in LatestActive(t)
      BY <2>1, <2>3, <3>1 DEF Claim
    <3>5. c.request \in LatestActive(t)
      BY <1>1, <3>3, <3>4, LatestActiveLemma
    <3>6. QED
      BY <3>1, <3>5 DEF Claim, Expired
  <2>5. CASE \E d \in claims : Heartbeat(d)
    <3>1. PICK d \in claims : Heartbeat(d)
      BY <2>5
    <3>2. d.request = c.request
      BY <2>1, <2>3, <3>1 DEF Heartbeat
    <3>3. runs'[c.request] = [runs[c.request] EXCEPT !.expires = now + LeaseTime]
      BY <2>1, <3>1, <3>2 DEF Heartbeat
    <3>4. /\ runs'[c.request].expires = now + LeaseTime
          /\ runs'[c.request].status = runs[c.request].status
          /\ runs'[c.request].fence = runs[c.request].fence
      BY <2>1, <3>3 DEF ExecutionRun
    <3>5. CanPromote(c)'
      BY <1>1, <2>1, <2>2, <3>4 DEF CanPromote, Owns, FenceMatches, Active
    <3>6. QED
      BY <1>1, <3>5
  <2>6. CASE \E d \in claims, status \in FinishStatuses : Finish(d, status)
    <3>1. PICK d \in claims, status \in FinishStatuses : Finish(d, status)
      BY <2>6
    <3>2. d # c
      BY <2>1, <3>1 DEF Finish
    <3>3. FenceMatches(d) => d.request # c.request
      BY <2>1, <2>2, <3>2 DEF FenceMatches, Claims
    <3>4. runs'[c.request] = runs[c.request]
      BY <2>1, <3>1, <3>3 DEF Finish
    <3>5. QED
      BY <2>3, <3>4
  <2>7. CASE \E d \in claims : Abandon(d)
    BY <2>3, <2>7 DEF Abandon
  <2>8. CASE Tick
    BY <1>1, <2>1, <2>8 DEF Tick
  <2>9. CASE UNCHANGED vars
    BY <2>3, <2>9 DEF vars
  <2>10. QED
    BY <1>1, <2>4, <2>5, <2>6, <2>7, <2>8, <2>9 DEF Next
<1>2. IInv /\ [Next]_vars =>
        [\A c \in claims \cap claims' :
            CanPromote(c) /\ now' = now /\ ~CanPromote(c)'
                => \E s \in Skews : runs[c.request].expires <= now + s]_vars
  BY <1>1
<1>3. QED
  BY <1>2, Invariance, PTL DEF Spec, LeaseOutlastsSkew
-----------------------------------------------------------------------------

\* The coordinator implements the abstract thread lease.
THEOREM Refinement == Spec => ImplementsThreadLease
<1>1. Init => Abstract!LeaseInit
  BY LeaseAssumption
     DEF Init, Abstract!LeaseInit, ActiveOn, Active, ACTIVE_STATUSES
<1>2. ASSUME IInv, IInv', NEW r \in Requests, NEW t \in Threads, NEW s \in Skews,
             Claim(r, t, s)
      PROVE  Abstract!Grant(r, t)
  <2>1. /\ r \in Requests /\ t \in Threads /\ t # NoThread /\ sequence \in Nat
        /\ runs \in [Requests -> ExecutionRun]
    BY <1>2, LeaseAssumption DEF IInv, TypeOK
  <2>2. /\ sequence' = sequence + 1 /\ runs[r].answer = 0
        /\ runs[r].thread \in {t, NoThread}
    BY <1>2 DEF Claim
  <2>3. /\ runs'[r].status = "RUNNING" /\ runs'[r].thread = t
        /\ runs'[r].fence = sequence + 1 /\ runs'[r].answer = 0
    BY <1>2 DEF Claim
  <2>4. LatestActive(t) = ActiveOn(t)
    BY <1>2, LatestActiveLemma
  <2>5. \A q \in Requests : q # r /\ q \in ActiveOn(t) =>
            runs'[q] = [runs[q] EXCEPT !.status = "RECOVERABLE", !.expires = 0]
    BY <1>2, <2>4 DEF Claim
  <2>6. \A q \in Requests : q # r /\ q \notin ActiveOn(t) => runs'[q] = runs[q]
    BY <1>2, <2>4 DEF Claim
  <2>7. \A q \in Requests : q # r =>
            runs'[q].fence = runs[q].fence /\ runs'[q].answer = runs[q].answer
    BY <2>1, <2>5, <2>6, ZenonT(40) DEF ExecutionRun
  <2>8. \A q \in ActiveOn(t) : q # r => runs'[q].status = "RECOVERABLE"
    BY <2>1, <2>5 DEF ExecutionRun, ActiveOn
  <2>9. \A u \in Threads \ {t} : r \notin ActiveOn(u)
    BY <2>1, <2>2, LeaseAssumption DEF ActiveOn
  <2>10. ActiveOn(t)' = {r}
    <3>1. r \in ActiveOn(t)'
      BY <2>1, <2>3 DEF ActiveOn, Active, ACTIVE_STATUSES
    <3>2. \A q \in Requests : q # r => q \notin ActiveOn(t)'
      BY <2>1, <2>6, <2>8 DEF ActiveOn, Active, ACTIVE_STATUSES
    <3>3. QED
      BY <3>1, <3>2 DEF ActiveOn
  <2>11. \A u \in Threads : u # t => ActiveOn(u)' = ActiveOn(u)
    <3>1. ASSUME NEW u \in Threads, u # t, NEW q \in Requests
          PROVE  q \in ActiveOn(u)' <=> q \in ActiveOn(u)
      <4>1. CASE q = r
        BY <2>3, <2>9, <3>1, <4>1 DEF ActiveOn
      <4>2. CASE q # r /\ q \in ActiveOn(t)
        BY <2>8, <3>1, <4>2 DEF ActiveOn, Active, ACTIVE_STATUSES
      <4>3. CASE q # r /\ q \notin ActiveOn(t)
        BY <2>6, <3>1, <4>3 DEF ActiveOn, Active
      <4>4. QED
        BY <4>1, <4>2, <4>3
    <3>2. QED
      BY <3>1 DEF ActiveOn
  <2>12. [u \in Threads |-> ActiveOn(u)]' = [[u \in Threads |-> ActiveOn(u)] EXCEPT ![t] = {r}]
    BY <2>10, <2>11
  <2>13. [q \in Requests |-> runs[q].fence]'
             = [[q \in Requests |-> runs[q].fence] EXCEPT ![r] = sequence']
    BY <2>2, <2>3, <2>7
  <2>14. {q \in Requests : runs[q].answer # 0}' = {q \in Requests : runs[q].answer # 0}
    BY <2>2, <2>3, <2>7
  <2>15. QED
    BY <2>1, <2>2, <2>9, <2>12, <2>13, <2>14 DEF Abstract!Grant
<1>3. ASSUME IInv, NEW c \in claims, NEW status \in FinishStatuses, Finish(c, status),
             FenceMatches(c)
      PROVE  Abstract!End(c.request)
  <2>1. /\ c.request \in Requests /\ c.fence \in Nat /\ c.fence > 0
        /\ runs[c.request].fence = c.fence
        /\ runs \in [Requests -> ExecutionRun]
    BY <1>3 DEF IInv, TypeOK, Claims, ClaimsOK, FenceMatches
  <2>2. runs[c.request].answer = 0
    BY <1>3, <2>1 DEF IInv, ClaimsOK
  <2>3. runs' = [runs EXCEPT ![c.request].status = status,
                             ![c.request].expires = 0,
                             ![c.request].answer = Response(c, status)]
    BY <1>3 DEF Finish
  <2>4. /\ runs'[c.request].status = status
        /\ runs'[c.request].fence = runs[c.request].fence
        /\ runs'[c.request].answer = Response(c, status)
    BY <2>1, <2>3 DEF ExecutionRun
  <2>5. \A q \in Requests : q # c.request => runs'[q] = runs[q]
    BY <2>1, <2>3
  <2>6. status \notin ACTIVE_STATUSES
    BY <1>3 DEF FinishStatuses, ACTIVE_STATUSES
  <2>7. \A t \in Threads : ActiveOn(t)' = ActiveOn(t) \ {c.request}
    BY <2>4, <2>5, <2>6 DEF ActiveOn, Active
  <2>8. [t \in Threads |-> ActiveOn(t)]'
            = [t \in Threads |-> [u \in Threads |-> ActiveOn(u)][t] \ {c.request}]
    BY <2>7
  <2>9. [q \in Requests |-> runs[q].fence]' = [q \in Requests |-> runs[q].fence]
    BY <2>4, <2>5
  <2>10. {q \in Requests : runs[q].answer # 0}' \in
            {{q \in Requests : runs[q].answer # 0},
             {q \in Requests : runs[q].answer # 0} \cup {c.request}}
    <3>1. CASE Response(c, status) = 0
      BY <2>2, <2>4, <2>5, <3>1
    <3>2. CASE Response(c, status) # 0
      BY <2>1, <2>4, <2>5, <3>2
    <3>3. QED
      BY <3>1, <3>2
  <2>11. sequence' = sequence
    BY <1>3 DEF Finish
  <2>12. QED
    BY <2>1, <2>2, <2>8, <2>9, <2>10, <2>11 DEF Abstract!End
<1>4. ASSUME IInv, runs' = runs, sequence' = sequence
      PROVE  UNCHANGED Abstract!leaseVars
  BY <1>4 DEF Abstract!leaseVars, ActiveOn, Active
<1>5. ASSUME IInv, NEW c \in claims, Heartbeat(c)
      PROVE  UNCHANGED Abstract!leaseVars
  <2>1. /\ runs \in [Requests -> ExecutionRun] /\ c.request \in Requests
        /\ sequence' = sequence
        /\ runs' = [runs EXCEPT ![c.request].expires = now + LeaseTime]
    BY <1>5 DEF IInv, TypeOK, Claims, Heartbeat
  <2>2. \A q \in Requests :
            /\ runs'[q].status = runs[q].status /\ runs'[q].thread = runs[q].thread
            /\ runs'[q].fence = runs[q].fence /\ runs'[q].answer = runs[q].answer
    BY <2>1 DEF ExecutionRun
  <2>3. \A t \in Threads : ActiveOn(t)' = ActiveOn(t)
    BY <2>2 DEF ActiveOn, Active
  <2>4. QED
    BY <2>1, <2>2, <2>3 DEF Abstract!leaseVars
<1>6. IInv /\ IInv' /\ [Next]_vars => [Abstract!LeaseNext]_(Abstract!leaseVars)
  <2> SUFFICES ASSUME IInv, IInv', [Next]_vars
               PROVE  Abstract!LeaseNext \/ UNCHANGED Abstract!leaseVars
    OBVIOUS
  <2>1. CASE \E r \in Requests, t \in Threads, s \in Skews : Claim(r, t, s)
    BY <1>2, <2>1 DEF Abstract!LeaseNext
  <2>2. CASE \E c \in claims : Heartbeat(c)
    BY <1>5, <2>2
  <2>3. CASE \E c \in claims, status \in FinishStatuses : Finish(c, status)
    <3>1. PICK c \in claims, status \in FinishStatuses : Finish(c, status)
      BY <2>3
    <3>2. c.request \in Requests
      BY DEF IInv, TypeOK, Claims
    <3>3. CASE FenceMatches(c)
      BY <1>3, <3>1, <3>2, <3>3 DEF Abstract!LeaseNext
    <3>4. CASE ~FenceMatches(c)
      BY <1>4, <3>1, <3>4 DEF Finish
    <3>5. QED
      BY <3>3, <3>4
  <2>4. CASE \E c \in claims : Abandon(c)
    BY <1>4, <2>4 DEF Abandon
  <2>5. CASE Tick \/ UNCHANGED vars
    BY <1>4, <2>5 DEF Tick, vars
  <2>6. QED
    BY <2>1, <2>2, <2>3, <2>4, <2>5 DEF Next
<1>7. QED
  BY <1>1, <1>6, Invariance, PTL DEF Spec, ImplementsThreadLease, Abstract!LeaseSpec

-----------------------------------------------------------------------------
(* The coordinator of a process without Postgres (LocalExecutionLease).    *)
(* Its runs, claims and clock stand where those of the Postgres one stood; *)
(* its pointers and counters are its own.                                  *)
(*                                                                         *)
(* Its inductive invariant is LocalInvariant: whatever a thread's pointer  *)
(* finds has the thread's newest fence, a run that holds an answer is not  *)
(* active, and a handler acts under a fence that is at most its run's.     *)

Local == INSTANCE LocalExecutionLease

\* A run that exists has a thread and a fence that thread handed out; a run with
\* an answer has ended.
LocalRunsOK ==
    \A r \in Requests :
        /\ runs[r].status = "NONE" <=> runs[r].thread = NoThread
        /\ runs[r].status = "NONE" => runs[r].fence = 0 /\ runs[r].answer = 0
        /\ runs[r].status # "NONE" => runs[r].fence <= fences[runs[r].thread]
        /\ runs[r].answer # 0 => runs[r].status \in {"WAITING_INTERRUPT", "COMPLETED"}

\* The pointer finds the newest run of its thread, or nothing.
PointerIsNewest ==
    \A t \in Threads : active[t] # NoRequest =>
        /\ runs[active[t]].thread = t
        /\ runs[active[t]].fence = fences[t]

\* The run that still carries the fence of a live handler has no answer.
LocalClaimsOK ==
    \A c \in claims :
        /\ 0 < c.fence
        /\ c.fence <= runs[c.request].fence
        /\ c.fence = runs[c.request].fence => runs[c.request].answer = 0

LocalInvariant == Local!TypeOK /\ LocalRunsOK /\ PointerIsNewest /\ LocalClaimsOK

-----------------------------------------------------------------------------

LEMMA LocalInitLemma == ASSUME NoRequest \notin Requests PROVE Local!Init => LocalInvariant
BY LeaseAssumption
   DEF Local!Init, LocalInvariant, Local!TypeOK, LocalRunsOK, PointerIsNewest, LocalClaimsOK,
       Local!ExecutionRun, Local!Statuses, Local!Claims

\* What the retirement of an expired run changes: the status of an active run.
LEMMA RetiredLemma ==
    ASSUME LocalInvariant, NEW t \in Threads
    PROVE  /\ Local!Retired(t) \in [Requests -> Local!ExecutionRun]
           /\ \A q \in Requests :
                 /\ Local!Retired(t)[q].thread = runs[q].thread
                 /\ Local!Retired(t)[q].fence = runs[q].fence
                 /\ Local!Retired(t)[q].answer = runs[q].answer
                 /\ \/ Local!Retired(t)[q] = runs[q]
                    \/ /\ runs[q].status \in Local!ACTIVE_STATUSES
                       /\ Local!Retired(t)[q].status = "RECOVERABLE"
<1>1. ASSUME NEW q \in Requests
      PROVE  /\ Local!Retired(t)[q] \in Local!ExecutionRun
             /\ Local!Retired(t)[q].thread = runs[q].thread
             /\ Local!Retired(t)[q].fence = runs[q].fence
             /\ Local!Retired(t)[q].answer = runs[q].answer
             /\ \/ Local!Retired(t)[q] = runs[q]
                \/ /\ runs[q].status \in Local!ACTIVE_STATUSES
                   /\ Local!Retired(t)[q].status = "RECOVERABLE"
    <2>1. runs[q] \in Local!ExecutionRun
        BY DEF LocalInvariant, Local!TypeOK
    <2>2. CASE q \in Local!Current(t)
        <3>1. Local!Retired(t)[q] = [runs[q] EXCEPT !.status = "RECOVERABLE"]
            BY <2>2 DEF Local!Retired
        <3>2. runs[q].status \in Local!ACTIVE_STATUSES
            BY <2>2 DEF Local!Current, Local!IsActive
        <3>3. QED
            BY <2>1, <3>1, <3>2 DEF Local!ExecutionRun, Local!Statuses, Local!RECLAIMABLE_STATUSES
    <2>3. CASE q \notin Local!Current(t)
        BY <2>1, <2>3 DEF Local!Retired
    <2>4. QED
        BY <2>2, <2>3
<1>2. Local!Retired(t) = [q \in Requests |-> Local!Retired(t)[q]]
    BY DEF Local!Retired
<1>3. QED
    BY <1>1, <1>2

\* A granted claim.
LEMMA LocalClaimLemma ==
    ASSUME NoRequest \notin Requests, LocalInvariant,
           NEW r \in Requests, NEW t \in Threads, Local!Claim(r, t)
    PROVE  LocalInvariant'
<1>1. /\ runs \in [Requests -> Local!ExecutionRun] /\ claims \subseteq Local!Claims
      /\ active \in [Threads -> Requests \cup {NoRequest}] /\ fences \in [Threads -> Nat]
      /\ now \in Nat /\ LeaseTime \in Nat /\ t # NoThread /\ r # NoRequest
    BY LeaseAssumption DEF LocalInvariant, Local!TypeOK
<1>2. /\ now' = now
      /\ fences' = [fences EXCEPT ![t] = @ + 1]
      /\ active' = [active EXCEPT ![t] = r]
      /\ claims' = claims \cup {[request |-> r, fence |-> fences[t] + 1]}
      /\ runs[r].answer = 0 /\ runs[r].thread \in {t, NoThread}
    BY DEF Local!Claim, LocalInvariant, LocalRunsOK
<1>3. runs'[r] = [status |-> "RUNNING", thread |-> t, expires |-> now + LeaseTime,
                  fence |-> fences[t] + 1, answer |-> 0]
    BY RetiredLemma DEF Local!Claim
<1>4. ASSUME NEW q \in Requests, q # r PROVE runs'[q] = Local!Retired(t)[q]
    BY <1>4, RetiredLemma DEF Local!Claim
<1>5. runs' \in [Requests -> Local!ExecutionRun]
    <2>1. runs'[r] \in Local!ExecutionRun
        BY <1>1, <1>3
           DEF Local!ExecutionRun, Local!Statuses, Local!RECLAIMABLE_STATUSES,
               Local!ACTIVE_STATUSES
    <2>2. QED
        BY <2>1, <1>3, RetiredLemma DEF Local!Claim
<1>6. \A q \in Requests : q # r =>
          /\ runs'[q].thread = runs[q].thread
          /\ runs'[q].fence = runs[q].fence
          /\ runs'[q].answer = runs[q].answer
          /\ \/ runs'[q].status = runs[q].status
             \/ runs[q].status \in Local!ACTIVE_STATUSES /\ runs'[q].status = "RECOVERABLE"
    BY <1>4, RetiredLemma
<1>7. \A q \in Requests :
          /\ runs[q].fence \in Nat
          /\ runs[q].status # "NONE" => runs[q].thread \in Threads
          /\ runs[q].thread = t => runs[q].fence <= fences[t]
    BY <1>1 DEF Local!ExecutionRun, LocalInvariant, LocalRunsOK
<1>8. Local!TypeOK'
    BY <1>1, <1>2, <1>5 DEF Local!TypeOK, Local!Claims
<1>9. LocalRunsOK'
    <2>1. SUFFICES ASSUME NEW q \in Requests
                   PROVE  /\ runs'[q].status = "NONE" <=> runs'[q].thread = NoThread
                          /\ runs'[q].status = "NONE" => runs'[q].fence = 0 /\ runs'[q].answer = 0
                          /\ runs'[q].status # "NONE" =>
                                runs'[q].fence <= fences'[runs'[q].thread]
                          /\ runs'[q].answer # 0 =>
                                runs'[q].status \in {"WAITING_INTERRUPT", "COMPLETED"}
        BY DEF LocalRunsOK
    <2>2. CASE q = r
        BY <2>2, <1>1, <1>2, <1>3
    <2>3. CASE q # r
        <3>1. runs[q].status = "NONE" <=> runs'[q].status = "NONE"
            BY <2>3, <1>6 DEF Local!ACTIVE_STATUSES
        <3>2. runs'[q].answer # 0 => runs'[q].status = runs[q].status
            BY <2>3, <1>6 DEF Local!ACTIVE_STATUSES, LocalInvariant, LocalRunsOK
        <3>3. \A s \in Threads : fences[s] <= fences'[s]
            BY <1>1, <1>2
        <3>4. runs[q].status # "NONE" => runs[q].fence <= fences'[runs[q].thread]
            BY <1>1, <1>2, <1>7, <3>3 DEF LocalInvariant, LocalRunsOK
        <3>5. QED
            BY <2>3, <3>1, <3>2, <3>4, <1>6 DEF LocalInvariant, LocalRunsOK
    <2>4. QED
        BY <2>2, <2>3
<1>10. PointerIsNewest'
    <2>1. SUFFICES ASSUME NEW s \in Threads, active'[s] # NoRequest
                   PROVE  runs'[active'[s]].thread = s /\ runs'[active'[s]].fence = fences'[s]
        BY DEF PointerIsNewest
    <2>2. CASE s = t
        BY <2>2, <1>1, <1>2, <1>3
    <2>3. CASE s # t
        <3>1. active'[s] = active[s] /\ fences'[s] = fences[s] /\ active[s] \in Requests
            BY <2>1, <2>3, <1>1, <1>2
        <3>2. runs[active[s]].thread = s /\ runs[active[s]].fence = fences[s]
            BY <2>1, <3>1 DEF LocalInvariant, PointerIsNewest
        <3>3. active[s] # r
            BY <2>3, <3>2, <1>2, LeaseAssumption
        <3>4. QED
            BY <3>1, <3>2, <3>3, <1>6
    <2>4. QED
        BY <2>2, <2>3
<1>11. LocalClaimsOK'
    <2>1. SUFFICES ASSUME NEW c \in claims'
                   PROVE  /\ 0 < c.fence
                          /\ c.fence <= runs'[c.request].fence
                          /\ c.fence = runs'[c.request].fence => runs'[c.request].answer = 0
        BY DEF LocalClaimsOK
    <2>2. CASE c \in claims
        <3>1. c.request \in Requests /\ c.fence \in Nat
            BY <2>2, <1>1 DEF Local!Claims
        <3>2. /\ 0 < c.fence /\ c.fence <= runs[c.request].fence
              /\ c.fence = runs[c.request].fence => runs[c.request].answer = 0
            BY <2>2 DEF LocalInvariant, LocalClaimsOK
        <3>3. CASE c.request = r
            <4>1. runs[r].status # "NONE"
                BY <3>1, <3>2, <3>3, <1>7 DEF LocalInvariant, LocalRunsOK
            <4>2. runs[r].fence <= fences[t]
                BY <4>1, <1>2, <1>7 DEF LocalInvariant, LocalRunsOK
            <4>3. QED
                BY <3>1, <3>2, <3>3, <4>2, <1>1, <1>3, <1>7
        <3>4. CASE c.request # r
            BY <3>1, <3>2, <3>4, <1>6
        <3>5. QED
            BY <3>3, <3>4
    <2>3. CASE c = [request |-> r, fence |-> fences[t] + 1]
        BY <2>3, <1>1, <1>3
    <2>4. QED
        BY <2>2, <2>3, <1>2
<1>12. QED
    BY <1>8, <1>9, <1>10, <1>11 DEF LocalInvariant

\* A claim that is refused after it has retired the expired run.
LEMMA ClaimRefusedLemma ==
    ASSUME LocalInvariant, NEW r \in Requests, NEW t \in Threads, Local!ClaimRefused(r, t)
    PROVE  LocalInvariant'
<1>1. /\ runs' = Local!Retired(t)
      /\ UNCHANGED <<now, active, fences, claims>>
    BY DEF Local!ClaimRefused
<1>2. /\ runs' \in [Requests -> Local!ExecutionRun]
      /\ \A q \in Requests :
            /\ runs'[q].thread = runs[q].thread
            /\ runs'[q].fence = runs[q].fence
            /\ runs'[q].answer = runs[q].answer
            /\ \/ runs'[q].status = runs[q].status
               \/ runs[q].status \in Local!ACTIVE_STATUSES /\ runs'[q].status = "RECOVERABLE"
    BY <1>1, RetiredLemma
<1>3. Local!TypeOK'
    BY <1>1, <1>2 DEF LocalInvariant, Local!TypeOK
<1>4. LocalRunsOK'
    BY <1>1, <1>2 DEF LocalInvariant, LocalRunsOK, Local!ACTIVE_STATUSES
<1>5. PointerIsNewest'
    BY <1>1, <1>2 DEF LocalInvariant, Local!TypeOK, PointerIsNewest
<1>6. LocalClaimsOK'
    BY <1>1, <1>2 DEF LocalInvariant, Local!TypeOK, Local!Claims, LocalClaimsOK
<1>7. QED
    BY <1>3, <1>4, <1>5, <1>6 DEF LocalInvariant

LEMMA LocalHeartbeatLemma ==
    ASSUME LocalInvariant, NEW c \in claims, Local!Heartbeat(c)
    PROVE  LocalInvariant'
<1>1. /\ c.request \in Requests /\ now + LeaseTime \in Nat
      /\ runs \in [Requests -> Local!ExecutionRun]
    BY LeaseAssumption DEF LocalInvariant, Local!TypeOK, Local!Claims
<1>2. /\ runs' = [runs EXCEPT ![c.request].expires = now + LeaseTime]
      /\ UNCHANGED <<now, active, fences, claims>>
    BY DEF Local!Heartbeat
<1>3. /\ runs' \in [Requests -> Local!ExecutionRun]
      /\ \A q \in Requests :
            /\ runs'[q].thread = runs[q].thread
            /\ runs'[q].fence = runs[q].fence
            /\ runs'[q].answer = runs[q].answer
            /\ runs'[q].status = runs[q].status
    BY <1>1, <1>2 DEF Local!ExecutionRun
<1>4. Local!TypeOK'
    BY <1>2, <1>3 DEF LocalInvariant, Local!TypeOK
<1>5. LocalRunsOK'
    BY <1>2, <1>3 DEF LocalInvariant, LocalRunsOK
<1>6. PointerIsNewest'
    BY <1>2, <1>3 DEF LocalInvariant, Local!TypeOK, PointerIsNewest
<1>7. LocalClaimsOK'
    BY <1>2, <1>3 DEF LocalInvariant, Local!TypeOK, Local!Claims, LocalClaimsOK
<1>8. QED
    BY <1>4, <1>5, <1>6, <1>7 DEF LocalInvariant

LEMMA LocalFinishLemma ==
    ASSUME LocalInvariant, NEW c \in claims, NEW status \in Local!FinishStatuses, Local!Finish(c, status)
    PROVE  LocalInvariant'
<1>1. /\ c.request \in Requests /\ c.fence \in Nat /\ 0 < c.fence
      /\ runs \in [Requests -> Local!ExecutionRun] /\ claims' \subseteq claims
      /\ now' = now /\ fences' = fences
    BY DEF LocalInvariant, Local!TypeOK, Local!Claims, LocalClaimsOK, Local!Finish
<1>2. CASE ~Local!FenceMatches(c)
    <2>1. UNCHANGED <<runs, active, now, fences>>
        BY <1>2 DEF Local!Finish
    <2>2. QED
        BY <1>1, <2>1 DEF LocalInvariant, Local!TypeOK, LocalRunsOK, PointerIsNewest, LocalClaimsOK
<1>3. CASE Local!FenceMatches(c)
    <2>1. PICK k \in Nat :
              /\ k = (IF status = "FAILED" THEN 0 ELSE c.fence)
              /\ runs' = [runs EXCEPT ![c.request].status = status,
                                      ![c.request].expires = 0, ![c.request].answer = k]
        BY <1>1, <1>3 DEF Local!Finish
    <2>2. active' = [active EXCEPT ![runs[c.request].thread] = NoRequest]
        BY <1>3 DEF Local!Finish
    <2>3. /\ runs[c.request].fence = c.fence
          /\ runs[c.request].status # "NONE"
        BY <1>1, <1>3 DEF Local!FenceMatches, LocalInvariant, LocalRunsOK
    <2>4. runs'[c.request] = [status |-> status, thread |-> runs[c.request].thread,
                              expires |-> 0, fence |-> c.fence, answer |-> k]
        BY <1>1, <2>1, <2>3, ZenonT(40) DEF Local!ExecutionRun
    <2>5. \A q \in Requests : q # c.request => runs'[q] = runs[q]
        BY <1>1, <2>1
    <2>6. runs[c.request] \in Local!ExecutionRun
        BY <1>1
    <2>7. runs'[c.request] \in Local!ExecutionRun
        BY <1>1, <2>4, <2>6
           DEF Local!ExecutionRun, Local!FinishStatuses, Local!Statuses, Local!RECLAIMABLE_STATUSES
    <2>8. runs' \in [Requests -> Local!ExecutionRun]
        BY <1>1, <2>1, <2>5, <2>7
    <2>9. Local!TypeOK'
        BY <1>1, <2>2, <2>8 DEF LocalInvariant, Local!TypeOK
    <2>10. LocalRunsOK'
        <3>1. SUFFICES ASSUME NEW q \in Requests
                       PROVE  /\ runs'[q].status = "NONE" <=> runs'[q].thread = NoThread
                              /\ runs'[q].status = "NONE" =>
                                    runs'[q].fence = 0 /\ runs'[q].answer = 0
                              /\ runs'[q].status # "NONE" =>
                                    runs'[q].fence <= fences[runs'[q].thread]
                              /\ runs'[q].answer # 0 =>
                                    runs'[q].status \in {"WAITING_INTERRUPT", "COMPLETED"}
            BY <1>1 DEF LocalRunsOK
        <3>2. CASE q = c.request
            BY <3>2, <2>1, <2>3, <2>4 DEF Local!FinishStatuses, LocalInvariant, LocalRunsOK
        <3>3. CASE q # c.request
            BY <3>3, <2>5 DEF LocalInvariant, LocalRunsOK
        <3>4. QED
            BY <3>2, <3>3
    <2>11. PointerIsNewest'
        <3>1. SUFFICES ASSUME NEW s \in Threads, active'[s] # NoRequest
                       PROVE  runs'[active'[s]].thread = s /\ runs'[active'[s]].fence = fences[s]
            BY <1>1 DEF PointerIsNewest
        <3>2. active'[s] = active[s] /\ s # runs[c.request].thread /\ active[s] \in Requests
            BY <3>1, <2>2 DEF LocalInvariant, Local!TypeOK
        <3>3. runs[active[s]].thread = s /\ runs[active[s]].fence = fences[s]
            BY <3>1, <3>2 DEF LocalInvariant, PointerIsNewest
        <3>4. active[s] # c.request
            BY <3>2, <3>3
        <3>5. QED
            BY <3>2, <3>3, <3>4, <2>5
    <2>12. LocalClaimsOK'
        <3>1. SUFFICES ASSUME NEW d \in claims, d # c
                       PROVE  /\ 0 < d.fence
                              /\ d.fence <= runs'[d.request].fence
                              /\ d.fence = runs'[d.request].fence => runs'[d.request].answer = 0
            BY DEF LocalClaimsOK, Local!Finish
        <3>2. d \in Local!Claims /\ c \in Local!Claims
            BY DEF LocalInvariant, Local!TypeOK
        <3>3. CASE d.request = c.request
            <4>1. d.fence # c.fence
                BY <3>1, <3>2, <3>3 DEF Local!Claims
            <4>2. QED
                BY <3>3, <4>1, <2>3, <2>4 DEF LocalInvariant, LocalClaimsOK
        <3>4. CASE d.request # c.request
            BY <3>2, <3>4, <2>5 DEF LocalInvariant, LocalClaimsOK, Local!Claims
        <3>5. QED
            BY <3>3, <3>4
    <2>13. QED
        BY <2>9, <2>10, <2>11, <2>12 DEF LocalInvariant
<1>4. QED
    BY <1>2, <1>3

-----------------------------------------------------------------------------

\* The invariant holds in every state: types and the four named parts.
THEOREM LocalInvariance == ASSUME NoRequest \notin Requests PROVE Local!Spec => []LocalInvariant
<1>1. LocalInvariant /\ [Local!Next]_(Local!vars) => LocalInvariant'
    <2> SUFFICES ASSUME LocalInvariant, [Local!Next]_(Local!vars) PROVE LocalInvariant'
        OBVIOUS
    <2>1. CASE \E r \in Requests, t \in Threads : Local!Claim(r, t) \/ Local!ClaimRefused(r, t)
        BY <2>1, LocalClaimLemma, ClaimRefusedLemma
    <2>2. CASE \E c \in claims : Local!Heartbeat(c)
        BY <2>2, LocalHeartbeatLemma
    <2>3. CASE \E c \in claims, status \in Local!FinishStatuses : Local!Finish(c, status)
        BY <2>3, LocalFinishLemma
    <2>4. CASE (\E c \in claims : Local!Abandon(c)) \/ Local!Tick \/ UNCHANGED Local!vars
        <3>1. /\ UNCHANGED <<runs, active, fences>> /\ claims' \subseteq claims
              /\ now' \in Nat
            BY <2>4 DEF Local!Abandon, Local!Tick, Local!vars, LocalInvariant, Local!TypeOK
        <3>2. QED
            BY <3>1 DEF LocalInvariant, Local!TypeOK, LocalRunsOK, PointerIsNewest, LocalClaimsOK
    <2>5. QED
        BY <2>1, <2>2, <2>3, <2>4 DEF Local!Next
<1>2. Local!Init => LocalInvariant
    BY LocalInitLemma
<1>3. QED
    BY <1>1, <1>2, PTL DEF Local!Spec

\* leases.py:148 and :116: finish may clear the pointer of a run that overtook
\* its own, and can_promote does not ask for the expiry; still no handler passes
\* can_promote when a newer one exists for its thread.
THEOREM PromoterNewest ==
    ASSUME NoRequest \notin Requests PROVE Local!Spec => []Local!PromoterIsNewest
<1>1. LocalInvariant => Local!PromoterIsNewest
    <2> SUFFICES ASSUME LocalInvariant, NEW c \in claims, NEW d \in claims, Local!CanPromote(c),
                        runs[d.request].thread = runs[c.request].thread
                 PROVE  d.fence <= c.fence
        BY DEF Local!PromoterIsNewest
    <2>1. /\ c.request \in Requests /\ c.fence \in Nat /\ 0 < c.fence
          /\ d.request \in Requests /\ d.fence \in Nat /\ 0 < d.fence
          /\ d.fence <= runs[d.request].fence
        BY DEF LocalInvariant, Local!TypeOK, Local!Claims, LocalClaimsOK
    <2>2. /\ runs[c.request] \in Local!ExecutionRun /\ runs[d.request] \in Local!ExecutionRun
        BY <2>1 DEF LocalInvariant, Local!TypeOK
    <2>3. runs[c.request].status # "NONE" /\ runs[c.request].thread \in Threads
        BY <2>2, <2>1
           DEF Local!CanPromote, Local!IsActive, Local!ACTIVE_STATUSES, LocalInvariant,
               LocalRunsOK, Local!ExecutionRun
    <2>4. runs[c.request].fence = fences[runs[c.request].thread]
        BY <2>1, <2>3, LeaseAssumption DEF Local!CanPromote, LocalInvariant, PointerIsNewest
    <2>5. runs[d.request].status # "NONE"
        BY <2>1, <2>2 DEF LocalInvariant, LocalRunsOK, Local!ExecutionRun
    <2>6. runs[d.request].fence <= fences[runs[c.request].thread]
        BY <2>1, <2>5 DEF LocalInvariant, LocalRunsOK
    <2>7. c.fence = runs[c.request].fence
        BY DEF Local!CanPromote, Local!FenceMatches
    <2>8. QED
        BY <2>1, <2>2, <2>4, <2>6, <2>7 DEF Local!ExecutionRun
<1>2. QED
    BY <1>1, LocalInvariance, PTL

\* A response that the coordinator stored is never changed or dropped, although
\* finish asks for the fence only and not for the status.
THEOREM AnswerFinal ==
    ASSUME NoRequest \notin Requests PROVE Local!Spec => Local!AnswerIsFinal
<1>1. LocalInvariant /\ [Local!Next]_(Local!vars) => \A r \in Requests : runs[r].answer # 0 => runs'[r] = runs[r]
    <2> SUFFICES ASSUME LocalInvariant, [Local!Next]_(Local!vars), NEW r \in Requests, runs[r].answer # 0
                 PROVE  runs'[r] = runs[r]
        OBVIOUS
    <2>1. runs[r].status \notin Local!ACTIVE_STATUSES /\ runs \in [Requests -> Local!ExecutionRun]
        BY DEF LocalInvariant, Local!TypeOK, LocalRunsOK, Local!ACTIVE_STATUSES
    <2>2. ASSUME NEW q \in Requests, NEW t \in Threads, Local!Claim(q, t) PROVE runs'[r] = runs[r]
        <3>1. q # r
            BY <2>2 DEF Local!Claim
        <3>2. runs'[r] = Local!Retired(t)[r]
            BY <2>2, <3>1, RetiredLemma DEF Local!Claim
        <3>3. QED
            BY <3>2, <2>1, RetiredLemma
    <2>3. ASSUME NEW q \in Requests, NEW t \in Threads, Local!ClaimRefused(q, t)
          PROVE  runs'[r] = runs[r]
        BY <2>1, <2>3, RetiredLemma DEF Local!ClaimRefused
    <2>4. ASSUME NEW c \in claims, Local!Heartbeat(c) PROVE runs'[r] = runs[r]
        BY <2>1, <2>4 DEF Local!Heartbeat, Local!IsActive
    <2>5. ASSUME NEW c \in claims, NEW status \in Local!FinishStatuses, Local!Finish(c, status)
          PROVE  runs'[r] = runs[r]
        BY <2>1, <2>5 DEF Local!Finish, Local!FenceMatches, LocalInvariant, LocalClaimsOK
    <2>6. QED
        BY <2>2, <2>3, <2>4, <2>5 DEF Local!Next, Local!vars, Local!Abandon, Local!Tick
<1>2. QED
    BY <1>1, LocalInvariance, PTL DEF Local!Spec, Local!AnswerIsFinal

-----------------------------------------------------------------------------
(***************************************************************************)
(* Versions and promotions in one process, for every number of chat runs,  *)
(* messages, versions, restarts and stalls.                                *)
(*                                                                         *)
(* PromotionInv: the cache knows the current snapshot, and while a         *)
(* promotion is between its transactions there is none.  So a task never   *)
(* has two current snapshots, although the one that is replaced and the    *)
(* one that replaces it are written in two transactions and the process    *)
(* may die between them.  It holds because a promotion keeps the event     *)
(* loop to itself (LoopFree), which is not true of two processes.          *)
(*                                                                         *)
(* LedgerInv adds what holds of versions.  As long as no two copies of the *)
(* task were written at once, the one copy in hand is of the newest head   *)
(* and the cache is never behind the tables (Books).  As long, besides, as *)
(* no run was overtaken alive, the run in progress goes on with the        *)
(* thread's turn, and a version of its message comes after the one it was  *)
(* planned against (Turns).  So a chat message makes one version.  Heads:  *)
(* promotions go forward, and are of the active version.                   *)
(***************************************************************************)

\* A turn of the conversation has its message from a chat request, or none.
TurnMessages == ChatMessages \cup {NoMessage}

\* The types that the steps need, without the bounds that PromotionTypeOK gives them.
Tables == [active : Nat, rows : Seq(Row), saved : [Sources -> Nat],
           snapshots : [Versions -> Validity]]
Cache == [version : Nat, rows : Seq(Row), requests : [Sources -> Nat],
          saved : [Sources -> Nat], current : Nat]
State == [next : Nodes \cup {"end"}, message : TurnMessages, base : Nat, version : Nat]
Run == [pc : Pcs, replica : Replicas \cup {NoReplica}, allowed : BOOLEAN, task : Nat, turn : State]
Call == [pc : Writing \cup {"idle", "record"}, message : ApiMessages \cup {NoMessage}, task : Nat]

\* What the steps do beside the tables, the cache and the runs.
Beside ==
    /\ turn \in State
    /\ newest \in Runs
    /\ api \in [Replicas -> Call]
    /\ overlapped \in BOOLEAN
    /\ crashes \in Nat /\ stalls \in Nat /\ failures \in Nat

Types ==
    /\ db \in Tables
    /\ cache \in [Replicas -> Cache]
    /\ chat \in [Runs -> Run]
    /\ Beside

\* A run between two nodes or within one belongs to a process.
LiveHasReplica == \A r \in Runs : Live(r) => Replica(r) \in Replicas

\* The current snapshot is the one the process's cache knows.
CurrentIsCached ==
    \A p \in Replicas, v \in Versions : db.snapshots[v] = "CURRENT" => cache[p].current = v

\* Between the two transactions of a promotion no snapshot is current, and only
\* one promotion is there.
NoneWhileInserting ==
    \A r \in Runs : At(r, "insert") =>
        /\ \A v \in Versions : db.snapshots[v] # "CURRENT"
        /\ \A q \in Runs : At(q, "insert") => q = r

PromotionInv == Types /\ LiveHasReplica /\ CurrentIsCached /\ NoneWhileInserting

-----------------------------------------------------------------------------

\* What a process reads when it starts has the types of a cache.
LEMMA HydratedLemma ==
    ASSUME db \in Tables, NEW current \in Nat PROVE Hydrated(current) \in Cache
<1>1. ASSUME NEW rows \in Seq(Row) PROVE Requested(rows) \in [Sources -> Nat]
    <2>1. DOMAIN rows \subseteq Nat
        BY LenProperties
    <2>2. ASSUME NEW m \in Sources
          PROVE  (IF m # NoMessage /\ \E v \in DOMAIN rows : rows[v].message = m
                  THEN CHOOSE v \in DOMAIN rows : rows[v].message = m ELSE 0) \in Nat
        BY <2>1
    <2>3. QED
        BY <2>2 DEF Requested
<1>2. QED
    BY <1>1 DEF Hydrated, Cache, Tables

LEMMA IdleLemma == Idle \in Run /\ Idle.pc = "idle" /\ NoCall \in Call
BY DEF Idle, Run, State, Nodes, Pcs, TurnMessages, NoCall, Call

LEMMA PromotionInitLemma == PromotionInit => PromotionInv
<1> SUFFICES ASSUME PromotionInit PROVE PromotionInv
    OBVIOUS
<1>1. FirstRows \in Seq(Row) /\ DOMAIN FirstRows = {1}
    BY DEF FirstRows, Row, Sources
<1>2. db \in Tables
    <2>1. [m \in Sources |-> 0] \in [Sources -> Nat]
        OBVIOUS
    <2>2. QED
        BY <1>1, <2>1 DEF PromotionInit, Tables, Validity
<1>3. Hydrated(0) \in Cache
    BY <1>2, HydratedLemma
<1>4. \A p \in Replicas : cache[p] \in Cache
    BY <1>3 DEF PromotionInit
<1>5. Types
    <2>1. turn \in State
        BY DEF PromotionInit, Idle, State, Nodes, TurnMessages
    <2>2. Beside
        BY <2>1, IdleLemma DEF PromotionInit, Beside
    <2>3. QED
        BY <1>2, <1>4, <2>2, IdleLemma DEF PromotionInit, Types
<1>6. LiveHasReplica /\ CurrentIsCached /\ NoneWhileInserting
    BY <1>2 DEF PromotionInit, LiveHasReplica, CurrentIsCached, NoneWhileInserting, Live, At, Idle
<1>7. QED
    BY <1>5, <1>6 DEF PromotionInv

\* A step that changes no snapshot, knows the same current one and brings no
\* promotion between its transactions.
LEMMA QuietLemma ==
    ASSUME PromotionInv, Types', LiveHasReplica', db'.snapshots = db.snapshots,
           \A p \in Replicas : cache'[p].current = cache[p].current,
           \A r \in Runs : chat'[r].pc = "insert" => chat[r].pc = "insert"
    PROVE  PromotionInv'
<1>1. CurrentIsCached'
    BY DEF PromotionInv, CurrentIsCached
<1>2. NoneWhileInserting'
    BY DEF PromotionInv, NoneWhileInserting, At
<1>3. QED
    BY <1>1, <1>2 DEF PromotionInv

-----------------------------------------------------------------------------

\* What the steps are made of: the runs' part of the next state keeps the types,
\* and no run is brought between the transactions of a promotion.
Tame ==
    /\ chat' \in [Runs -> Run]
    /\ \A q \in Runs : chat'[q].pc = "insert" => chat[q].pc = "insert"
    /\ \A q \in Runs : chat'[q].pc # "idle" => chat'[q].replica \in Replicas

LEMMA FailTame == ASSUME PromotionInv, NEW r \in Runs, Fail(r) PROVE Tame
<1>1. chat \in [Runs -> Run] /\ \A q \in Runs : chat[q].pc # "idle" => chat[q].replica \in Replicas
    BY DEF PromotionInv, Types, LiveHasReplica, Live, At, Replica
<1>2. QED
    BY <1>1, IdleLemma DEF Fail, Tame

\* A run that goes on.
LEMMA GotoTame ==
    ASSUME PromotionInv, NEW r \in Runs, Live(r), NEW x \in Run, x.replica = chat[r].replica,
           x.pc # "insert", chat' = [chat EXCEPT ![r] = x]
    PROVE  Tame
<1>1. chat \in [Runs -> Run] /\ \A q \in Runs : chat[q].pc # "idle" => chat[q].replica \in Replicas
    BY DEF PromotionInv, Types, LiveHasReplica, Live, At, Replica
<1>2. QED
    BY <1>1 DEF Tame, Live, At

\* A run that goes on within a node, with another version or copy in hand.
LEMMA WithinTame ==
    ASSUME PromotionInv, NEW r \in Runs, Live(r), NEW pc \in Pcs \ {"insert"},
           NEW task \in Nat, NEW version \in Nat,
           chat' = [chat EXCEPT ![r].turn.version = version, ![r].task = task, ![r].pc = pc]
    PROVE  Tame
<1>1. chat \in [Runs -> Run] /\ chat[r] \in Run
    BY DEF PromotionInv, Types
<1>2. PICK t : t = [chat[r].turn EXCEPT !.version = version]
    OBVIOUS
<1>3. t \in State
    BY <1>1, <1>2 DEF Run, State
<1>4. PICK x : x = [chat[r] EXCEPT !.turn = t, !.task = task, !.pc = pc]
    OBVIOUS
<1>5. x \in Run /\ x.pc = pc /\ x.replica = chat[r].replica
    BY <1>1, <1>3, <1>4 DEF Run
<1>6. chat' = [chat EXCEPT ![r] = x]
    BY <1>1, <1>2, <1>4
<1>7. QED
    BY <1>5, <1>6, GotoTame

LEMMA CheckpointTame ==
    ASSUME PromotionInv, NEW r \in Runs, Live(r), NEW t \in State, Checkpoint(r, t)
    PROVE  Tame /\ turn' = t
<1>1. CASE t.next = "end"
    BY <1>1, FailTame DEF Checkpoint, Fail
<1>2. CASE t.next # "end"
    <2>1. t.next \in Pcs /\ t.next # "insert"
        BY <1>2 DEF State, Pcs, Nodes, Writing
    <2>2. chat[r] \in Run
        BY DEF PromotionInv, Types
    <2>3. chat' = [chat EXCEPT ![r] = [chat[r] EXCEPT !.pc = t.next, !.turn = t, !.task = 0]]
        BY <1>2 DEF Checkpoint
    <2>4. PICK x : x = [chat[r] EXCEPT !.pc = t.next, !.turn = t, !.task = 0]
        OBVIOUS
    <2>5. x \in Run /\ x.pc = t.next /\ x.replica = chat[r].replica
        BY <2>1, <2>2, <2>4 DEF Run
    <2>6. QED
        BY <2>1, <2>3, <2>4, <2>5, GotoTame DEF Checkpoint
<1>3. QED
    BY <1>1, <1>2 DEF Checkpoint

\* The tables and caches keep their types, the snapshots and what is known of them.
Calm ==
    /\ db' \in Tables /\ db'.snapshots = db.snapshots
    /\ cache' \in [Replicas -> Cache]
    /\ \A p \in Replicas : cache'[p].current = cache[p].current

\* Such steps keep the invariant.
LEMMA CalmLemma == ASSUME PromotionInv, Tame, Calm, Beside' PROVE PromotionInv'
<1>1. Types'
    BY DEF Types, Tame, Calm
<1>2. LiveHasReplica'
    BY DEF LiveHasReplica, Live, At, Replica, Tame
<1>3. QED
    BY <1>1, <1>2, QuietLemma DEF Calm, Tame

LEMMA StillCalm == ASSUME PromotionInv, UNCHANGED <<db, cache>> PROVE Calm
BY DEF PromotionInv, Types, Calm

LEMMA StillTame == ASSUME PromotionInv, UNCHANGED chat PROVE Tame
BY DEF PromotionInv, Types, LiveHasReplica, Live, At, Replica, Tame

-----------------------------------------------------------------------------

\* The head is put back in the cache: version and rows change, nothing else.
LEMMA PutLemma ==
    ASSUME PromotionInv, NEW p \in Replicas, NEW task \in Nat, NEW m \in Sources,
           Put(p, task, m), UNCHANGED db
    PROVE  /\ Calm
           /\ cache'[p].version = task
           /\ cache'[p].rows = IF Len(cache[p].rows) < task
                               THEN Append(cache[p].rows, [message |-> m, by |-> p])
                               ELSE cache[p].rows
           /\ cache'[p].requests = cache[p].requests /\ cache'[p].saved = cache[p].saved
<1>1. cache \in [Replicas -> Cache] /\ cache[p] \in Cache /\ db \in Tables
    BY DEF PromotionInv, Types
<1>2. PICK rows : rows = IF Len(cache[p].rows) < task
                         THEN Append(cache[p].rows, [message |-> m, by |-> p])
                         ELSE cache[p].rows
    OBVIOUS
<1>3. rows \in Seq(Row)
    <2>1. [message |-> m, by |-> p] \in Row
        BY DEF Row
    <2>2. QED
        BY <1>1, <1>2, <2>1, AppendProperties DEF Cache
<1>4. PICK c : c = [cache[p] EXCEPT !.version = task, !.rows = rows]
    OBVIOUS
<1>5. /\ c \in Cache /\ c.version = task /\ c.rows = rows /\ c.requests = cache[p].requests
      /\ c.saved = cache[p].saved /\ c.current = cache[p].current
    BY <1>1, <1>3, <1>4 DEF Cache
<1>6. cache' = [cache EXCEPT ![p] = c]
    BY <1>1, <1>2, <1>4 DEF Put
<1>7. QED
    BY <1>1, <1>2, <1>5, <1>6 DEF Calm

\* The head is committed with the rows the cache holds.
LEMMA MergedLemma ==
    ASSUME PromotionInv, NEW task \in Nat, NEW rows \in Seq(Row)
    PROVE  /\ Merged(task, rows) \in Tables
           /\ Merged(task, rows).snapshots = db.snapshots
           /\ Merged(task, rows).saved = db.saved
           /\ Merged(task, rows).active = task
           /\ Merged(task, rows).rows = IF Len(rows) > Len(db.rows) THEN rows ELSE db.rows
<1>1. db \in Tables /\ db.rows \in Seq(Row)
    BY DEF PromotionInv, Types, Tables
<1>2. PICK all \in Seq(Row) : all = IF Len(rows) > Len(db.rows) THEN rows ELSE db.rows
    BY <1>1
<1>3. Merged(task, rows) = [db EXCEPT !.active = task, !.rows = all]
    BY <1>1, <1>2 DEF Merged
<1>4. QED
    BY <1>1, <1>2, <1>3 DEF Tables

LEMMA PersistLemma ==
    ASSUME PromotionInv, NEW p \in Replicas, NEW task \in Nat, NEW m \in Sources,
           Persist(p, task, m)
    PROVE  /\ Calm
           /\ db' = Merged(task, cache[p].rows)
           /\ cache'[p].version = cache[p].version /\ cache'[p].rows = cache[p].rows
           /\ cache'[p].saved = cache[p].saved
           /\ cache'[p].requests = IF m \in Messages THEN [cache[p].requests EXCEPT ![m] = task]
                                   ELSE cache[p].requests
<1>1. cache \in [Replicas -> Cache] /\ cache[p] \in Cache /\ db \in Tables
    BY DEF PromotionInv, Types
<1>2. db' = Merged(task, cache[p].rows) /\ db' \in Tables /\ db'.snapshots = db.snapshots
    BY <1>1, MergedLemma DEF Persist, Cache
<1>3. PICK requests \in [Sources -> Nat] :
          requests = IF m \in Messages THEN [cache[p].requests EXCEPT ![m] = task]
                     ELSE cache[p].requests
    BY <1>1 DEF Cache
<1>4. PICK c : c = [cache[p] EXCEPT !.requests = requests]
    OBVIOUS
<1>5. /\ c \in Cache /\ c.version = cache[p].version /\ c.rows = cache[p].rows
      /\ c.requests = requests /\ c.saved = cache[p].saved /\ c.current = cache[p].current
    BY <1>1, <1>3, <1>4 DEF Cache
<1>6. cache' = [cache EXCEPT ![p] = c]
    <2>1. CASE m \in Messages
        BY <1>1, <1>3, <1>4, <2>1 DEF Persist
    <2>2. CASE m \notin Messages
        <3>1. c = cache[p]
            BY <1>1, <1>3, <1>4, <2>2 DEF Cache
        <3>2. cache' = cache
            BY <2>2 DEF Persist
        <3>3. QED
            BY <1>1, <3>1, <3>2
    <2>3. QED
        BY <2>1, <2>2
<1>7. QED
    BY <1>1, <1>2, <1>3, <1>5, <1>6 DEF Calm

\* A mutation is recorded: no version, no promotion.
LEMMA RecordLemma ==
    ASSUME PromotionInv, NEW p \in Replicas, NEW m \in Sources, NEW target \in Nat,
           Record(p, m, target)
    PROVE  /\ Calm
           /\ db'.active = db.active /\ db'.rows = db.rows
           /\ cache'[p].version = cache[p].version /\ cache'[p].rows = cache[p].rows
           /\ cache'[p].requests = cache[p].requests
           /\ \A n \in Sources : \/ cache'[p].saved[n] = cache[p].saved[n]
                                 \/ n = m /\ cache'[p].saved[n] = target
           /\ \A n \in Sources : \/ db'.saved[n] = db.saved[n]
                                 \/ n = m /\ db'.saved[n] = cache'[p].saved[n]
<1>1. cache \in [Replicas -> Cache] /\ cache[p] \in Cache /\ db \in Tables
    BY DEF PromotionInv, Types
<1>2. PICK v \in Nat : v = Recorded(p, m, target) /\ v \in {target, cache[p].saved[m]}
    BY <1>1 DEF Recorded, Cache
<1>3. PICK saved : saved = [cache[p].saved EXCEPT ![m] = v]
    OBVIOUS
<1>4. saved \in [Sources -> Nat]
    BY <1>1, <1>3 DEF Cache
<1>5. PICK c : c = [cache[p] EXCEPT !.saved = saved]
    OBVIOUS
<1>6. /\ c \in Cache /\ c.version = cache[p].version /\ c.rows = cache[p].rows
      /\ c.requests = cache[p].requests /\ c.saved = saved /\ c.current = cache[p].current
    BY <1>1, <1>4, <1>5 DEF Cache
<1>7. cache' = [cache EXCEPT ![p] = c]
    BY <1>1, <1>2, <1>3, <1>5 DEF Record
<1>8. PICK rows : rows = [db.saved EXCEPT ![m] = IF Recordable(p, m) THEN v ELSE db.saved[m]]
    OBVIOUS
<1>9. rows \in [Sources -> Nat]
    BY <1>1, <1>8 DEF Tables
<1>10. db' = [db EXCEPT !.saved = rows]
    BY <1>1, <1>2, <1>8 DEF Record
<1>11. /\ db' \in Tables /\ db'.snapshots = db.snapshots /\ db'.saved = rows
       /\ db'.active = db.active /\ db'.rows = db.rows
    BY <1>1, <1>9, <1>10 DEF Tables
<1>12. cache'[p] = c /\ Calm
    BY <1>1, <1>6, <1>7, <1>11 DEF Calm
<1>13. \A n \in Sources : \/ saved[n] = cache[p].saved[n]
                          \/ n = m /\ saved[n] = target
    BY <1>1, <1>2, <1>3 DEF Cache
<1>14. \A n \in Sources : \/ rows[n] = db.saved[n]
                          \/ n = m /\ rows[n] = saved[n]
    BY <1>1, <1>3, <1>8 DEF Cache, Tables
<1>15. QED
    BY <1>6, <1>11, <1>12, <1>13, <1>14

-----------------------------------------------------------------------------

\* A turn that is taken up, and the run it gets.
LEMMA StartChat ==
    ASSUME PromotionInv, NEW r \in Runs, NEW p \in Replicas, NEW m \in Sources, Start(r, p, m)
    PROVE  /\ turn' \in State /\ turn'.next \in Nodes
           /\ chat' = [chat EXCEPT ![r] = [Idle EXCEPT !.pc = turn'.next, !.replica = p, !.turn = turn']]
           /\ \/ turn' = turn
              \/ /\ turn'.next = "load" /\ turn'.message = m /\ m \in TurnMessages
                 /\ m # NoMessage => Fresh(m)
<1>1. CASE turn.next # "end" /\ turn' = turn
    BY <1>1 DEF Start, PromotionInv, Types, Beside, State
<1>2. CASE turn.next = "end"
    <2>1. /\ turn' = [next |-> "load", message |-> m, base |-> 0, version |-> 0]
          /\ chat' = [chat EXCEPT ![r] = [Idle EXCEPT !.pc = "load", !.replica = p, !.turn = turn']]
          /\ m \in TurnMessages /\ (m # NoMessage => Fresh(m))
        BY <1>2 DEF Start, TurnMessages
    <2>2. turn' \in State /\ turn'.next = "load" /\ turn'.message = m
        BY <2>1 DEF State, Nodes
    <2>3. QED
        BY <2>1, <2>2 DEF Nodes
<1>3. QED
    BY <1>1, <1>2 DEF Start

LEMMA StartLemma ==
    ASSUME PromotionInv, NEW r \in Runs, NEW p \in Replicas, NEW m \in Sources, Start(r, p, m)
    PROVE  PromotionInv'
<1>1. Calm
    BY StillCalm DEF Start
<1>2. PICK x : x = [Idle EXCEPT !.pc = turn'.next, !.replica = p, !.turn = turn']
    OBVIOUS
<1>3. x \in Run /\ x.pc \in Nodes /\ x.replica = p /\ chat' = [chat EXCEPT ![r] = x]
    BY <1>2, StartChat DEF Idle, Run, Pcs
<1>4. Tame
    <2>1. chat \in [Runs -> Run] /\ \A q \in Runs : chat[q].pc # "idle" => chat[q].replica \in Replicas
        BY DEF PromotionInv, Types, LiveHasReplica, Live, At, Replica
    <2>2. x.pc # "insert"
        BY <1>3 DEF Nodes
    <2>3. QED
        BY <1>3, <2>1, <2>2 DEF Tame
<1>5. Beside'
    <2>1. stalls' \in Nat
        BY DEF Start, PromotionInv, Types, Beside
    <2>2. QED
        BY <2>1, StartChat DEF Start, PromotionInv, Types, Beside
<1>6. QED
    BY <1>1, <1>4, <1>5, CalmLemma

\* A run's turn in its next node.
LEMMA TurnLemma ==
    ASSUME PromotionInv, NEW r \in Runs
    PROVE  /\ chat[r] \in Run /\ Mine(r) \in State
           /\ Mine(r).message \in Sources /\ Mine(r).version \in Nat /\ Mine(r).base \in Nat
           /\ \A next \in Nodes \cup {"end"} : [Mine(r) EXCEPT !.next = next] \in State
           /\ \A v \in Nat : [Mine(r) EXCEPT !.base = v, !.next = "apply"] \in State
<1>1. chat[r] \in Run
    BY DEF PromotionInv, Types
<1>2. Mine(r) \in State
    BY <1>1 DEF Mine, Run
<1>3. "apply" \in Nodes /\ TurnMessages \subseteq Sources
    BY DEF Nodes, TurnMessages, Sources, Messages
<1>4. QED
    BY <1>1, <1>2, <1>3 DEF State

\* The process of a run and what it has cached.
LEMMA ProcessLemma ==
    ASSUME PromotionInv, NEW r \in Runs, Live(r)
    PROVE  /\ Replica(r) \in Replicas /\ Cached(r) = cache[Replica(r)] /\ Cached(r) \in Cache
           /\ Cached(r).version \in Nat /\ Cached(r).rows \in Seq(Row)
           /\ \A m \in Sources : Cached(r).requests[m] \in Nat /\ Cached(r).saved[m] \in Nat
BY DEF Cached, Replica, PromotionInv, Types, LiveHasReplica, Cache

\* The nodes that only read the task, or write a checkpoint.
LEMMA PassLemma ==
    ASSUME PromotionInv, NEW r \in Runs, Live(r), NEW next \in Nodes \cup {"end"}, Pass(r, next)
    PROVE  PromotionInv'
<1>1. Tame /\ turn' \in State
    BY TurnLemma, CheckpointTame DEF Pass
<1>2. Calm
    BY StillCalm DEF Pass
<1>3. QED
    BY <1>1, <1>2, CalmLemma DEF Pass, bounds, PromotionInv, Types, Beside

LEMMA LoadLemma == ASSUME PromotionInv, NEW r \in Runs, Load(r) PROVE PromotionInv'
<1>1. Live(r)
    BY DEF Load, Live, At
<1>2. [Mine(r) EXCEPT !.base = Cached(r).version, !.next = "apply"] \in State
    BY <1>1, TurnLemma, ProcessLemma
<1>3. Tame /\ turn' \in State
    BY <1>1, <1>2, CheckpointTame DEF Load
<1>4. Calm
    BY StillCalm DEF Load
<1>5. QED
    BY <1>3, <1>4, CalmLemma DEF Load, bounds, PromotionInv, Types, Beside

\* A version and a place in the node, without or with a copy in hand.
LEMMA FoundTame ==
    ASSUME PromotionInv, NEW r \in Runs, Live(r), NEW pc \in {"save", "applied"}, NEW v \in Nat,
           chat' = [chat EXCEPT ![r].turn.version = v, ![r].pc = pc]
    PROVE  Tame
<1>1. chat \in [Runs -> Run] /\ chat[r] \in Run
    BY DEF PromotionInv, Types
<1>2. PICK t : t = [chat[r].turn EXCEPT !.version = v]
    OBVIOUS
<1>3. t \in State
    BY <1>1, <1>2 DEF Run, State
<1>4. PICK x : x = [chat[r] EXCEPT !.turn = t, !.pc = pc]
    OBVIOUS
<1>5. x \in Run /\ x.pc = pc /\ x.replica = chat[r].replica
    BY <1>1, <1>3, <1>4 DEF Run, Pcs
<1>6. chat' = [chat EXCEPT ![r] = x]
    BY <1>1, <1>2, <1>4
<1>7. QED
    BY <1>5, <1>6, GotoTame

LEMMA CopyTame ==
    ASSUME PromotionInv, NEW r \in Runs, Live(r), NEW task \in Nat,
           chat' = [chat EXCEPT ![r].task = task, ![r].pc = "write"]
    PROVE  Tame
<1>1. chat \in [Runs -> Run] /\ chat[r] \in Run
    BY DEF PromotionInv, Types
<1>2. PICK x : x = [chat[r] EXCEPT !.task = task, !.pc = "write"]
    OBVIOUS
<1>3. x \in Run /\ x.pc = "write" /\ x.replica = chat[r].replica
    BY <1>1, <1>2 DEF Run, Pcs, Writing
<1>4. QED
    BY <1>2, <1>3, GotoTame

\* A run that goes on to another place in the node.
LEMMA PcTame ==
    ASSUME PromotionInv, NEW r \in Runs, Live(r), NEW pc \in Pcs \ {"insert"},
           chat' = [chat EXCEPT ![r].pc = pc]
    PROVE  Tame
<1>1. chat[r] \in Run
    BY DEF PromotionInv, Types
<1>2. PICK x : x = [chat[r] EXCEPT !.pc = pc]
    OBVIOUS
<1>3. x \in Run /\ x.pc = pc /\ x.replica = chat[r].replica
    BY <1>1, <1>2 DEF Run
<1>4. QED
    BY <1>2, <1>3, GotoTame

LEMMA ApplyLemma == ASSUME PromotionInv, NEW r \in Runs, Apply(r) PROVE PromotionInv'
<1>1. Live(r)
    BY DEF Apply, Live, At
<1>2. Tame
    <2>1. /\ Mine(r).message \in Sources
          /\ Cached(r).saved[Mine(r).message] \in Nat /\ Cached(r).requests[Mine(r).message] \in Nat
          /\ Cached(r).version \in Nat
        BY <1>1, TurnLemma, ProcessLemma
    <2>2. \/ chat' = [chat EXCEPT ![r].turn.version = Cached(r).saved[Mine(r).message], ![r].pc = "applied"]
          \/ chat' = [chat EXCEPT ![r].turn.version = Cached(r).requests[Mine(r).message], ![r].pc = "save"]
          \/ Fail(r)
          \/ chat' = [chat EXCEPT ![r].task = Cached(r).version + 1, ![r].pc = "write"]
        BY DEF Apply
    <2>3. Cached(r).version + 1 \in Nat
        BY <2>1
    <2>4. QED
        BY <1>1, <2>1, <2>2, <2>3, FoundTame, FailTame, CopyTame
<1>3. Calm
    BY StillCalm DEF Apply
<1>4. overlapped' \in BOOLEAN
    <2>1. overlapped' = overlapped \/ overlapped' = (overlapped \/ Overlaps(Replica(r)))
        BY DEF Apply, Copy
    <2>2. QED
        BY <2>1 DEF PromotionInv, Types, Beside
<1>5. QED
    BY <1>2, <1>3, <1>4, CalmLemma DEF Apply, bounds, PromotionInv, Types, Beside

LEMMA WriteLemma == ASSUME PromotionInv, NEW r \in Runs, Write(r) PROVE PromotionInv'
<1>1. Live(r) /\ chat[r].task \in Nat
    BY TurnLemma DEF Write, Live, At, Run
<1>2. Tame
    BY <1>1, PcTame DEF Write, Pcs, Writing
<1>3. Calm
    BY <1>1, TurnLemma, ProcessLemma, PutLemma DEF Write
<1>4. QED
    BY <1>2, <1>3, CalmLemma DEF Write, bounds, PromotionInv, Types, Beside

LEMMA CommitVersionLemma == ASSUME PromotionInv, NEW r \in Runs, CommitVersion(r) PROVE PromotionInv'
<1>1. Live(r) /\ chat[r].task \in Nat
    BY TurnLemma DEF CommitVersion, Live, At, Run
<1>2. CASE Mergeable(Cached(r).rows)
    <2>1. Calm
        BY <1>1, <1>2, TurnLemma, ProcessLemma, PersistLemma DEF CommitVersion
    <2>2. PICK pc \in Pcs \ {"insert"} :
              chat' = [chat EXCEPT ![r].turn.version = chat[r].task, ![r].task = 0, ![r].pc = pc]
        BY <1>2 DEF CommitVersion, Pcs
    <2>3. QED
        BY <1>1, <2>1, <2>2, WithinTame, CalmLemma DEF CommitVersion, bounds, PromotionInv, Types, Beside
<1>3. CASE ~Mergeable(Cached(r).rows)
    BY <1>3, FailTame, StillCalm, CalmLemma DEF CommitVersion, bounds, PromotionInv, Types, Beside
<1>4. QED
    BY <1>2, <1>3

LEMMA SaveMutationLemma == ASSUME PromotionInv, NEW r \in Runs, SaveMutation(r) PROVE PromotionInv'
<1>1. Live(r) /\ Mine(r).base \in Nat
    BY TurnLemma DEF SaveMutation, Live, At
<1>2. Mine(r).base + 1 \in Nat
    BY <1>1
<1>3. Calm
    BY <1>1, <1>2, TurnLemma, ProcessLemma, RecordLemma DEF SaveMutation
<1>4. Tame
    BY <1>1, FailTame, PcTame DEF SaveMutation, Pcs
<1>5. QED
    BY <1>3, <1>4, CalmLemma DEF SaveMutation, bounds, PromotionInv, Types, Beside

LEMMA SetStatusLemma ==
    ASSUME PromotionInv, NEW r \in Runs, Live(r), SetStatus(r) PROVE PromotionInv'
<1>1. Tame
    BY ProcessLemma, CopyTame DEF SetStatus
<1>2. Calm
    BY StillCalm DEF SetStatus
<1>3. overlapped' \in BOOLEAN
    BY DEF SetStatus, Copy, PromotionInv, Types, Beside
<1>4. QED
    BY <1>1, <1>2, <1>3, CalmLemma DEF SetStatus, bounds, PromotionInv, Types, Beside

LEMMA CommitStatusLemma == ASSUME PromotionInv, NEW r \in Runs, CommitStatus(r) PROVE PromotionInv'
<1>1. Live(r) /\ chat[r].task \in Nat
    BY TurnLemma DEF CommitStatus, Live, At, Run
<1>2. CASE Mergeable(Cached(r).rows)
    <2>1. Calm
        BY <1>1, <1>2, ProcessLemma, MergedLemma DEF CommitStatus, Calm, PromotionInv, Types
    <2>2. PICK next \in Nodes \cup {"end"} : Checkpoint(r, [Mine(r) EXCEPT !.next = next])
        <3>1. Checkpoint(r, [Mine(r) EXCEPT !.next = IF Mine(r).next = "work" THEN "promote" ELSE "end"])
            BY <1>2, TurnLemma DEF CommitStatus, State
        <3>2. (IF Mine(r).next = "work" THEN "promote" ELSE "end") \in Nodes \cup {"end"}
            BY DEF Nodes
        <3>3. QED
            BY <3>1, <3>2
    <2>3. Tame /\ turn' \in State
        BY <1>1, <2>2, TurnLemma, CheckpointTame
    <2>4. QED
        BY <2>1, <2>3, CalmLemma DEF CommitStatus, bounds, PromotionInv, Types, Beside
<1>3. CASE ~Mergeable(Cached(r).rows)
    BY <1>3, FailTame, StillCalm, CalmLemma DEF CommitStatus, bounds, PromotionInv, Types, Beside
<1>4. QED
    BY <1>2, <1>3

LEMMA CheckLemma == ASSUME PromotionInv, NEW r \in Runs, Check(r) PROVE PromotionInv'
<1>1. Live(r) /\ UNCHANGED <<db, cache, turn, newest, api, overlapped, bounds>>
    BY DEF Check, Live, At
<1>2. PICK x : x = [chat[r] EXCEPT !.allowed = (newest = r), !.pc = "checked"]
    OBVIOUS
<1>3. x \in Run /\ x.pc = "checked" /\ x.replica = chat[r].replica
    BY <1>2, TurnLemma DEF Run, Pcs
<1>4. chat' = [chat EXCEPT ![r] = x]
    BY <1>2 DEF Check
<1>5. Tame
    BY <1>1, <1>3, <1>4, GotoTame
<1>6. QED
    BY <1>1, <1>5, StillCalm, CalmLemma DEF bounds, PromotionInv, Types, Beside

\* The run that promotes: what its steps do to the runs, and that nobody else of
\* its process is between the transactions.
LEMMA PromoterLemma ==
    ASSUME PromotionInv, NEW r \in Runs, Live(r), NEW pc \in Pcs,
           chat' = [chat EXCEPT ![r].pc = pc]
    PROVE  /\ chat' \in [Runs -> Run]
           /\ chat'[r].pc = pc
           /\ \A q \in Runs : chat'[q].replica = chat[q].replica
           /\ \A q \in Runs : q # r => chat'[q].pc = chat[q].pc
           /\ LiveHasReplica'
<1>1. chat \in [Runs -> Run]
    BY DEF PromotionInv, Types
<1>2. /\ chat' \in [Runs -> Run]
      /\ chat'[r].pc = pc
      /\ \A q \in Runs : chat'[q].replica = chat[q].replica
      /\ \A q \in Runs : q # r => chat'[q].pc = chat[q].pc
    BY <1>1 DEF Run
<1>3. LiveHasReplica'
    BY <1>2 DEF LiveHasReplica, Live, At, Replica, PromotionInv
<1>4. QED
    BY <1>2, <1>3

\* A refused result is stored beside the others; the current one stays.
LEMMA RejectLemma == ASSUME PromotionInv, NEW r \in Runs, Reject(r) PROVE PromotionInv'
<1>1. Live(r) /\ UNCHANGED <<cache, turn, newest, api, overlapped, crashes, stalls, failures>>
    BY DEF Reject, Live, At, bounds
<1>2. CASE db.snapshots[Mine(r).version] = "NONE"
    <2>1. /\ db' = [db EXCEPT !.snapshots[Mine(r).version] = "SUPERSEDED"]
          /\ chat' = [chat EXCEPT ![r].pc = "promoted"]
        BY <1>2 DEF Reject
    <2>2. db' \in Tables
        BY <2>1 DEF PromotionInv, Types, Tables, Validity
    <2>3. \A v \in Versions : db'.snapshots[v] = "CURRENT" => db.snapshots[v] = "CURRENT"
        BY <2>1 DEF PromotionInv, Types, Tables
    <2>4. /\ chat' \in [Runs -> Run] /\ LiveHasReplica'
          /\ \A q \in Runs : chat'[q].pc = "insert" => chat[q].pc = "insert"
        BY <1>1, <2>1, PromoterLemma, ZenonT(40) DEF Pcs
    <2>5. Types'
        BY <1>1, <2>2, <2>4 DEF PromotionInv, Types, Beside
    <2>6. CurrentIsCached' /\ NoneWhileInserting'
        BY <1>1, <2>3, <2>4 DEF PromotionInv, CurrentIsCached, NoneWhileInserting, At
    <2>7. QED
        BY <2>4, <2>5, <2>6 DEF PromotionInv
<1>3. CASE db.snapshots[Mine(r).version] # "NONE"
    BY <1>1, <1>3, FailTame, StillCalm, CalmLemma DEF Reject, PromotionInv, Types, Beside
<1>4. QED
    BY <1>2, <1>3

\* The first transaction: the current snapshot is the one the cache knows, so none
\* is left.
LEMMA DemoteLemma ==
    ASSUME PromotionInv, NEW p, Replicas = {p}, NEW r \in Runs, Demote(r) PROVE PromotionInv'
<1>1. /\ Live(r) /\ UNCHANGED <<cache, turn, newest, api, overlapped, crashes, stalls, failures>>
      /\ Replica(r) = p /\ cache[p] = Cached(r)
    BY DEF Demote, Live, At, PromotionInv, LiveHasReplica, Cached, Replica, bounds
<1>2. /\ db' = [db EXCEPT !.snapshots = [v \in Versions |->
                    IF v \in Previous(r) THEN "REUSABLE" ELSE db.snapshots[v]]]
      /\ chat' = [chat EXCEPT ![r].pc = "insert"]
    BY DEF Demote
<1>3. db' \in Tables
    <2>1. [v \in Versions |-> IF v \in Previous(r) THEN "REUSABLE" ELSE db.snapshots[v]]
              \in [Versions -> Validity]
        BY DEF PromotionInv, Types, Tables, Validity
    <2>2. QED
        BY <1>2, <2>1 DEF PromotionInv, Types, Tables
<1>4. \A v \in Versions : db'.snapshots[v] # "CURRENT"
    BY <1>1, <1>2 DEF PromotionInv, Types, Tables, CurrentIsCached, Previous
<1>5. /\ chat' \in [Runs -> Run] /\ LiveHasReplica'
      /\ \A q \in Runs : q # r => chat'[q].pc = chat[q].pc
    BY <1>1, <1>2, PromoterLemma DEF Pcs
<1>6. \A q \in Runs : q # r => chat[q].pc # "insert"
    <2>1. \A q \in Runs : Replica(q) = p => ~At(q, "insert")
        BY <1>1 DEF Demote, LoopFree
    <2>2. \A q \in Runs : At(q, "insert") => Replica(q) = p
        BY DEF PromotionInv, LiveHasReplica, Live, At
    <2>3. QED
        BY <2>1, <2>2 DEF At
<1>7. Types'
    BY <1>1, <1>3, <1>5 DEF PromotionInv, Types, Beside
<1>8. CurrentIsCached' /\ NoneWhileInserting'
    BY <1>4, <1>5, <1>6 DEF CurrentIsCached, NoneWhileInserting, At
<1>9. QED
    BY <1>5, <1>7, <1>8 DEF PromotionInv

\* The second transaction: there is no current snapshot, and the new one is cached.
LEMMA InsertLemma ==
    ASSUME PromotionInv, NEW p, Replicas = {p}, NEW r \in Runs, Insert(r) PROVE PromotionInv'
<1>1. /\ Live(r) /\ At(r, "insert") /\ Replica(r) = p /\ Mine(r).version \in Nat
      /\ UNCHANGED <<turn, newest, api, overlapped, crashes, stalls, failures>>
    BY TurnLemma DEF Insert, Live, At, PromotionInv, LiveHasReplica, bounds
<1>2. CASE db.snapshots[Mine(r).version] = "NONE"
    <2>1. /\ db' = [db EXCEPT !.snapshots[Mine(r).version] = "CURRENT"]
          /\ cache' = [cache EXCEPT ![p].current = Mine(r).version]
          /\ chat' = [chat EXCEPT ![r].pc = "promoted"]
        BY <1>1, <1>2 DEF Insert
    <2>2. db' \in Tables
        BY <2>1 DEF PromotionInv, Types, Tables, Validity
    <2>3. cache' \in [Replicas -> Cache] /\ cache'[p].current = Mine(r).version
        <3>1. PICK c : c = [cache[p] EXCEPT !.current = Mine(r).version]
            OBVIOUS
        <3>2. c \in Cache /\ c.current = Mine(r).version
            BY <1>1, <3>1 DEF PromotionInv, Types, Cache
        <3>3. cache' = [cache EXCEPT ![p] = c]
            BY <2>1, <3>1
        <3>4. QED
            BY <3>2, <3>3 DEF PromotionInv, Types
    <2>4. \A v \in Versions : db'.snapshots[v] = "CURRENT" => v = Mine(r).version
        BY <1>1, <2>1 DEF PromotionInv, Types, Tables, NoneWhileInserting
    <2>5. /\ chat' \in [Runs -> Run] /\ LiveHasReplica'
          /\ chat'[r].pc = "promoted"
          /\ \A q \in Runs : q # r => chat'[q].pc = chat[q].pc
        BY <1>1, <2>1, PromoterLemma DEF Pcs
    <2>6. \A q \in Runs : chat'[q].pc # "insert"
        BY <1>1, <2>5 DEF PromotionInv, NoneWhileInserting, At
    <2>7. Types'
        BY <1>1, <2>2, <2>3, <2>5 DEF PromotionInv, Types, Beside
    <2>8. CurrentIsCached' /\ NoneWhileInserting'
        BY <2>3, <2>4, <2>6 DEF CurrentIsCached, NoneWhileInserting, At
    <2>9. QED
        BY <2>5, <2>7, <2>8 DEF PromotionInv
<1>3. CASE db.snapshots[Mine(r).version] # "NONE"
    BY <1>1, <1>3, FailTame, StillCalm, CalmLemma DEF Insert, PromotionInv, Types, Beside
<1>4. QED
    BY <1>2, <1>3

LEMMA WorkOrRespondLemma ==
    ASSUME PromotionInv, NEW r \in Runs, ApplyDone(r) \/ Work(r) \/ PromoteDone(r) \/ Respond(r)
    PROVE  PromotionInv'
<1>1. Live(r)
    BY DEF ApplyDone, Work, PromoteDone, Respond, Live, At
<1>2. SetStatus(r) \/ \E next \in Nodes \cup {"end"} : Pass(r, next)
    BY DEF ApplyDone, Work, PromoteDone, Respond, Nodes
<1>3. QED
    BY <1>1, <1>2, SetStatusLemma, PassLemma

\* The route's steps.
LEMMA ApiLemma ==
    ASSUME PromotionInv, NEW p \in Replicas,
           (\E m \in ApiMessages : ApiMutate(p, m)) \/ ApiStep(p)
    PROVE  PromotionInv'
<1> USE DEF bounds
<1>1. CASE \E m \in ApiMessages : ApiMutate(p, m)
    <2>1. PICK m \in ApiMessages : ApiMutate(p, m)
        BY <1>1
    <2>2. cache[p].version \in Nat
        BY DEF PromotionInv, Types, Cache
    <2>3. PICK call : /\ call.pc \in {"record", "write"} /\ api' = [api EXCEPT ![p] = call]
                      /\ call = [pc |-> call.pc, message |-> m, task |-> cache[p].version + 1]
        BY <2>1 DEF ApiMutate
    <2>4. call \in Call
        BY <2>2, <2>3 DEF Call, Writing
    <2>5. overlapped' \in BOOLEAN
        BY <2>1 DEF ApiMutate, Copy, PromotionInv, Types, Beside
    <2>6. Beside'
        BY <2>1, <2>3, <2>4, <2>5 DEF ApiMutate, PromotionInv, Types, Beside
    <2>7. Calm /\ Tame
        BY <2>1, StillCalm, StillTame DEF ApiMutate
    <2>8. QED
        BY <2>6, <2>7, CalmLemma
<1>2. CASE ApiStep(p)
    <2>1. api[p] \in Call /\ api[p].message \in Sources /\ api[p].task \in Nat
        BY DEF PromotionInv, Types, Beside, Call, Sources, Messages
    <2>2. Tame
        BY <1>2, StillTame DEF ApiStep, ApiWrite, ApiCommit, ApiRecord
    <2>3. api' \in [Replicas -> Call]
        <3>1. PICK c : c = [api[p] EXCEPT !.pc = "commit"]
            OBVIOUS
        <3>2. PICK d : d = [api[p] EXCEPT !.pc = "record"]
            OBVIOUS
        <3>3. {c, d, NoCall} \subseteq Call
            BY <2>1, <3>1, <3>2, IdleLemma DEF Call, Writing
        <3>4. \E e \in {c, d, NoCall} : api' = [api EXCEPT ![p] = e]
            BY <1>2, <3>1, <3>2 DEF ApiStep, ApiWrite, ApiCommit, ApiRecord
        <3>5. QED
            BY <3>3, <3>4 DEF PromotionInv, Types, Beside
    <2>4. Beside'
        BY <1>2, <2>3 DEF ApiStep, ApiWrite, ApiCommit, ApiRecord, PromotionInv, Types, Beside
    <2>5. Calm
        <3>1. CASE ApiWrite(p)
            BY <2>1, <3>1, PutLemma DEF ApiWrite
        <3>2. CASE ApiCommit(p)
            BY <2>1, <3>2, PersistLemma, StillCalm DEF ApiCommit
        <3>3. CASE ApiRecord(p)
            BY <2>1, <3>3, RecordLemma DEF ApiRecord
        <3>4. QED
            BY <1>2, <3>1, <3>2, <3>3 DEF ApiStep
    <2>6. QED
        BY <2>2, <2>4, <2>5, CalmLemma
<1>3. QED
    BY <1>1, <1>2

LEMMA ErrorLemma == ASSUME PromotionInv, Error PROVE PromotionInv'
<1>1. Calm
    BY StillCalm DEF Error
<1>2. Tame
    BY FailTame, StillTame DEF Error
<1>3. api' \in [Replicas -> Call]
    BY IdleLemma DEF Error, PromotionInv, Types, Beside
<1>4. failures' \in Nat
    BY DEF Error, PromotionInv, Types, Beside
<1>5. QED
    BY <1>1, <1>2, <1>3, <1>4, CalmLemma DEF Error, PromotionInv, Types, Beside

\* A restart ends every run; the process reads the current snapshot, if there is
\* one.
LEMMA RestartLemma ==
    ASSUME PromotionInv, NEW p, Replicas = {p}, Restart(p) PROVE PromotionInv'
<1>1. UNCHANGED <<db, turn, newest, overlapped, stalls, failures>> /\ crashes' = crashes + 1
    BY DEF Restart
<1>2. PICK current \in (IF CurrentVersions = {} THEN {0} ELSE CurrentVersions) :
          cache' = [cache EXCEPT ![p] = Hydrated(current)]
    BY DEF Restart
<1>3. current \in Nat /\ \A v \in CurrentVersions : v = current
    <2>1. \A v, w \in CurrentVersions : v = w
        BY DEF PromotionInv, CurrentIsCached, CurrentVersions
    <2>2. CurrentVersions \subseteq Nat
        BY DEF CurrentVersions, Versions
    <2>3. QED
        BY <2>1, <2>2
<1>4. cache' \in [Replicas -> Cache] /\ cache'[p].current = current
    <2>1. Hydrated(current) \in Cache /\ Hydrated(current).current = current
        BY <1>3, HydratedLemma DEF PromotionInv, Types, Hydrated
    <2>2. QED
        BY <1>2, <2>1 DEF PromotionInv, Types
<1>5. chat' \in [Runs -> Run] /\ \A q \in Runs : chat'[q].pc = "idle"
    <2>1. chat' = [q \in Runs |-> IF Replica(q) = p THEN Idle ELSE chat[q]]
        BY DEF Restart
    <2>2. \A q \in Runs : Replica(q) # p => chat[q].pc = "idle"
        BY DEF PromotionInv, LiveHasReplica, Live, At
    <2>3. QED
        BY <2>1, <2>2, IdleLemma DEF PromotionInv, Types
<1>6. api' \in [Replicas -> Call]
    BY IdleLemma DEF Restart, PromotionInv, Types, Beside
<1>7. Types'
    BY <1>1, <1>4, <1>5, <1>6 DEF PromotionInv, Types, Beside
<1>8. LiveHasReplica' /\ NoneWhileInserting'
    BY <1>5 DEF LiveHasReplica, NoneWhileInserting, Live, At
<1>9. CurrentIsCached'
    BY <1>1, <1>3, <1>4 DEF CurrentIsCached, CurrentVersions
<1>10. QED
    BY <1>7, <1>8, <1>9 DEF PromotionInv

-----------------------------------------------------------------------------

\* With one process the invariant holds in every state.
THEOREM PromotionInvariance == ASSUME NEW p, Replicas = {p} PROVE PromotionSpec => []PromotionInv
<1>1. PromotionInv /\ [PromotionNext]_promotionVars => PromotionInv'
    <2> SUFFICES ASSUME PromotionInv, [PromotionNext]_promotionVars PROVE PromotionInv'
        OBVIOUS
    <2>1. CASE \E r \in Runs, q \in Replicas, m \in Sources : Start(r, q, m)
        BY <2>1, StartLemma
    <2>2. ASSUME NEW r \in Runs, Step(r) PROVE PromotionInv'
        <3>1. CASE Load(r) \/ Apply(r) \/ SaveMutation(r) \/ Check(r)
            BY <3>1, LoadLemma, ApplyLemma, SaveMutationLemma, CheckLemma
        <3>2. CASE ApplyDone(r) \/ Work(r) \/ PromoteDone(r) \/ Respond(r)
            BY <3>2, WorkOrRespondLemma
        <3>3. CASE Reject(r) \/ Demote(r) \/ Insert(r)
            BY <3>3, RejectLemma, DemoteLemma, InsertLemma
        <3>4. CASE Write(r) \/ CommitVersion(r) \/ CommitStatus(r)
            BY <3>4, WriteLemma, CommitVersionLemma, CommitStatusLemma
        <3>5. QED
            BY <2>2, <3>1, <3>2, <3>3, <3>4 DEF Step
    <2>3. CASE \E q \in Replicas, m \in ApiMessages : ApiMutate(q, m)
        BY <2>3, ApiLemma
    <2>4. CASE \E q \in Replicas : ApiStep(q) \/ Restart(q)
        BY <2>4, ApiLemma, RestartLemma
    <2>5. CASE Error
        BY <2>5, ErrorLemma
    <2>6. CASE UNCHANGED promotionVars
        BY <2>6, StillCalm, StillTame, CalmLemma DEF promotionVars, PromotionInv, Types, Beside
    <2>7. QED
        BY <2>1, <2>2, <2>3, <2>4, <2>5, <2>6 DEF PromotionNext
<1>2. QED
    BY <1>1, PromotionInitLemma, PTL DEF PromotionSpec

\* postgres_business.py:1415, :1417: the snapshot that was current and the one
\* that replaces it are written in two transactions; whatever restarts, failures
\* and overtaken runs come between, one process never makes two of them current.
THEOREM OneHead == ASSUME NEW p, Replicas = {p} PROVE PromotionSpec => []OneCurrentHead
<1>1. PromotionInv => OneCurrentHead
    BY DEF PromotionInv, CurrentIsCached, CurrentVersions, OneCurrentHead
<1>2. QED
    BY <1>1, PromotionInvariance, PTL

-----------------------------------------------------------------------------

\* A run that writes the task, and the route when it does.
Writes(r) == chat[r].pc \in Writing
ApiWrites(p) == api[p].pc \in Writing

\* The place of a run is in the node its state names.
Placed ==
    \A r \in Runs :
        /\ chat[r].pc \in Nodes => Mine(r).next = chat[r].pc
        /\ chat[r].pc \in {"save", "applied"} => Mine(r).next = "apply"
        /\ chat[r].pc \in Writing => Mine(r).next \in {"apply", "work", "respond"}
        /\ chat[r].pc \in {"checked", "insert", "promoted"} => Mine(r).next = "promote"

\* A call of the route has a message of the route's.
Named == \A p \in Replicas : api[p].pc # "idle" => api[p].message \in ApiMessages

\* Every version has its row, in the tables and in the cache, which is never behind.
InStep ==
    \A p \in Replicas :
        /\ Len(db.rows) = db.active /\ Len(cache[p].rows) = cache[p].version
        /\ db.active <= cache[p].version
        /\ \A v \in 1..db.active : cache[p].rows[v] = db.rows[v]

\* A version remembered for a message is one that the message made.
RequestsMade ==
    \A p \in Replicas, m \in Sources : cache[p].requests[m] # 0 =>
        /\ m \in Messages
        /\ cache[p].requests[m] \in 1..db.active
        /\ db.rows[cache[p].requests[m]].message = m

\* One copy is in hand, and nobody has changed the head since it was taken.
OneWriter ==
    /\ \A q, r \in Runs : Writes(q) /\ Writes(r) => q = r
    /\ \A p \in Replicas, r \in Runs : ~(Writes(r) /\ ApiWrites(p))
InHand(p, pc, task, new, m) ==
    /\ pc = "write" => task = cache[p].version + (IF new THEN 1 ELSE 0)
    /\ pc = "commit" => /\ task = cache[p].version
                        /\ new => task # 0 /\ cache[p].rows[task].message = m
CopyInHand ==
    /\ \A r \in Runs : Writes(r) =>
          InHand(Replica(r), chat[r].pc, chat[r].task, Mine(r).next = "apply", Mine(r).message)
    /\ \A p \in Replicas : ApiWrites(p) => InHand(p, api[p].pc, api[p].task, TRUE, api[p].message)

\* What holds as long as no two copies were written at once.
Books == InStep /\ RequestsMade /\ OneWriter /\ CopyInHand
BooksInv == Placed /\ Named /\ (~overlapped => Books)

-----------------------------------------------------------------------------

\* What a step does to the runs: it moves one.
Moved(r) == \A q \in Runs : q # r => chat'[q] = chat[q]

LEMMA FailEffect ==
    ASSUME PromotionInv, NEW r \in Runs, Fail(r) PROVE Moved(r) /\ chat'[r].pc = "idle"
<1>1. chat \in [Runs -> Run]
    BY DEF PromotionInv, Types
<1>2. QED
    BY <1>1 DEF Fail, Moved, Idle

LEMMA PcEffect ==
    ASSUME PromotionInv, NEW r \in Runs, NEW pc, chat' = [chat EXCEPT ![r].pc = pc]
    PROVE  /\ Moved(r) /\ chat'[r].pc = pc /\ chat'[r].replica = chat[r].replica
           /\ chat'[r].turn = chat[r].turn /\ chat'[r].task = chat[r].task
<1>1. chat \in [Runs -> Run] /\ chat[r] \in Run
    BY DEF PromotionInv, Types
<1>2. PICK x : x = [chat[r] EXCEPT !.pc = pc]
    OBVIOUS
<1>3. /\ x.pc = pc /\ x.replica = chat[r].replica /\ x.turn = chat[r].turn
      /\ x.task = chat[r].task
    BY <1>1, <1>2 DEF Run
<1>4. QED
    BY <1>1, <1>2, <1>3 DEF Moved

LEMMA CopyEffect ==
    ASSUME PromotionInv, NEW r \in Runs, NEW task \in Nat,
           chat' = [chat EXCEPT ![r].task = task, ![r].pc = "write"]
    PROVE  /\ Moved(r) /\ chat'[r].pc = "write" /\ chat'[r].replica = chat[r].replica
           /\ chat'[r].turn = chat[r].turn /\ chat'[r].task = task
<1>1. chat \in [Runs -> Run] /\ chat[r] \in Run
    BY DEF PromotionInv, Types
<1>2. PICK x : x = [chat[r] EXCEPT !.task = task, !.pc = "write"]
    OBVIOUS
<1>3. /\ x.pc = "write" /\ x.replica = chat[r].replica /\ x.turn = chat[r].turn
      /\ x.task = task
    BY <1>1, <1>2 DEF Run
<1>4. QED
    BY <1>1, <1>2, <1>3 DEF Moved

\* A version found, or made.
Found(r, v, pc) == chat' = [chat EXCEPT ![r].turn.version = v, ![r].pc = pc]
Made(r, v, pc) == chat' = [chat EXCEPT ![r].turn.version = v, ![r].task = 0, ![r].pc = pc]
LEMMA FoundEffect ==
    ASSUME PromotionInv, NEW r \in Runs, NEW v \in Nat, NEW pc, Found(r, v, pc)
    PROVE  /\ Moved(r) /\ chat'[r].pc = pc /\ chat'[r].replica = chat[r].replica
           /\ chat'[r].turn.version = v
           /\ chat'[r].turn.next = chat[r].turn.next
           /\ chat'[r].turn.message = chat[r].turn.message
           /\ chat'[r].turn.base = chat[r].turn.base
<1>1. chat \in [Runs -> Run] /\ chat[r] \in Run
    BY DEF PromotionInv, Types
<1>2. PICK t : t = [chat[r].turn EXCEPT !.version = v]
    OBVIOUS
<1>3. PICK x : x = [chat[r] EXCEPT !.turn = t, !.pc = pc]
    OBVIOUS
<1>4. /\ x.pc = pc /\ x.replica = chat[r].replica /\ x.turn = t
      /\ t.version = v /\ t.next = chat[r].turn.next /\ t.message = chat[r].turn.message
      /\ t.base = chat[r].turn.base
    BY <1>1, <1>2, <1>3 DEF Run, State
<1>5. chat' = [chat EXCEPT ![r] = x]
    BY <1>1, <1>2, <1>3 DEF Found
<1>6. QED
    BY <1>1, <1>2, <1>4, <1>5 DEF Moved

LEMMA MadeEffect ==
    ASSUME PromotionInv, NEW r \in Runs, NEW v \in Nat, NEW pc, Made(r, v, pc)
    PROVE  /\ Moved(r) /\ chat'[r].pc = pc /\ chat'[r].replica = chat[r].replica
           /\ chat'[r].turn.version = v
           /\ chat'[r].turn.next = chat[r].turn.next
           /\ chat'[r].turn.message = chat[r].turn.message
           /\ chat'[r].turn.base = chat[r].turn.base
<1>1. chat \in [Runs -> Run] /\ chat[r] \in Run
    BY DEF PromotionInv, Types
<1>2. PICK t : t = [chat[r].turn EXCEPT !.version = v]
    OBVIOUS
<1>3. PICK x : x = [chat[r] EXCEPT !.turn = t, !.task = 0, !.pc = pc]
    OBVIOUS
<1>4. /\ x.pc = pc /\ x.replica = chat[r].replica /\ x.turn = t
      /\ t.version = v /\ t.next = chat[r].turn.next /\ t.message = chat[r].turn.message
      /\ t.base = chat[r].turn.base
    BY <1>1, <1>2, <1>3 DEF Run, State
<1>5. chat' = [chat EXCEPT ![r] = x]
    BY <1>1, <1>2, <1>3 DEF Made
<1>6. QED
    BY <1>1, <1>2, <1>4, <1>5 DEF Moved

LEMMA CheckpointEffect ==
    ASSUME PromotionInv, NEW r \in Runs, NEW t \in State, Checkpoint(r, t)
    PROVE  /\ Moved(r) /\ turn' = t
           /\ t.next = "end" => chat'[r].pc = "idle"
           /\ t.next # "end" => /\ chat'[r].pc = t.next /\ chat'[r].pc \in Nodes
                                /\ chat'[r].replica = chat[r].replica /\ chat'[r].turn = t
<1>1. chat \in [Runs -> Run] /\ chat[r] \in Run
    BY DEF PromotionInv, Types
<1>2. CASE t.next = "end"
    BY <1>1, <1>2 DEF Checkpoint, Moved, Idle
<1>3. CASE t.next # "end"
    <2>1. PICK x : x = [chat[r] EXCEPT !.pc = t.next, !.turn = t, !.task = 0]
        OBVIOUS
    <2>2. x.pc = t.next /\ x.replica = chat[r].replica /\ x.turn = t /\ t.next \in Nodes
        BY <1>1, <1>3, <2>1 DEF Run, State
    <2>3. chat' = [chat EXCEPT ![r] = x]
        BY <1>1, <1>3, <2>1 DEF Checkpoint
    <2>4. QED
        BY <1>1, <1>3, <2>2, <2>3 DEF Moved, Checkpoint
<1>4. QED
    BY <1>2, <1>3

\* The next state of a run, from its own.
LEMMA NextEffect ==
    ASSUME PromotionInv, NEW r \in Runs, NEW next \in Nodes \cup {"end"}
    PROVE  /\ [Mine(r) EXCEPT !.next = next].next = next
           /\ [Mine(r) EXCEPT !.next = next].message = Mine(r).message
           /\ [Mine(r) EXCEPT !.next = next].base = Mine(r).base
           /\ [Mine(r) EXCEPT !.next = next].version = Mine(r).version
BY TurnLemma DEF State

-----------------------------------------------------------------------------

\* What the books are about stays: versions, rows, what is remembered, and any copy
\* in hand.
SameVersions ==
    /\ db'.active = db.active /\ db'.rows = db.rows
    /\ \A p \in Replicas : /\ cache'[p].version = cache[p].version
                           /\ cache'[p].rows = cache[p].rows
                           /\ cache'[p].requests = cache[p].requests
NoNewCopy ==
    /\ \A q \in Runs : chat'[q].pc \in Writing => chat'[q] = chat[q]
    /\ \A p \in Replicas : api'[p].pc \in Writing => api'[p] = api[p]

LEMMA BooksQuiet == ASSUME Books, SameVersions, NoNewCopy, LiveHasReplica PROVE Books'
<1>1. InStep' /\ RequestsMade'
    BY DEF Books, InStep, RequestsMade, SameVersions
<1>2. OneWriter'
    BY DEF Books, OneWriter, NoNewCopy, Writes, ApiWrites
<1>3. CopyInHand'
    <2>1. \A r \in Runs : Writes(r) => Replica(r) \in Replicas
        BY DEF LiveHasReplica, Live, At, Writes, Writing
    <2>2. \A r \in Runs : Writes(r)' => chat'[r] = chat[r] /\ Writes(r)
        BY DEF NoNewCopy, Writes
    <2>3. \A p \in Replicas : ApiWrites(p)' => api'[p] = api[p] /\ ApiWrites(p)
        BY DEF NoNewCopy, ApiWrites
    <2>4. \A p \in Replicas : cache'[p].version = cache[p].version /\ cache'[p].rows = cache[p].rows
        BY DEF SameVersions
    <2>5. ASSUME NEW r \in Runs, Writes(r)'
          PROVE  InHand(Replica(r), chat[r].pc, chat[r].task, Mine(r).next = "apply", Mine(r).message)'
        <3>1. InHand(Replica(r), chat[r].pc, chat[r].task, Mine(r).next = "apply", Mine(r).message)
            BY <2>2, <2>5 DEF Books, CopyInHand
        <3>2. chat'[r] = chat[r] /\ Replica(r) \in Replicas
            BY <2>1, <2>2, <2>5
        <3>3. QED
            BY <2>4, <3>1, <3>2 DEF InHand, Replica, Mine
    <2>6. ASSUME NEW p \in Replicas, ApiWrites(p)'
          PROVE  InHand(p, api[p].pc, api[p].task, TRUE, api[p].message)'
        <3>1. InHand(p, api[p].pc, api[p].task, TRUE, api[p].message)
            BY <2>3, <2>6 DEF Books, CopyInHand
        <3>2. QED
            BY <2>3, <2>4, <2>6, <3>1 DEF InHand
    <2>7. QED
        BY <2>5, <2>6 DEF CopyInHand
<1>4. QED
    BY <1>1, <1>2, <1>3 DEF Books

\* A step of one run keeps everybody's place if it keeps its own.
LEMMA PlacedLemma ==
    ASSUME Placed, NEW r \in Runs, Moved(r),
           \/ chat'[r].pc = "idle"
           \/ chat'[r].pc \in Nodes /\ chat'[r].turn.next = chat'[r].pc
           \/ chat'[r].pc \in {"save", "applied"} /\ chat'[r].turn.next = "apply"
           \/ chat'[r].pc \in Writing /\ chat'[r].turn.next \in {"apply", "work", "respond"}
           \/ chat'[r].pc \in {"checked", "insert", "promoted"} /\ chat'[r].turn.next = "promote"
    PROVE  Placed'
BY DEF Placed, Moved, Mine, Nodes, Writing

\* A step of the route leaves the runs where they are.
LEMMA PlacedStill == ASSUME Placed, UNCHANGED chat PROVE Placed'
BY DEF Placed, Mine

\* A copy is taken where none is in hand, of the head as it is in the cache.
LEMMA BooksCopy ==
    ASSUME PromotionInv, Books, NEW p, Replicas = {p}, NEW r \in Runs, Live(r), ~Overlaps(p),
           UNCHANGED <<db, cache, api>>, Moved(r),
           chat'[r].pc = "write", chat'[r].replica = p,
           chat'[r].task = cache[p].version + (IF chat'[r].turn.next = "apply" THEN 1 ELSE 0)
    PROVE  Books'
<1>1. (\A q \in Runs : ~Writes(q)) /\ ~ApiWrites(p)
    <2>1. \A q \in Runs : Writes(q) => Replica(q) = p
        BY DEF PromotionInv, LiveHasReplica, Live, At, Writes, Writing
    <2>2. QED
        BY <2>1 DEF Overlaps, Writes, ApiWrites
<1>2. (\A q \in Runs : Writes(q)' => q = r) /\ ~ApiWrites(p)'
    BY <1>1 DEF Moved, Writes, ApiWrites
<1>3. InStep' /\ RequestsMade'
    BY DEF Books, InStep, RequestsMade
<1>4. OneWriter' /\ CopyInHand'
    BY <1>2 DEF OneWriter, CopyInHand, InHand, Replica, Mine
<1>5. QED
    BY <1>3, <1>4 DEF Books

LEMMA BooksApiCopy ==
    ASSUME PromotionInv, Books, NEW p, Replicas = {p}, ~Overlaps(p),
           UNCHANGED <<db, cache, chat>>,
           api'[p].pc = "write", api'[p].task = cache[p].version + 1
    PROVE  Books'
<1>1. \A q \in Runs : ~Writes(q)
    <2>1. \A q \in Runs : Writes(q) => Replica(q) = p
        BY DEF PromotionInv, LiveHasReplica, Live, At, Writes, Writing
    <2>2. QED
        BY <2>1 DEF Overlaps, Writes
<1>2. \A q \in Runs : ~Writes(q)'
    BY <1>1 DEF Writes
<1>3. InStep' /\ RequestsMade'
    BY DEF Books, InStep, RequestsMade
<1>4. OneWriter' /\ CopyInHand'
    BY <1>2 DEF OneWriter, CopyInHand, InHand
<1>5. QED
    BY <1>3, <1>4 DEF Books

\* The copy in hand is put back: it is the head as it was, or the next version, and
\* then with a row.
PutBack(p, task, m) ==
    /\ cache'[p].version = task
    /\ task \in {cache[p].version, cache[p].version + 1}
    /\ task = cache[p].version => cache'[p].rows = cache[p].rows
    /\ task = cache[p].version + 1 => cache'[p].rows = Append(cache[p].rows, [message |-> m, by |-> p])
    /\ cache'[p].requests = cache[p].requests /\ cache'[p].saved = cache[p].saved
    /\ cache'[p].current = cache[p].current

LEMMA PutBackLemma ==
    ASSUME PromotionInv, InStep, NEW p, Replicas = {p}, NEW m \in Sources, NEW task \in Nat,
           task \in {cache[p].version, cache[p].version + 1}, Put(p, task, m), UNCHANGED db
    PROVE  PutBack(p, task, m)
<1>1. cache[p] \in Cache /\ Len(cache[p].rows) = cache[p].version
    BY DEF PromotionInv, Types, InStep
<1>2. cache[p].version \in Nat
    BY <1>1 DEF Cache
<1>3. /\ Calm /\ cache'[p].version = task
      /\ cache'[p].rows = IF Len(cache[p].rows) < task
                          THEN Append(cache[p].rows, [message |-> m, by |-> p])
                          ELSE cache[p].rows
      /\ cache'[p].requests = cache[p].requests /\ cache'[p].saved = cache[p].saved
    BY PutLemma
<1>4. cache'[p].current = cache[p].current
    BY <1>3 DEF Calm
<1>5. task = cache[p].version => cache'[p].rows = cache[p].rows
    BY <1>1, <1>2, <1>3
<1>6. task = cache[p].version + 1 => cache'[p].rows = Append(cache[p].rows, [message |-> m, by |-> p])
    BY <1>1, <1>2, <1>3
<1>7. QED
    BY <1>3, <1>4, <1>5, <1>6 DEF PutBack

\* What the rows are then.
LEMMA PutRows ==
    ASSUME PromotionInv, InStep, NEW p, Replicas = {p}, NEW m \in Sources, NEW task \in Nat,
           PutBack(p, task, m)
    PROVE  /\ Len(cache'[p].rows) = task /\ DOMAIN cache'[p].rows = 1..task
           /\ DOMAIN cache[p].rows = 1..cache[p].version /\ cache[p].version \in Nat
           /\ \A v \in 1..cache[p].version : cache'[p].rows[v] = cache[p].rows[v]
           /\ task = cache[p].version + 1 => cache'[p].rows[task].message = m
<1>1. /\ cache[p].rows \in Seq(Row) /\ Len(cache[p].rows) = cache[p].version
      /\ cache[p].version \in Nat
    BY DEF PromotionInv, Types, InStep, Cache
<1>2. PICK row : row = [message |-> m, by |-> p]
    OBVIOUS
<1>3. row \in Row /\ row.message = m
    BY <1>2 DEF Row
<1>4. DOMAIN cache[p].rows = 1..cache[p].version
    BY <1>1, LenProperties
<1>5. CASE task = cache[p].version
    BY <1>1, <1>4, <1>5 DEF PutBack
<1>6. CASE task = cache[p].version + 1
    <2>1. cache'[p].rows = Append(cache[p].rows, row)
        BY <1>2, <1>6 DEF PutBack
    <2>2. /\ Len(cache'[p].rows) = task /\ cache'[p].rows[task] = row
          /\ cache'[p].rows \in Seq(Row)
          /\ \A v \in 1..cache[p].version : cache'[p].rows[v] = cache[p].rows[v]
        BY <1>1, <1>3, <1>6, <2>1, AppendProperties
    <2>3. QED
        BY <1>1, <1>3, <1>4, <2>2, LenProperties
<1>7. QED
    BY <1>5, <1>6 DEF PutBack

LEMMA PutInStep ==
    ASSUME PromotionInv, InStep, RequestsMade, NEW p, Replicas = {p}, NEW m \in Sources, NEW task \in Nat,
           PutBack(p, task, m), UNCHANGED db
    PROVE  InStep' /\ RequestsMade'
<1>1. db.active \in Nat /\ cache[p].version \in Nat /\ db.active <= cache[p].version
    BY DEF PromotionInv, Types, Tables, InStep, Cache
<1>2. cache'[p].version = task /\ db.active <= task
    BY <1>1 DEF PutBack
<1>3. \A v \in 1..db.active : cache'[p].rows[v] = db.rows[v]
    <2>1. 1..db.active \subseteq 1..cache[p].version
        BY <1>1
    <2>2. QED
        BY <2>1, PutRows DEF InStep
<1>4. InStep'
    BY <1>2, <1>3, PutRows DEF InStep
<1>5. RequestsMade'
    BY DEF RequestsMade, PutBack
<1>6. QED
    BY <1>4, <1>5

\* A run puts its copy back.
LEMMA BooksWrite ==
    ASSUME PromotionInv, Books, NEW p, Replicas = {p}, NEW r \in Runs, Write(r)
    PROVE  /\ Books' /\ PutBack(p, chat[r].task, Mine(r).message)
           /\ chat[r].task = cache[p].version + (IF Mine(r).next = "apply" THEN 1 ELSE 0)
<1>1. Live(r) /\ Replica(r) = p /\ chat[r].task \in Nat /\ Mine(r).message \in Sources /\ Writes(r)
    BY TurnLemma DEF Write, Live, At, Run, PromotionInv, LiveHasReplica, Writes, Writing
<1>2. chat[r].task = cache[p].version + (IF Mine(r).next = "apply" THEN 1 ELSE 0)
    BY <1>1 DEF Books, CopyInHand, InHand, Write, At
<1>3. cache[p].version \in Nat
    BY DEF PromotionInv, Types, Cache
<1>4. PutBack(p, chat[r].task, Mine(r).message)
    BY <1>1, <1>2, <1>3, PutBackLemma DEF Write, Books
<1>5. InStep' /\ RequestsMade'
    BY <1>1, <1>4, PutInStep DEF Books, Write
<1>6. /\ Moved(r) /\ chat'[r].pc = "commit" /\ chat'[r].replica = p
      /\ chat'[r].turn = chat[r].turn /\ chat'[r].task = chat[r].task /\ api' = api
    BY <1>1, PcEffect DEF Write, Replica
<1>7. (\A q \in Runs : Writes(q)' => q = r) /\ ~ApiWrites(p)'
    BY <1>1, <1>6 DEF Books, OneWriter, Moved, Writes, ApiWrites
<1>8. cache'[p].version = chat[r].task
    BY <1>4 DEF PutBack
<1>9. Mine(r).next = "apply" => /\ chat[r].task # 0
                               /\ cache'[p].rows[chat[r].task].message = Mine(r).message
    BY <1>1, <1>2, <1>3, <1>4, PutRows DEF Books
<1>10. OneWriter' /\ CopyInHand'
    BY <1>6, <1>7, <1>8, <1>9 DEF OneWriter, CopyInHand, InHand, Replica, Mine
<1>11. QED
    BY <1>2, <1>4, <1>5, <1>10 DEF Books

LEMMA BooksApiWrite ==
    ASSUME PromotionInv, Books, NEW p, Replicas = {p}, ApiWrite(p)
    PROVE  /\ Books' /\ PutBack(p, api[p].task, api[p].message)
           /\ api[p].task = cache[p].version + 1
<1>1. /\ api[p] \in Call /\ api[p].task \in Nat /\ api[p].message \in Sources /\ ApiWrites(p)
    BY DEF PromotionInv, Types, Beside, Call, Sources, Messages, ApiWrite, ApiWrites, Writing
<1>2. api[p].task = cache[p].version + 1
    BY <1>1 DEF Books, CopyInHand, InHand, ApiWrite
<1>3. PutBack(p, api[p].task, api[p].message)
    BY <1>1, <1>2, PutBackLemma DEF ApiWrite, Books
<1>4. InStep' /\ RequestsMade'
    BY <1>1, <1>3, PutInStep DEF Books, ApiWrite
<1>5. /\ api'[p].pc = "commit" /\ api'[p].task = api[p].task /\ api'[p].message = api[p].message
      /\ chat' = chat
    <2>1. PICK c : c = [api[p] EXCEPT !.pc = "commit"]
        OBVIOUS
    <2>2. c.pc = "commit" /\ c.task = api[p].task /\ c.message = api[p].message
        BY <1>1, <2>1 DEF Call
    <2>3. QED
        BY <2>1, <2>2 DEF ApiWrite, PromotionInv, Types, Beside
<1>6. \A q \in Runs : ~Writes(q)'
    BY <1>1, <1>5 DEF Books, OneWriter, Writes
<1>7. /\ cache'[p].version = api[p].task /\ api[p].task # 0
      /\ cache'[p].rows[api[p].task].message = api[p].message
    <2>1. cache[p].version \in Nat
        BY DEF PromotionInv, Types, Cache
    <2>2. cache'[p].rows[api[p].task].message = api[p].message
        BY <1>1, <1>2, <1>3, PutRows DEF Books
    <2>3. QED
        BY <1>2, <1>3, <2>1, <2>2 DEF PutBack
<1>8. OneWriter' /\ CopyInHand'
    BY <1>5, <1>6, <1>7 DEF OneWriter, CopyInHand, InHand
<1>9. QED
    BY <1>2, <1>3, <1>4, <1>8 DEF Books

-----------------------------------------------------------------------------

\* A commit brings the tables to where the cache is; it cannot meet a row of
\* another process.
Caught(p) ==
    /\ db'.active = cache[p].version /\ Len(db'.rows) = cache[p].version
    /\ \A v \in 1..cache[p].version : db'.rows[v] = cache[p].rows[v]
    /\ db'.saved = db.saved /\ db'.snapshots = db.snapshots

LEMMA CaughtLemma ==
    ASSUME PromotionInv, InStep, NEW p, Replicas = {p}, db' = Merged(cache[p].version, cache[p].rows)
    PROVE  Caught(p)
<1>1. /\ cache[p].rows \in Seq(Row) /\ Len(cache[p].rows) = cache[p].version
      /\ cache[p].version \in Nat /\ db.rows \in Seq(Row) /\ db.active \in Nat
      /\ Len(db.rows) = db.active /\ db.active <= cache[p].version
      /\ \A v \in 1..db.active : cache[p].rows[v] = db.rows[v]
    BY DEF PromotionInv, Types, InStep, Cache, Tables
<1>2. /\ db'.active = cache[p].version /\ db'.saved = db.saved /\ db'.snapshots = db.snapshots
      /\ db'.rows = IF Len(cache[p].rows) > Len(db.rows) THEN cache[p].rows ELSE db.rows
    BY <1>1, MergedLemma
<1>3. CASE db.active < cache[p].version
    BY <1>1, <1>2, <1>3 DEF Caught
<1>4. CASE db.active = cache[p].version
    BY <1>1, <1>2, <1>4 DEF Caught
<1>5. QED
    BY <1>1, <1>3, <1>4

LEMMA MergeableLemma ==
    ASSUME PromotionInv, InStep, NEW p, Replicas = {p} PROVE Mergeable(cache[p].rows)
<1>1. db.rows \in Seq(Row) /\ db.active \in Nat /\ Len(db.rows) = db.active
    BY DEF PromotionInv, Types, InStep, Tables
<1>2. DOMAIN db.rows = 1..db.active
    BY <1>1, LenProperties
<1>3. QED
    BY <1>2 DEF Mergeable, InStep

\* What is remembered stays true, and so does what the commit adds.
LEMMA CaughtInStep ==
    ASSUME PromotionInv, InStep, RequestsMade, NEW p, Replicas = {p}, Caught(p),
           cache'[p].version = cache[p].version, cache'[p].rows = cache[p].rows,
           \/ cache'[p].requests = cache[p].requests
           \/ \E m \in Messages :
                 /\ cache'[p].requests = [cache[p].requests EXCEPT ![m] = cache[p].version]
                 /\ cache[p].version # 0
                 /\ cache[p].rows[cache[p].version].message = m
    PROVE  InStep' /\ RequestsMade' /\ db.active <= db'.active
<1>1. /\ cache[p].version \in Nat /\ db.active \in Nat /\ db.active <= cache[p].version
      /\ \A v \in 1..db.active : cache[p].rows[v] = db.rows[v]
      /\ cache[p].requests \in [Sources -> Nat] /\ Len(cache[p].rows) = cache[p].version
    BY DEF PromotionInv, Types, InStep, Cache, Tables
<1>2. InStep' /\ db.active <= db'.active
    BY <1>1 DEF InStep, Caught
<1>3. ASSUME NEW n \in Sources, cache'[p].requests[n] # 0
      PROVE  /\ n \in Messages /\ cache'[p].requests[n] \in 1..db'.active
             /\ db'.rows[cache'[p].requests[n]].message = n
    <2>1. CASE cache'[p].requests[n] = cache[p].requests[n]
        <3>1. PICK v : v = cache[p].requests[n]
            OBVIOUS
        <3>2. n \in Messages /\ v \in 1..db.active /\ db.rows[v].message = n
            BY <1>3, <2>1, <3>1 DEF RequestsMade
        <3>3. v \in 1..cache[p].version /\ db'.rows[v] = db.rows[v]
            BY <1>1, <3>2 DEF Caught
        <3>4. QED
            BY <2>1, <3>1, <3>2, <3>3 DEF Caught
    <2>2. CASE cache'[p].requests[n] # cache[p].requests[n]
        <3>1. /\ n \in Messages /\ cache'[p].requests[n] = cache[p].version
              /\ cache[p].version # 0 /\ cache[p].rows[cache[p].version].message = n
            BY <1>1, <2>2
        <3>2. cache[p].version \in 1..cache[p].version
            BY <1>1, <3>1
        <3>3. QED
            BY <3>1, <3>2 DEF Caught
    <2>3. QED
        BY <2>1, <2>2
<1>4. RequestsMade'
    BY <1>3 DEF RequestsMade
<1>5. QED
    BY <1>2, <1>4

\* A run commits its copy.
LEMMA BooksCommit ==
    ASSUME PromotionInv, Books, Placed, NEW p, Replicas = {p}, NEW r \in Runs,
           CommitVersion(r) \/ CommitStatus(r)
    PROVE  /\ Books' /\ Caught(p) /\ db.active <= db'.active /\ chat[r].task = cache[p].version
           /\ Mergeable(cache[p].rows)
           /\ cache'[p].version = cache[p].version /\ cache'[p].rows = cache[p].rows
           /\ cache'[p].saved = cache[p].saved /\ cache'[p].current = cache[p].current
<1>1. /\ Live(r) /\ Replica(r) = p /\ chat[r].task \in Nat /\ Mine(r).message \in Sources
      /\ Writes(r) /\ chat[r].pc = "commit" /\ Cached(r) = cache[p]
    BY TurnLemma DEF CommitVersion, CommitStatus, Live, At, Run, PromotionInv, LiveHasReplica, Writes,
       Writing, Cached, Replica
<1>2. /\ chat[r].task = cache[p].version
      /\ Mine(r).next = "apply" => /\ chat[r].task # 0
                                  /\ cache[p].rows[chat[r].task].message = Mine(r).message
    BY <1>1 DEF Books, CopyInHand, InHand
<1>3. Mergeable(cache[p].rows)
    BY MergeableLemma DEF Books
<1>4. CASE CommitVersion(r)
    <2>1. Persist(p, chat[r].task, Mine(r).message) /\ Mine(r).next = "apply"
        BY <1>1, <1>3, <1>4 DEF CommitVersion
    <2>2. /\ Calm /\ db' = Merged(chat[r].task, cache[p].rows)
          /\ cache'[p].version = cache[p].version /\ cache'[p].rows = cache[p].rows
          /\ cache'[p].saved = cache[p].saved
          /\ cache'[p].requests = IF Mine(r).message \in Messages
                                  THEN [cache[p].requests EXCEPT ![Mine(r).message] = chat[r].task]
                                  ELSE cache[p].requests
        BY <1>1, <2>1, PersistLemma
    <2>3. Caught(p) /\ cache'[p].current = cache[p].current
        BY <1>2, <2>2, CaughtLemma DEF Books, Calm
    <2>4. InStep' /\ RequestsMade' /\ db.active <= db'.active
        BY <1>2, <2>1, <2>2, <2>3, CaughtInStep DEF Books
    <2>5. PICK pc \in {"save", "applied"} : Made(r, chat[r].task, pc)
        BY <1>1, <1>3, <1>4 DEF CommitVersion, Made
    <2>6. Moved(r) /\ chat'[r].pc \in {"save", "applied"}
        BY <1>1, <2>5, MadeEffect
    <2>7. (\A q \in Runs : ~Writes(q)') /\ ~ApiWrites(p)'
        BY <1>1, <1>4, <2>6 DEF Books, OneWriter, Moved, Writes, ApiWrites, Writing, CommitVersion
    <2>8. OneWriter' /\ CopyInHand'
        BY <2>7 DEF OneWriter, CopyInHand
    <2>9. QED
        BY <1>2, <1>3, <2>2, <2>3, <2>4, <2>8 DEF Books
<1>5. CASE CommitStatus(r)
    <2>1. /\ db' = Merged(chat[r].task, cache[p].rows) /\ cache' = cache /\ api' = api
          /\ Checkpoint(r, [Mine(r) EXCEPT !.next = IF Mine(r).next = "work" THEN "promote" ELSE "end"])
        <3>1. Mine(r) \in State
            BY TurnLemma
        <3>2. QED
            BY <1>1, <1>3, <1>5, <3>1 DEF CommitStatus, State
    <2>2. Caught(p)
        BY <1>2, <2>1, CaughtLemma DEF Books
    <2>3. InStep' /\ RequestsMade' /\ db.active <= db'.active
        BY <2>1, <2>2, CaughtInStep DEF Books
    <2>4. Moved(r) /\ chat'[r].pc \notin Writing
        <3>1. (IF Mine(r).next = "work" THEN "promote" ELSE "end") \in Nodes \cup {"end"}
            BY DEF Nodes
        <3>2. QED
            BY <2>1, <3>1, TurnLemma, CheckpointEffect DEF Nodes, Writing
    <2>5. (\A q \in Runs : ~Writes(q)') /\ ~ApiWrites(p)'
        BY <1>1, <2>1, <2>4 DEF Books, OneWriter, Moved, Writes, ApiWrites
    <2>6. OneWriter' /\ CopyInHand'
        BY <2>5 DEF OneWriter, CopyInHand
    <2>7. QED
        BY <1>2, <1>3, <2>1, <2>2, <2>3, <2>6 DEF Books
<1>6. QED
    BY <1>4, <1>5

LEMMA BooksApiCommit ==
    ASSUME PromotionInv, Books, Named, NEW p, Replicas = {p}, ApiCommit(p)
    PROVE  /\ Books' /\ Caught(p) /\ db.active <= db'.active
           /\ cache'[p].version = cache[p].version /\ cache'[p].rows = cache[p].rows
           /\ cache'[p].saved = cache[p].saved /\ cache'[p].current = cache[p].current
<1>1. /\ api[p] \in Call /\ api[p].task \in Nat /\ api[p].message \in Messages
      /\ ApiWrites(p) /\ api[p].pc = "commit"
    BY DEF PromotionInv, Types, Beside, Call, Messages, ApiCommit, ApiWrites, Writing, Named
<1>2. /\ api[p].task = cache[p].version /\ api[p].task # 0
      /\ cache[p].rows[api[p].task].message = api[p].message
    BY <1>1 DEF Books, CopyInHand, InHand
<1>3. Persist(p, api[p].task, api[p].message) /\ chat' = chat
    BY MergeableLemma DEF ApiCommit, Books
<1>4. api[p].message \in Sources
    BY <1>1 DEF Sources
<1>5. /\ Calm /\ db' = Merged(api[p].task, cache[p].rows)
      /\ cache'[p].version = cache[p].version /\ cache'[p].rows = cache[p].rows
      /\ cache'[p].saved = cache[p].saved
      /\ cache'[p].requests = [cache[p].requests EXCEPT ![api[p].message] = api[p].task]
    BY <1>1, <1>3, <1>4, PersistLemma
<1>6. Caught(p) /\ cache'[p].current = cache[p].current
    BY <1>2, <1>5, CaughtLemma DEF Books, Calm
<1>7. InStep' /\ RequestsMade' /\ db.active <= db'.active
    BY <1>1, <1>2, <1>5, <1>6, CaughtInStep DEF Books
<1>8. api'[p].pc = "record"
    <2>1. PICK c : c = [api[p] EXCEPT !.pc = "record"]
        OBVIOUS
    <2>2. c.pc = "record" /\ api' = [api EXCEPT ![p] = c]
        BY <1>1, <2>1, MergeableLemma DEF Call, ApiCommit, Books
    <2>3. QED
        BY <2>2 DEF PromotionInv, Types, Beside
<1>9. (\A q \in Runs : ~Writes(q)') /\ ~ApiWrites(p)'
    BY <1>1, <1>3, <1>8 DEF Books, OneWriter, Writes, ApiWrites, Writing
<1>10. OneWriter' /\ CopyInHand'
    BY <1>9 DEF OneWriter, CopyInHand
<1>11. QED
    BY <1>5, <1>6, <1>7, <1>10 DEF Books

\* A process that starts has the head of the tables and nothing in hand.
LEMMA BooksRestart ==
    ASSUME PromotionInv, Books, NEW p, Replicas = {p}, Restart(p)
    PROVE  /\ Books' /\ db' = db /\ cache'[p].rows = db.rows /\ cache'[p].saved = db.saved
           /\ cache'[p].version = db.active
           /\ \A q \in Runs : chat'[q].pc = "idle"
           /\ cache'[p].current \in {0} \cup CurrentVersions
           /\ api'[p].pc = "idle"
<1>1. PICK current \in (IF CurrentVersions = {} THEN {0} ELSE CurrentVersions) :
          cache' = [cache EXCEPT ![p] = Hydrated(current)]
    BY DEF Restart
<1>2. PICK c : c = Hydrated(current)
    OBVIOUS
<1>3. /\ cache'[p] = c /\ c.version = db.active /\ c.rows = db.rows
      /\ c.requests = Requested(db.rows) /\ c.saved = db.saved /\ c.current = current /\ db' = db
    BY <1>1, <1>2 DEF Hydrated, Restart, PromotionInv, Types
<1>4. \A q \in Runs : chat'[q].pc = "idle"
    <2>1. chat' = [q \in Runs |-> IF Replica(q) = p THEN Idle ELSE chat[q]]
        BY DEF Restart
    <2>2. \A q \in Runs : Replica(q) # p => chat[q].pc = "idle"
        BY DEF PromotionInv, LiveHasReplica, Live, At
    <2>3. QED
        BY <2>1, <2>2, IdleLemma
<1>5. api'[p].pc = "idle"
    BY DEF Restart, NoCall, PromotionInv, Types, Beside
<1>6. db.rows \in Seq(Row) /\ db.active \in Nat /\ Len(db.rows) = db.active /\ DOMAIN db.rows = 1..db.active
    BY LenProperties DEF PromotionInv, Types, Tables, Books, InStep
<1>7. InStep'
    BY <1>3, <1>6 DEF InStep
<1>8. RequestsMade'
    <2>1. ASSUME NEW m \in Sources, Requested(db.rows)[m] # 0
          PROVE  /\ m \in Messages /\ Requested(db.rows)[m] \in 1..db.active
                 /\ db.rows[Requested(db.rows)[m]].message = m
        <3>1. m # NoMessage /\ \E v \in DOMAIN db.rows : db.rows[v].message = m
            BY <2>1 DEF Requested
        <3>2. Requested(db.rows)[m] = CHOOSE v \in DOMAIN db.rows : db.rows[v].message = m
            BY <3>1 DEF Requested
        <3>3. QED
            BY <1>6, <3>1, <3>2 DEF Sources
    <2>2. QED
        BY <1>3, <2>1 DEF RequestsMade
<1>9. OneWriter' /\ CopyInHand'
    BY <1>4, <1>5 DEF OneWriter, CopyInHand, Writes, ApiWrites, Writing
<1>10. QED
    BY <1>1, <1>3, <1>4, <1>5, <1>7, <1>8, <1>9 DEF Books

-----------------------------------------------------------------------------

\* As long as no run was overtaken alive there is one, which goes on with the
\* thread's turn.
OneLive == \A q, r \in Runs : Live(q) /\ Live(r) => q = r
TurnHeld ==
    \A r \in Runs : Live(r) =>
        /\ Mine(r).next = turn.next /\ Mine(r).message = turn.message /\ Mine(r).base = turn.base
        /\ turn.next # "apply" => Mine(r) = turn

\* The versions that turns and mutation records name have been committed.
Settled ==
    \A m \in TurnMessages, p \in Replicas :
        db.saved[m] <= db.active /\ cache[p].saved[m] <= db.active
VersionMade ==
    /\ turn.next \in {"work", "promote", "respond"} => turn.version <= db.active
    /\ \A r \in Runs : chat[r].pc \in {"save", "applied"} => Mine(r).version <= db.active
    /\ \A r \in Runs : At(r, "save") => Mine(r).base < db.active

\* Any version that the turn's message has made came after the one it was planned
\* against, and is the next after it.
OfTurn(v) == \E p \in Replicas : v \in DOMAIN cache[p].rows /\ cache[p].rows[v].message = turn.message
BaseBefore ==
    turn.message \in ChatMessages =>
        /\ turn.next = "load" => \A v \in Nat : ~OfTurn(v)
        /\ turn.next = "apply" => \A v \in Nat : OfTurn(v) => turn.base < v
ApplyWrites ==
    \A r \in Runs : Writes(r) /\ Mine(r).next = "apply" /\ Mine(r).message \in Messages
        => chat[r].task = Mine(r).base + 1

\* No message of a chat request has made two versions.
OnceCached ==
    \A p \in Replicas : \A v, w \in DOMAIN cache[p].rows :
        /\ cache[p].rows[v].message = cache[p].rows[w].message
        /\ cache[p].rows[v].message \in ChatMessages
        => v = w

Turns == OneLive /\ TurnHeld /\ Settled /\ VersionMade /\ BaseBefore /\ ApplyWrites /\ OnceCached
TurnsInv == stalls = 0 /\ ~overlapped => Turns

SameRows == \A p \in Replicas : cache'[p].rows = cache[p].rows
SameRecords == db'.saved = db.saved /\ \A p \in Replicas : cache'[p].saved = cache[p].saved

LEMMA SettledLemma ==
    ASSUME PromotionInv, PromotionInv', Settled, SameRecords, db.active <= db'.active PROVE Settled'
<1>1. ASSUME NEW m \in TurnMessages, NEW p \in Replicas
      PROVE  db'.saved[m] <= db'.active /\ cache'[p].saved[m] <= db'.active
    <2>1. m \in Sources
        BY DEF TurnMessages, Sources, Messages
    <2>2. /\ db.saved[m] \in Nat /\ cache[p].saved[m] \in Nat /\ db.active \in Nat /\ db'.active \in Nat
        BY <2>1 DEF PromotionInv, Types, Tables, Cache
    <2>3. db.saved[m] <= db.active /\ cache[p].saved[m] <= db.active
        BY DEF Settled
    <2>4. QED
        BY <2>2, <2>3 DEF SameRecords
<1>2. QED
    BY <1>1 DEF Settled

LEMMA RowsStayLemma ==
    ASSUME SameRows PROVE (OnceCached => OnceCached') /\ (BaseBefore /\ turn' = turn => BaseBefore')
BY DEF SameRows, OnceCached, BaseBefore, OfTurn

\* A step of the run that goes on with the turn, within its node.
LEMMA TurnsWithin ==
    ASSUME PromotionInv, PromotionInv', Turns, NEW r \in Runs, Live(r), Moved(r), turn' = turn,
           SameRows, SameRecords, db.active <= db'.active,
           \/ chat'[r].pc = "idle"
           \/ /\ chat'[r].turn.next = chat[r].turn.next
              /\ chat'[r].turn.message = chat[r].turn.message
              /\ chat'[r].turn.base = chat[r].turn.base
              /\ turn.next # "apply" => chat'[r].turn = chat[r].turn
              /\ chat'[r].pc \in {"save", "applied"} => chat'[r].turn.version <= db'.active
              /\ chat'[r].pc = "save" => chat'[r].turn.base < db'.active
              /\ chat'[r].pc \in Writing /\ chat'[r].turn.next = "apply"
                    /\ chat'[r].turn.message \in Messages
                 => chat'[r].task = chat'[r].turn.base + 1
    PROVE  Turns'
<1>1. \A q \in Runs : q # r => chat'[q].pc = "idle"
    BY DEF Turns, OneLive, Moved, Live, At
<1>2. OneLive' /\ TurnHeld' /\ ApplyWrites'
    BY <1>1 DEF Turns, OneLive, TurnHeld, ApplyWrites, Live, At, Mine, Writes, Writing
<1>3. VersionMade'
    <2>1. turn'.next \in {"work", "promote", "respond"} => turn'.version <= db'.active
        <3>1. turn.version \in Nat /\ db.active \in Nat /\ db'.active \in Nat
            BY DEF PromotionInv, Types, Beside, State, Tables
        <3>2. QED
            BY <3>1 DEF Turns, VersionMade
    <2>2. QED
        BY <1>1, <2>1 DEF VersionMade, At, Mine
<1>4. Settled' /\ BaseBefore' /\ OnceCached'
    BY SettledLemma, RowsStayLemma DEF Turns
<1>5. QED
    BY <1>2, <1>3, <1>4 DEF Turns

\* The checkpoint after a node.
LEMMA TurnsCheckpoint ==
    ASSUME PromotionInv, PromotionInv', Turns, NEW r \in Runs, Live(r), NEW t \in State, Checkpoint(r, t),
           SameRows, SameRecords, db.active <= db'.active, t.next # "load",
           t.next = "apply" => t.message = turn.message /\ turn.next = "load",
           t.next \in {"work", "promote", "respond"} => t.version <= db'.active
    PROVE  Turns'
<1>1. /\ Moved(r) /\ turn' = t
      /\ t.next = "end" => chat'[r].pc = "idle"
      /\ t.next # "end" => chat'[r].pc \in Nodes /\ chat'[r].turn = t
    BY CheckpointEffect
<1>2. \A q \in Runs : q # r => chat'[q].pc = "idle"
    BY <1>1 DEF Turns, OneLive, Moved, Live, At
<1>3. OneLive' /\ TurnHeld' /\ ApplyWrites'
    BY <1>1, <1>2 DEF OneLive, TurnHeld, ApplyWrites, Live, At, Mine, Writes, Writing, Nodes
<1>4. VersionMade'
    BY <1>1, <1>2 DEF VersionMade, At, Mine, Nodes
<1>5. BaseBefore'
    <2>1. ASSUME t.next = "apply", t.message \in ChatMessages, NEW v \in Nat PROVE ~OfTurn(v)'
        <3>1. turn.next = "load" /\ turn'.message = turn.message
            BY <1>1, <2>1
        <3>2. ~OfTurn(v)
            BY <1>1, <2>1, <3>1 DEF Turns, BaseBefore
        <3>3. QED
            BY <3>1, <3>2 DEF OfTurn, SameRows
    <2>2. QED
        BY <1>1, <2>1 DEF BaseBefore
<1>6. Settled' /\ OnceCached'
    BY SettledLemma, RowsStayLemma DEF Turns
<1>7. QED
    BY <1>3, <1>4, <1>5, <1>6 DEF Turns

-----------------------------------------------------------------------------

\* The invariants, for the one process p.
LedgerInv == PromotionInv /\ BooksInv /\ TurnsInv

\* What a run that is live stands on.
LEMMA RunLemma ==
    ASSUME PromotionInv, NEW p, Replicas = {p}, NEW r \in Runs, Live(r)
    PROVE  Replica(r) = p /\ chat[r].replica = p /\ Cached(r) = cache[p] /\ Mine(r) = chat[r].turn
BY DEF PromotionInv, LiveHasReplica, Cached, Replica, Mine

\* Steps of one run that leave tables and cache alone and take no copy.
LEMMA QuietStep ==
    ASSUME LedgerInv, PromotionInv', NEW r \in Runs, Live(r), Moved(r), Placed',
           UNCHANGED <<api, overlapped, stalls>>, SameVersions,
           chat'[r].pc \notin Writing, Turns => Turns'
    PROVE  BooksInv' /\ TurnsInv'
<1>1. NoNewCopy
    BY DEF NoNewCopy, Moved
<1>2. Books => Books'
    BY <1>1, BooksQuiet DEF LedgerInv, PromotionInv
<1>3. Named'
    BY DEF LedgerInv, BooksInv, Named
<1>4. QED
    BY <1>2, <1>3 DEF LedgerInv, BooksInv, TurnsInv

\* The checkpoint after a node that has written nothing.
LEMMA PassStep ==
    ASSUME LedgerInv, PromotionInv', NEW p, Replicas = {p}, NEW r \in Runs, Live(r),
           NEW t \in State, Checkpoint(r, t), UNCHANGED <<db, cache, api, overlapped, stalls>>,
           t.next # "load",
           t.next = "apply" => t.message = Mine(r).message /\ At(r, "load"),
           t.next \in {"work", "promote", "respond"} => t.version = Mine(r).version /\ ~At(r, "load"),
           chat[r].pc \in {"load", "applied", "work", "promoted", "respond"}
    PROVE  BooksInv' /\ TurnsInv'
<1>1. /\ Moved(r)
      /\ t.next = "end" => chat'[r].pc = "idle"
      /\ t.next # "end" => chat'[r].pc = t.next /\ chat'[r].pc \in Nodes /\ chat'[r].turn = t
    BY CheckpointEffect DEF LedgerInv
<1>2. chat'[r].pc = "idle" \/ (chat'[r].pc \in Nodes /\ chat'[r].turn.next = chat'[r].pc)
    BY <1>1
<1>3. Placed' /\ chat'[r].pc \notin Writing
    BY <1>1, <1>2, PlacedLemma DEF LedgerInv, BooksInv, Nodes, Writing, Moved
<1>4. SameVersions /\ SameRows /\ SameRecords
    BY DEF SameVersions, SameRows, SameRecords
<1>5. db.active <= db'.active
    BY DEF LedgerInv, PromotionInv, Types, Tables
<1>6. ASSUME Turns PROVE Turns'
    <2>1. /\ Mine(r).next = turn.next /\ Mine(r).message = turn.message
          /\ turn.next # "apply" => Mine(r) = turn
        BY <1>6 DEF Turns, TurnHeld
    <2>2. t.next = "apply" => t.message = turn.message /\ turn.next = "load"
        BY <2>1 DEF At, LedgerInv, BooksInv, Placed, Nodes
    <2>3. t.next \in {"work", "promote", "respond"} => t.version <= db'.active
        <3>1. CASE chat[r].pc = "applied"
            BY <1>6, <3>1 DEF Turns, VersionMade
        <3>2. CASE chat[r].pc \in {"work", "promoted", "respond"}
            <4>1. Mine(r).next \in {"work", "promote", "respond"}
                BY <3>2 DEF LedgerInv, BooksInv, Placed, Nodes
            <4>2. Mine(r) = turn /\ turn.next \in {"work", "promote", "respond"}
                BY <2>1, <4>1
            <4>3. QED
                BY <1>6, <4>2 DEF Turns, VersionMade
        <3>3. CASE chat[r].pc = "load"
            BY <3>3 DEF At
        <3>4. QED
            BY <3>1, <3>2, <3>3
    <2>4. QED
        BY <1>4, <1>5, <1>6, <2>2, <2>3, TurnsCheckpoint DEF LedgerInv
<1>7. QED
    BY <1>1, <1>3, <1>4, <1>6, QuietStep

\* A step within a node that takes no copy and changes no version or record.
LEMMA WithinStep ==
    ASSUME LedgerInv, PromotionInv', NEW p, Replicas = {p}, NEW r \in Runs, Live(r), Moved(r),
           UNCHANGED <<turn, api, overlapped, stalls>>,
           SameVersions, SameRecords, Placed',
           \/ chat'[r].pc = "idle"
           \/ /\ chat'[r].pc \notin Writing /\ chat'[r].pc \notin {"save", "applied"}
              /\ chat'[r].turn = chat[r].turn
    PROVE  BooksInv' /\ TurnsInv'
<1>1. SameRows /\ db.active <= db'.active /\ chat'[r].pc \notin Writing
    BY DEF SameRows, SameVersions, LedgerInv, PromotionInv, Types, Tables, Writing
<1>2. Turns => Turns'
    BY <1>1, TurnsWithin DEF LedgerInv
<1>3. QED
    BY <1>1, <1>2, QuietStep

LEMMA LoadStep ==
    ASSUME LedgerInv, PromotionInv', NEW p, Replicas = {p}, NEW r \in Runs, Load(r)
    PROVE  BooksInv' /\ TurnsInv'
<1>1. Live(r) /\ At(r, "load") /\ UNCHANGED <<db, cache, api, overlapped, stalls>>
    BY DEF Load, Live, At, bounds
<1>2. PICK t : t = [Mine(r) EXCEPT !.base = Cached(r).version, !.next = "apply"]
    OBVIOUS
<1>3. t \in State /\ t.next = "apply" /\ t.message = Mine(r).message
    <2>1. Cached(r).version \in Nat
        BY <1>1, ProcessLemma DEF LedgerInv
    <2>2. QED
        BY <1>2, <2>1, TurnLemma DEF LedgerInv, State
<1>4. Checkpoint(r, t)
    BY <1>2 DEF Load
<1>5. chat[r].pc = "load"
    BY <1>1 DEF At
<1>6. QED
    BY <1>1, <1>3, <1>4, <1>5, PassStep

LEMMA PassesStep ==
    ASSUME LedgerInv, PromotionInv', NEW p, Replicas = {p}, NEW r \in Runs,
           NEW next \in {"work", "promote", "respond", "end"}, Pass(r, next),
           chat[r].pc \in {"applied", "work", "promoted", "respond"}
    PROVE  BooksInv' /\ TurnsInv'
<1>1. Live(r) /\ ~At(r, "load") /\ UNCHANGED <<db, cache, api, overlapped, stalls>>
    BY DEF Pass, Live, At, bounds
<1>2. PICK t : t = [Mine(r) EXCEPT !.next = next]
    OBVIOUS
<1>3. t \in State /\ t.next = next /\ t.version = Mine(r).version
    <2>1. next \in Nodes \cup {"end"}
        BY DEF Nodes
    <2>2. QED
        BY <1>2, <2>1, TurnLemma, NextEffect DEF LedgerInv
<1>4. Checkpoint(r, t)
    BY <1>2 DEF Pass
<1>5. QED
    BY <1>1, <1>3, <1>4, PassStep

\* A run or the route takes a copy: unless another one is in hand.
LEMMA CopyStep ==
    ASSUME LedgerInv, PromotionInv', NEW p, Replicas = {p}, NEW r \in Runs, Live(r), Copy(p), NEW task \in Nat,
           chat' = [chat EXCEPT ![r].task = task, ![r].pc = "write"],
           task = cache[p].version + (IF Mine(r).next = "apply" THEN 1 ELSE 0),
           Mine(r).next \in {"apply", "work", "respond"},
           Mine(r).next = "apply" /\ Mine(r).message \in Messages => cache[p].version = Mine(r).base,
           UNCHANGED <<db, cache, turn, api, stalls>>
    PROVE  BooksInv' /\ TurnsInv'
<1>1. /\ Moved(r) /\ chat'[r].pc = "write" /\ chat'[r].replica = chat[r].replica
      /\ chat'[r].turn = chat[r].turn /\ chat'[r].task = task
    BY CopyEffect DEF LedgerInv
<1>2. chat[r].replica = p /\ Mine(r) = chat[r].turn
    BY RunLemma DEF LedgerInv
<1>3. Placed' /\ Named'
    BY <1>1, <1>2, PlacedLemma DEF LedgerInv, BooksInv, Writing, Named
<1>4. ~overlapped' => ~overlapped /\ ~Overlaps(p)
    BY DEF Copy
<1>5. Books /\ ~Overlaps(p) => Books'
    BY <1>1, <1>2, BooksCopy DEF LedgerInv
<1>6. Turns => Turns'
    <2>1. SameRows /\ SameRecords /\ db.active <= db'.active
        BY DEF SameRows, SameRecords, LedgerInv, PromotionInv, Types, Tables
    <2>2. chat'[r].turn.next = "apply" /\ chat'[r].turn.message \in Messages
          => chat'[r].task = chat'[r].turn.base + 1
        BY <1>1, <1>2
    <2>3. QED
        BY <1>1, <2>1, <2>2, TurnsWithin DEF LedgerInv
<1>7. QED
    BY <1>3, <1>4, <1>5, <1>6 DEF LedgerInv, BooksInv, TurnsInv

LEMMA ApplyStep ==
    ASSUME LedgerInv, PromotionInv', NEW p, Replicas = {p}, NEW r \in Runs, Apply(r)
    PROVE  BooksInv' /\ TurnsInv'
<1>1. /\ Live(r) /\ At(r, "apply") /\ UNCHANGED <<db, cache, turn, api, stalls>>
      /\ chat[r].pc = "apply"
    BY DEF Apply, Live, At, bounds
<1>2. Replica(r) = p /\ Cached(r) = cache[p] /\ Mine(r) = chat[r].turn
    BY <1>1, RunLemma DEF LedgerInv
<1>3. Mine(r).next = "apply"
    BY <1>1 DEF LedgerInv, BooksInv, Placed, Nodes
<1>4. SameVersions /\ SameRows /\ SameRecords /\ db.active <= db'.active
    BY <1>1 DEF SameVersions, SameRows, SameRecords, LedgerInv, PromotionInv, Types, Tables
<1>5. PICK m \in TurnMessages : m = Mine(r).message
    BY TurnLemma DEF LedgerInv, State
<1>6. m \in Sources
    BY <1>5 DEF TurnMessages, Sources, Messages
<1>7. CASE Fail(r) /\ overlapped' = overlapped
    BY <1>1, <1>4, <1>7, FailEffect, PlacedLemma, WithinStep DEF LedgerInv, BooksInv
<1>8. ASSUME NEW v \in Nat, NEW pc \in {"save", "applied"}, overlapped' = overlapped,
             Found(r, v, pc),
             Books /\ Turns => v <= db.active /\ (pc = "save" => Mine(r).base < db.active)
      PROVE  BooksInv' /\ TurnsInv'
    <2>1. /\ Moved(r) /\ chat'[r].pc = pc
          /\ chat'[r].turn.version = v
          /\ chat'[r].turn.next = chat[r].turn.next
          /\ chat'[r].turn.message = chat[r].turn.message
          /\ chat'[r].turn.base = chat[r].turn.base
        BY <1>8, FoundEffect DEF LedgerInv
    <2>2. /\ chat'[r].turn.next = "apply" /\ chat'[r].turn.message = Mine(r).message
          /\ chat'[r].turn.base = Mine(r).base /\ chat'[r].turn.version = v
        BY <1>2, <1>3, <2>1, TurnLemma DEF LedgerInv, State
    <2>3. Placed' /\ chat'[r].pc \notin Writing
        BY <2>1, <2>2, PlacedLemma DEF LedgerInv, BooksInv, Writing
    <2>4. Named' /\ NoNewCopy
        BY <1>1, <2>1, <2>3 DEF LedgerInv, BooksInv, Named, NoNewCopy, Moved
    <2>5. Books => Books'
        BY <1>4, <2>4, BooksQuiet DEF LedgerInv, PromotionInv
    <2>6. Books /\ Turns => Turns'
        <3>1. ASSUME Books, Turns PROVE turn.next = "apply"
            BY <1>1, <1>3, <3>1 DEF Turns, TurnHeld
        <3>2. ASSUME Books, Turns PROVE Turns'
            BY <1>1, <1>2, <1>3, <1>4, <1>8, <2>1, <2>2, <2>3, <3>1, <3>2, TurnsWithin DEF LedgerInv
        <3>3. QED
            BY <3>2
    <2>7. QED
        BY <1>8, <2>3, <2>4, <2>5, <2>6, <1>1 DEF LedgerInv, BooksInv, TurnsInv
<1>9. CASE /\ Cached(r).saved[m] # 0 /\ overlapped' = overlapped
           /\ Found(r, Cached(r).saved[m], "applied")
    <2>1. Turns => Cached(r).saved[m] <= db.active
        BY <1>2 DEF Turns, Settled
    <2>2. Cached(r).saved[m] \in Nat
        BY <1>2, <1>6 DEF LedgerInv, PromotionInv, Types, Cache
    <2>3. QED
        BY <1>8, <1>9, <2>1, <2>2
<1>10. CASE /\ Cached(r).requests[m] # 0 /\ overlapped' = overlapped
            /\ Found(r, Cached(r).requests[m], "save")
    <2>1. PICK v \in Nat : v = cache[p].requests[m]
        BY <1>6 DEF LedgerInv, PromotionInv, Types, Cache
    <2>2. ASSUME Books, Turns PROVE v <= db.active /\ Mine(r).base < db.active
        <3>1. m \in Messages /\ v \in 1..db.active /\ db.rows[v].message = m
            BY <1>2, <1>6, <1>10, <2>1, <2>2 DEF Books, RequestsMade
        <3>2. m \in ChatMessages
            BY <3>1, TaskAssumption DEF TurnMessages, Messages
        <3>3. cache[p].rows \in Seq(Row) /\ cache[p].version \in Nat /\ db.active \in Nat
            BY DEF LedgerInv, PromotionInv, Types, Cache, Tables
        <3>4. DOMAIN cache[p].rows = 1..cache[p].version /\ db.active <= cache[p].version
              /\ cache[p].rows[v] = db.rows[v]
            BY <2>2, <3>1, <3>3, LenProperties DEF Books, InStep
        <3>5. turn.message = m /\ turn.next = "apply" /\ turn.base = Mine(r).base
            BY <1>1, <1>3, <1>5, <2>2 DEF Turns, TurnHeld
        <3>6. v \in Nat /\ OfTurn(v)
            BY <3>1, <3>3, <3>4, <3>5 DEF OfTurn
        <3>7. Mine(r).base < v
            BY <2>2, <3>2, <3>5, <3>6 DEF Turns, BaseBefore
        <3>8. Mine(r).base \in Nat
            BY TurnLemma DEF LedgerInv
        <3>9. QED
            BY <3>1, <3>3, <3>6, <3>7, <3>8
    <2>3. QED
        BY <1>2, <1>8, <1>10, <2>1, <2>2
<1>11. CASE /\ m \in Messages => Cached(r).version = Mine(r).base
            /\ Copy(Replica(r))
            /\ chat' = [chat EXCEPT ![r].task = Cached(r).version + 1, ![r].pc = "write"]
    <2>1. cache[p].version + 1 \in Nat
        BY DEF LedgerInv, PromotionInv, Types, Cache
    <2>2. QED
        BY <1>1, <1>2, <1>3, <1>5, <1>11, <2>1, CopyStep
<1>12. QED
    BY <1>5, <1>7, <1>9, <1>10, <1>11 DEF Apply, Found

LEMMA SetStatusStep ==
    ASSUME LedgerInv, PromotionInv', NEW p, Replicas = {p}, NEW r \in Runs, SetStatus(r),
           At(r, "work") \/ At(r, "respond")
    PROVE  BooksInv' /\ TurnsInv'
<1>1. Live(r) /\ UNCHANGED <<db, cache, turn, api, stalls>> /\ chat[r].pc \in {"work", "respond"}
    BY DEF SetStatus, Live, At, bounds
<1>2. Replica(r) = p /\ Cached(r) = cache[p]
    BY <1>1, RunLemma DEF LedgerInv
<1>3. Mine(r).next \in {"work", "respond"}
    BY <1>1 DEF LedgerInv, BooksInv, Placed, Nodes
<1>4. cache[p].version \in Nat
    BY DEF LedgerInv, PromotionInv, Types, Cache
<1>5. /\ Copy(p)
      /\ chat' = [chat EXCEPT ![r].task = cache[p].version, ![r].pc = "write"]
    BY <1>2 DEF SetStatus
<1>6. cache[p].version = cache[p].version + (IF Mine(r).next = "apply" THEN 1 ELSE 0)
    BY <1>3, <1>4
<1>7. Mine(r).next # "apply" /\ Mine(r).next \in {"apply", "work", "respond"}
    BY <1>3
<1>8. QED
    BY <1>1, <1>4, <1>5, <1>6, <1>7, CopyStep, Zenon

LEMMA ChecksStep ==
    ASSUME LedgerInv, PromotionInv', NEW p, Replicas = {p}, NEW r \in Runs, Check(r)
    PROVE  BooksInv' /\ TurnsInv'
<1>1. Live(r) /\ UNCHANGED <<db, cache, turn, api, overlapped, stalls>> /\ chat[r].pc = "promote"
    BY DEF Check, Live, At, bounds
<1>2. PICK x : x = [chat[r] EXCEPT !.allowed = (newest = r), !.pc = "checked"]
    OBVIOUS
<1>3. x.pc = "checked" /\ x.turn = chat[r].turn
    BY <1>2, TurnLemma DEF LedgerInv, Run
<1>4. chat' = [chat EXCEPT ![r] = x] /\ chat \in [Runs -> Run]
    BY <1>2 DEF Check, LedgerInv, PromotionInv, Types
<1>5. Moved(r) /\ chat'[r].pc = "checked" /\ chat'[r].turn = chat[r].turn
    BY <1>3, <1>4 DEF Moved
<1>6. chat[r].turn.next = "promote"
    BY <1>1 DEF LedgerInv, BooksInv, Placed, Nodes, Mine
<1>7. Placed'
    BY <1>5, <1>6, PlacedLemma DEF LedgerInv, BooksInv
<1>8. SameVersions /\ SameRecords /\ chat'[r].pc \notin Writing
    BY <1>1, <1>5 DEF SameVersions, SameRecords, Writing
<1>9. QED
    BY <1>1, <1>5, <1>7, <1>8, WithinStep

\* The steps of a promotion change snapshots only.
LEMMA PromoteStep ==
    ASSUME LedgerInv, PromotionInv', NEW p, Replicas = {p}, NEW r \in Runs,
           Reject(r) \/ Demote(r) \/ Insert(r)
    PROVE  BooksInv' /\ TurnsInv' /\ SameVersions /\ SameRecords /\ Moved(r)
<1>1. /\ Live(r) /\ UNCHANGED <<turn, api, overlapped, stalls>>
      /\ chat[r].pc \in {"checked", "insert"}
    BY DEF Reject, Demote, Insert, Live, At, bounds
<1>2. /\ db \in Tables /\ cache \in [Replicas -> Cache] /\ cache[p] \in Cache
      /\ Replica(r) = p /\ chat[r].turn.next = "promote"
    BY <1>1, RunLemma DEF LedgerInv, PromotionInv, Types, BooksInv, Placed, Mine
<1>3. SameVersions /\ SameRecords
    <2>1. db'.active = db.active /\ db'.rows = db.rows /\ db'.saved = db.saved
        BY <1>2 DEF Reject, Demote, Insert, Tables
    <2>2. \E c \in Nat : cache' = cache \/ cache' = [cache EXCEPT ![p] = [cache[p] EXCEPT !.current = c]]
        <3>1. Mine(r).version \in Nat
            BY TurnLemma DEF LedgerInv
        <3>2. CASE Insert(r)
            BY <1>2, <3>1, <3>2 DEF Insert
        <3>3. CASE Reject(r) \/ Demote(r)
            BY <3>1, <3>3 DEF Reject, Demote
        <3>4. QED
            BY <3>2, <3>3
    <2>3. QED
        BY <1>2, <2>1, <2>2 DEF SameVersions, SameRecords, Cache
<1>4. \/ Fail(r)
      \/ \E pc \in {"insert", "promoted"} : chat' = [chat EXCEPT ![r].pc = pc]
    BY DEF Reject, Demote, Insert
<1>5. /\ Moved(r)
      /\ \/ chat'[r].pc = "idle"
         \/ chat'[r].pc \in {"insert", "promoted"} /\ chat'[r].turn = chat[r].turn
    <2>1. CASE Fail(r)
        BY <2>1, FailEffect DEF LedgerInv
    <2>2. ASSUME NEW pc \in {"insert", "promoted"}, chat' = [chat EXCEPT ![r].pc = pc]
          PROVE  Moved(r) /\ chat'[r].pc = pc /\ chat'[r].turn = chat[r].turn
        BY <2>2, PcEffect DEF LedgerInv
    <2>3. QED
        BY <1>4, <2>1, <2>2
<1>6. Placed'
    BY <1>2, <1>5, PlacedLemma DEF LedgerInv, BooksInv
<1>7. BooksInv' /\ TurnsInv'
    BY <1>1, <1>3, <1>5, <1>6, WithinStep DEF Writing
<1>8. QED
    BY <1>3, <1>5, <1>7

-----------------------------------------------------------------------------

\* A turn that is taken up while no other run is alive; a message of a new one has
\* made no version.
LEMMA StartStep ==
    ASSUME LedgerInv, PromotionInv', NEW p, Replicas = {p}, NEW r \in Runs, NEW m \in Sources, Start(r, p, m)
    PROVE  BooksInv' /\ TurnsInv'
<1>1. /\ UNCHANGED <<db, cache, api, overlapped>> /\ At(r, "idle")
      /\ stalls' = IF \E q \in Runs : Live(q) THEN stalls + 1 ELSE stalls
    BY DEF Start
<1>2. /\ turn' \in State /\ turn'.next \in Nodes
      /\ chat' = [chat EXCEPT ![r] = [Idle EXCEPT !.pc = turn'.next, !.replica = p, !.turn = turn']]
      /\ \/ turn' = turn
         \/ /\ turn'.next = "load" /\ turn'.message = m /\ m \in TurnMessages
            /\ m # NoMessage => Fresh(m)
    BY StartChat DEF LedgerInv
<1>3. /\ Moved(r) /\ chat'[r].pc = turn'.next /\ chat'[r].turn = turn'
      /\ chat'[r].pc \in Nodes
    <2>1. PICK x : x = [Idle EXCEPT !.pc = turn'.next, !.replica = p, !.turn = turn']
        OBVIOUS
    <2>2. x.pc = turn'.next /\ x.turn = turn'
        BY <2>1 DEF Idle
    <2>3. chat' = [chat EXCEPT ![r] = x] /\ chat \in [Runs -> Run]
        BY <1>2, <2>1 DEF LedgerInv, PromotionInv, Types
    <2>4. QED
        BY <1>2, <2>2, <2>3 DEF Moved
<1>4. Placed' /\ Named'
    BY <1>1, <1>3, PlacedLemma DEF LedgerInv, BooksInv, Named
<1>5. SameVersions /\ NoNewCopy /\ SameRecords /\ SameRows /\ chat'[r].pc \notin Writing
    BY <1>1, <1>3 DEF SameVersions, NoNewCopy, SameRecords, SameRows, Moved, Nodes, Writing
<1>6. Books => Books'
    BY <1>5, BooksQuiet DEF LedgerInv, PromotionInv
<1>7. stalls' = 0 => stalls = 0 /\ \A q \in Runs : ~Live(q)
    BY <1>1 DEF LedgerInv, PromotionInv, Types, Beside
<1>8. ASSUME Turns, \A q \in Runs : ~Live(q) PROVE Turns'
    <2>1. \A q \in Runs : q # r => chat'[q].pc = "idle"
        BY <1>3, <1>8 DEF Live, At, Moved
    <2>2. OneLive' /\ TurnHeld' /\ ApplyWrites'
        BY <1>3, <2>1 DEF OneLive, TurnHeld, ApplyWrites, Live, At, Mine, Writes, Writing, Nodes
    <2>3. VersionMade'
        <3>1. turn'.next \in {"work", "promote", "respond"} => turn'.version <= db'.active
            BY <1>1, <1>2, <1>8 DEF Turns, VersionMade
        <3>2. QED
            BY <1>3, <2>1, <3>1 DEF VersionMade, At, Mine, Nodes
    <2>4. BaseBefore'
        <3>1. CASE turn' = turn
            BY <1>5, <1>8, <3>1, RowsStayLemma DEF Turns
        <3>2. CASE turn'.next = "load" /\ turn'.message = m /\ (m # NoMessage => Fresh(m))
            <4>1. ASSUME m \in ChatMessages, NEW v \in Nat PROVE ~OfTurn(v)'
                <5>1. Fresh(m)
                    BY <3>2, <4>1, TaskAssumption
                <5>2. QED
                    BY <1>1, <3>2, <5>1 DEF OfTurn, Fresh
            <4>2. QED
                BY <3>2, <4>1 DEF BaseBefore
        <3>3. QED
            BY <1>2, <3>1, <3>2
    <2>5. Settled' /\ OnceCached'
        BY <1>1, <1>8 DEF Turns, Settled, OnceCached
    <2>6. QED
        BY <2>2, <2>3, <2>4, <2>5 DEF Turns
<1>9. QED
    BY <1>1, <1>4, <1>6, <1>7, <1>8 DEF LedgerInv, BooksInv, TurnsInv

\* A row put into the cache is the first of its message, or not of the conversation.
LEMMA OnceLemma ==
    ASSUME PromotionInv, InStep, OnceCached, NEW p, Replicas = {p}, NEW m \in Sources, NEW task \in Nat,
           PutBack(p, task, m),
           m \in ChatMessages /\ task = cache[p].version + 1
           => \A v \in 1..cache[p].version : cache[p].rows[v].message # m
    PROVE  OnceCached'
<1>1. /\ DOMAIN cache'[p].rows = 1..task /\ DOMAIN cache[p].rows = 1..cache[p].version
      /\ cache[p].version \in Nat
      /\ \A v \in 1..cache[p].version : cache'[p].rows[v] = cache[p].rows[v]
      /\ task = cache[p].version + 1 => cache'[p].rows[task].message = m
    BY PutRows
<1>2. task \in {cache[p].version, cache[p].version + 1}
    BY DEF PutBack
<1>3. ASSUME NEW v \in 1..task, NEW w \in 1..task,
             cache'[p].rows[v].message = cache'[p].rows[w].message,
             cache'[p].rows[v].message \in ChatMessages
      PROVE  v = w
    <2>1. CASE v \in 1..cache[p].version /\ w \in 1..cache[p].version
        <3>1. cache'[p].rows[v] = cache[p].rows[v] /\ cache'[p].rows[w] = cache[p].rows[w]
            BY <1>1, <2>1
        <3>2. QED
            BY <1>1, <1>3, <2>1, <3>1 DEF OnceCached
    <2>2. CASE v \notin 1..cache[p].version
        <3>1. v = task /\ task = cache[p].version + 1
            BY <1>1, <1>2, <2>2
        <3>2. m \in ChatMessages /\ cache'[p].rows[w].message = m
            BY <1>1, <1>3, <3>1
        <3>3. w \notin 1..cache[p].version
            BY <1>1, <3>1, <3>2
        <3>4. QED
            BY <1>1, <3>1, <3>3
    <2>3. CASE w \notin 1..cache[p].version
        <3>1. w = task /\ task = cache[p].version + 1
            BY <1>1, <1>2, <2>3
        <3>2. m \in ChatMessages /\ cache'[p].rows[v].message = m
            BY <1>1, <1>3, <3>1
        <3>3. v \notin 1..cache[p].version
            BY <1>1, <3>1, <3>2
        <3>4. QED
            BY <1>1, <3>1, <3>3
    <2>4. QED
        BY <2>1, <2>2, <2>3
<1>4. QED
    BY <1>1, <1>3 DEF OnceCached

\* A row of another message, or of the version planned for, keeps the turn's place.
LEMMA BaseLemma ==
    ASSUME PromotionInv, InStep, BaseBefore, NEW p, Replicas = {p}, NEW m \in Sources, NEW task \in Nat,
           PutBack(p, task, m), turn' = turn,
           \/ task = cache[p].version
           \/ m \notin ChatMessages
           \/ turn.next = "apply" /\ turn.base < task
    PROVE  BaseBefore'
<1>1. /\ DOMAIN cache'[p].rows = 1..task /\ DOMAIN cache[p].rows = 1..cache[p].version
      /\ cache[p].version \in Nat
      /\ \A v \in 1..cache[p].version : cache'[p].rows[v] = cache[p].rows[v]
      /\ task = cache[p].version + 1 => cache'[p].rows[task].message = m
    BY PutRows
<1>2. task \in {cache[p].version, cache[p].version + 1}
    BY DEF PutBack
<1>3. ASSUME NEW v \in Nat, OfTurn(v)', ~OfTurn(v)
      PROVE  v = task /\ task = cache[p].version + 1 /\ turn.message = m
    <2>1. v \in 1..task /\ cache'[p].rows[v].message = turn.message
        BY <1>1, <1>3 DEF OfTurn
    <2>2. v \notin 1..cache[p].version
        BY <1>1, <1>3, <2>1 DEF OfTurn
    <2>3. QED
        BY <1>1, <1>2, <2>1, <2>2
<1>4. QED
    BY <1>1, <1>3 DEF BaseBefore

\* A run puts its copy back.
LEMMA WriteStep ==
    ASSUME LedgerInv, PromotionInv', NEW p, Replicas = {p}, NEW r \in Runs, Write(r)
    PROVE  BooksInv' /\ TurnsInv'
<1>1. /\ Live(r) /\ chat[r].pc = "write" /\ UNCHANGED <<db, turn, api, overlapped, stalls>>
      /\ chat[r].task \in Nat /\ Mine(r).message \in Sources
    BY TurnLemma DEF Write, Live, At, bounds, LedgerInv, Run
<1>2. /\ Moved(r) /\ chat'[r].pc = "commit" /\ chat'[r].turn = chat[r].turn
      /\ chat'[r].task = chat[r].task
    BY PcEffect DEF Write, LedgerInv
<1>3. Placed' /\ Named'
    BY <1>1, <1>2, PlacedLemma DEF LedgerInv, BooksInv, Named, Placed, Mine, Writing
<1>4. Books => Books'
    BY BooksWrite DEF LedgerInv
<1>5. ASSUME Books, Turns PROVE Turns'
    <2>1. /\ PutBack(p, chat[r].task, Mine(r).message)
          /\ chat[r].task = cache[p].version + (IF Mine(r).next = "apply" THEN 1 ELSE 0)
        BY <1>5, BooksWrite DEF LedgerInv
    <2>2. \A q \in Runs : q # r => chat'[q].pc = "idle"
        BY <1>1, <1>2, <1>5 DEF Turns, OneLive, Moved, Live, At
    <2>3. Mine(r)' = Mine(r) /\ Writes(r)
        BY <1>1, <1>2 DEF Mine, Writes, Writing
    <2>4. OneLive' /\ TurnHeld' /\ ApplyWrites'
        BY <1>1, <1>2, <1>5, <2>2, <2>3 DEF Turns, OneLive, TurnHeld, ApplyWrites, Live, At, Writes, Writing
    <2>5. VersionMade'
        BY <1>1, <1>2, <1>5, <2>2 DEF Turns, VersionMade, At
    <2>6. Settled'
        BY <1>1, <1>5, <2>1 DEF Turns, Settled, PutBack
    <2>7. /\ Mine(r).next = turn.next /\ Mine(r).message = turn.message /\ Mine(r).base = turn.base
        BY <1>1, <1>5 DEF Turns, TurnHeld
    <2>8. cache[p].version \in Nat /\ Mine(r).base \in Nat
        BY TurnLemma DEF LedgerInv, PromotionInv, Types, Cache
    <2>9. Mine(r).next = "apply" /\ Mine(r).message \in ChatMessages =>
              /\ chat[r].task = turn.base + 1 /\ cache[p].version = turn.base
        BY <1>5, <2>1, <2>3, <2>7, <2>8 DEF Turns, ApplyWrites, Messages
    <2>10. BaseBefore'
        <3>1. \/ chat[r].task = cache[p].version \/ Mine(r).message \notin ChatMessages
              \/ turn.next = "apply" /\ turn.base < chat[r].task
            BY <2>1, <2>7, <2>8, <2>9
        <3>2. QED
            BY <1>1, <1>5, <2>1, <3>1, BaseLemma DEF LedgerInv, Books, Turns
    <2>11. OnceCached'
        <3>1. ASSUME Mine(r).message \in ChatMessages, chat[r].task = cache[p].version + 1,
                     NEW v \in 1..cache[p].version
              PROVE  cache[p].rows[v].message # Mine(r).message
            <4>1. Mine(r).next = "apply"
                BY <2>1, <2>8, <3>1
            <4>2. cache[p].version = turn.base /\ turn.message = Mine(r).message /\ turn.next = "apply"
                BY <2>7, <2>9, <3>1, <4>1
            <4>3. v \in DOMAIN cache[p].rows /\ v \in Nat /\ ~(turn.base < v)
                <5>1. cache[p].rows \in Seq(Row) /\ Len(cache[p].rows) = cache[p].version
                    BY <1>5 DEF LedgerInv, PromotionInv, Types, Cache, Books, InStep
                <5>2. DOMAIN cache[p].rows = 1..cache[p].version
                    BY <5>1, LenProperties
                <5>3. QED
                    BY <2>8, <4>2, <5>2
            <4>4. ~OfTurn(v)
                BY <1>5, <3>1, <4>2, <4>3 DEF Turns, BaseBefore
            <4>5. QED
                BY <4>2, <4>3, <4>4 DEF OfTurn
        <3>2. QED
            BY <1>1, <1>5, <2>1, <3>1, OnceLemma DEF LedgerInv, Books, Turns
    <2>12. QED
        BY <2>4, <2>5, <2>6, <2>10, <2>11 DEF Turns
<1>6. QED
    BY <1>1, <1>3, <1>4, <1>5 DEF LedgerInv, BooksInv, TurnsInv

\* A version committed: it is the turn's, and the active one.
LEMMA CommitVersionStep ==
    ASSUME LedgerInv, PromotionInv', NEW p, Replicas = {p}, NEW r \in Runs, CommitVersion(r)
    PROVE  BooksInv' /\ TurnsInv'
<1>1. /\ Live(r) /\ chat[r].pc = "commit" /\ UNCHANGED <<turn, api, overlapped, stalls>>
      /\ chat[r].task \in Nat /\ Mine(r).next = "apply" /\ Mine(r) = chat[r].turn
      /\ Replica(r) = p /\ Cached(r) = cache[p]
    BY TurnLemma, RunLemma DEF CommitVersion, Live, At, bounds, LedgerInv, Run
<1>2. CASE ~Mergeable(cache[p].rows)
    <2>1. Fail(r) /\ UNCHANGED <<db, cache>>
        BY <1>1, <1>2 DEF CommitVersion
    <2>2. Moved(r) /\ chat'[r].pc = "idle"
        BY <2>1, FailEffect DEF LedgerInv
    <2>3. Placed' /\ SameVersions /\ SameRecords
        BY <2>1, <2>2, PlacedLemma DEF LedgerInv, BooksInv, SameVersions, SameRecords
    <2>4. QED
        BY <1>1, <2>2, <2>3, WithinStep
<1>3. CASE Mergeable(cache[p].rows)
    <2>1. PICK pc \in {"save", "applied"} :
              /\ Made(r, chat[r].task, pc)
              /\ pc = "save" => Mine(r).message \in Messages
        BY <1>1, <1>3 DEF CommitVersion, Made
    <2>2. /\ Moved(r) /\ chat'[r].pc = pc
          /\ chat'[r].turn.version = chat[r].task
          /\ chat'[r].turn.next = chat[r].turn.next
          /\ chat'[r].turn.message = chat[r].turn.message
          /\ chat'[r].turn.base = chat[r].turn.base
        BY <1>1, <2>1, MadeEffect DEF LedgerInv
    <2>3. Placed' /\ Named'
        BY <1>1, <2>2, PlacedLemma DEF LedgerInv, BooksInv, Named
    <2>4. Books => Books'
        BY BooksCommit DEF LedgerInv, BooksInv
    <2>5. ASSUME Books, Turns PROVE Turns'
        <3>1. /\ Caught(p) /\ db.active <= db'.active /\ chat[r].task = cache[p].version
              /\ cache'[p].rows = cache[p].rows /\ cache'[p].saved = cache[p].saved
            BY <2>5, BooksCommit DEF LedgerInv, BooksInv
        <3>2. SameRows /\ SameRecords /\ db'.active = chat[r].task
            BY <3>1 DEF SameRows, SameRecords, Caught
        <3>3. turn.next = "apply"
            BY <1>1, <2>5 DEF Turns, TurnHeld
        <3>4. chat'[r].turn.version <= db'.active
            BY <1>1, <2>2, <3>2
        <3>5. chat'[r].pc = "save" => chat'[r].turn.base < db'.active
            <4>1. ASSUME pc = "save" PROVE chat[r].task = Mine(r).base + 1
                BY <1>1, <2>1, <2>5, <4>1 DEF Turns, ApplyWrites, Writes, Writing
            <4>2. Mine(r).base \in Nat
                BY TurnLemma DEF LedgerInv
            <4>3. QED
                BY <1>1, <2>2, <3>2, <4>1, <4>2
        <3>6. chat'[r].pc \notin Writing
            BY <2>2 DEF Writing
        <3>7. QED
            BY <1>1, <2>2, <2>5, <3>1, <3>2, <3>3, <3>4, <3>5, <3>6, TurnsWithin DEF LedgerInv
    <2>6. QED
        BY <1>1, <2>3, <2>4, <2>5 DEF LedgerInv, BooksInv, TurnsInv
<1>4. QED
    BY <1>2, <1>3

LEMMA CommitStatusStep ==
    ASSUME LedgerInv, PromotionInv', NEW p, Replicas = {p}, NEW r \in Runs, CommitStatus(r)
    PROVE  BooksInv' /\ TurnsInv'
<1>1. /\ Live(r) /\ chat[r].pc = "commit" /\ UNCHANGED <<cache, api, overlapped, stalls>>
      /\ Mine(r).next # "apply"
      /\ Replica(r) = p /\ Cached(r) = cache[p]
    BY RunLemma DEF CommitStatus, Live, At, bounds, LedgerInv
<1>2. Mine(r).next \in {"work", "respond"}
    BY <1>1 DEF LedgerInv, BooksInv, Placed, Writing
<1>3. CASE ~Mergeable(cache[p].rows)
    <2>1. Fail(r) /\ UNCHANGED <<db, turn>>
        BY <1>1, <1>3 DEF CommitStatus
    <2>2. Moved(r) /\ chat'[r].pc = "idle"
        BY <2>1, FailEffect DEF LedgerInv
    <2>3. Placed' /\ SameVersions /\ SameRecords
        BY <1>1, <2>1, <2>2, PlacedLemma DEF LedgerInv, BooksInv, SameVersions, SameRecords
    <2>4. QED
        BY <1>1, <2>1, <2>2, <2>3, WithinStep
<1>4. CASE Mergeable(cache[p].rows)
    <2>1. PICK next \in {"promote", "end"} : Checkpoint(r, [Mine(r) EXCEPT !.next = next])
        <3>1. Checkpoint(r, [Mine(r) EXCEPT !.next = IF Mine(r).next = "work" THEN "promote" ELSE "end"])
            BY <1>1, <1>4, TurnLemma DEF CommitStatus, LedgerInv, State
        <3>2. (IF Mine(r).next = "work" THEN "promote" ELSE "end") \in {"promote", "end"}
            OBVIOUS
        <3>3. QED
            BY <3>1, <3>2
    <2>2. PICK t : t = [Mine(r) EXCEPT !.next = next]
        OBVIOUS
    <2>3. t \in State /\ t.next = next /\ t.version = Mine(r).version /\ Checkpoint(r, t)
        <3>1. next \in Nodes \cup {"end"}
            BY DEF Nodes
        <3>2. QED
            BY <2>1, <2>2, <3>1, TurnLemma, NextEffect DEF LedgerInv
    <2>4. /\ Moved(r)
          /\ t.next = "end" => chat'[r].pc = "idle"
          /\ t.next # "end" => chat'[r].pc = t.next /\ chat'[r].pc \in Nodes /\ chat'[r].turn = t
        BY <2>3, CheckpointEffect DEF LedgerInv
    <2>5. chat'[r].pc = "idle" \/ (chat'[r].pc \in Nodes /\ chat'[r].turn.next = chat'[r].pc)
        BY <2>4
    <2>6. Placed' /\ Named'
        BY <1>1, <2>4, <2>5, PlacedLemma DEF LedgerInv, BooksInv, Named
    <2>7. Books => Books'
        BY BooksCommit DEF LedgerInv, BooksInv
    <2>8. ASSUME Books, Turns PROVE Turns'
        <3>1. Caught(p) /\ db.active <= db'.active
            BY <2>8, BooksCommit DEF LedgerInv, BooksInv
        <3>2. SameRows /\ SameRecords
            BY <1>1, <3>1 DEF SameRows, SameRecords, Caught
        <3>3. Mine(r) = turn
            BY <1>1, <2>8 DEF Turns, TurnHeld
        <3>4. t.version <= db'.active
            <4>1. turn.version <= db.active
                BY <1>2, <2>8, <3>3 DEF Turns, VersionMade
            <4>2. turn.version \in Nat /\ db.active \in Nat /\ db'.active \in Nat
                BY DEF LedgerInv, PromotionInv, Types, Beside, State, Tables
            <4>3. QED
                BY <2>3, <3>1, <3>3, <4>1, <4>2
        <3>5. QED
            BY <1>1, <2>3, <2>8, <3>1, <3>2, <3>4, TurnsCheckpoint DEF LedgerInv
    <2>9. QED
        BY <1>1, <2>6, <2>7, <2>8 DEF LedgerInv, BooksInv, TurnsInv
<1>5. QED
    BY <1>3, <1>4

\* The record of the turn's mutation names a version that has been committed.
LEMMA SaveMutationStep ==
    ASSUME LedgerInv, PromotionInv', NEW p, Replicas = {p}, NEW r \in Runs, SaveMutation(r)
    PROVE  BooksInv' /\ TurnsInv'
<1>1. /\ Live(r) /\ chat[r].pc = "save" /\ UNCHANGED <<turn, api, overlapped, stalls>>
      /\ Mine(r).next = "apply" /\ Mine(r) = chat[r].turn /\ Replica(r) = p
      /\ Mine(r).base \in Nat /\ Mine(r).message \in Sources
    BY TurnLemma, RunLemma DEF SaveMutation, Live, At, bounds, LedgerInv, BooksInv, Placed
<1>2. Record(p, Mine(r).message, Mine(r).base + 1) /\ Mine(r).base + 1 \in Nat
    BY <1>1 DEF SaveMutation
<1>3. /\ db'.active = db.active /\ db'.rows = db.rows
      /\ cache'[p].version = cache[p].version /\ cache'[p].rows = cache[p].rows
      /\ cache'[p].requests = cache[p].requests
      /\ \A n \in Sources : \/ cache'[p].saved[n] = cache[p].saved[n]
                            \/ cache'[p].saved[n] = Mine(r).base + 1
      /\ \A n \in Sources : \/ db'.saved[n] = db.saved[n]
                            \/ db'.saved[n] = cache'[p].saved[n]
    BY <1>1, <1>2, RecordLemma DEF LedgerInv
<1>4. SameVersions /\ SameRows
    BY <1>3 DEF SameVersions, SameRows
<1>5. \/ Fail(r)
      \/ chat' = [chat EXCEPT ![r].pc = "applied"]
    BY DEF SaveMutation
<1>6. /\ Moved(r)
      /\ \/ chat'[r].pc = "idle"
         \/ chat'[r].pc = "applied" /\ chat'[r].turn = chat[r].turn
    BY <1>5, FailEffect, PcEffect DEF LedgerInv
<1>7. Placed' /\ chat'[r].pc \notin Writing
    BY <1>1, <1>6, PlacedLemma DEF LedgerInv, BooksInv, Writing
<1>8. ASSUME Turns PROVE Turns'
    <2>1. \A q \in Runs : q # r => chat'[q].pc = "idle"
        BY <1>1, <1>6, <1>8 DEF Turns, OneLive, Moved, Live, At
    <2>2. OneLive' /\ TurnHeld' /\ ApplyWrites'
        BY <1>1, <1>6, <1>7, <1>8, <2>1 DEF Turns, OneLive, TurnHeld, ApplyWrites, Live, At, Mine, Writes, Writing
    <2>3. Mine(r).version <= db.active /\ Mine(r).base < db.active
        BY <1>1, <1>8 DEF Turns, VersionMade, At
    <2>4. VersionMade'
        BY <1>1, <1>3, <1>6, <1>8, <2>1, <2>3 DEF Turns, VersionMade, At, Mine
    <2>5. Settled'
        <3>1. ASSUME NEW m \in TurnMessages PROVE db'.saved[m] <= db'.active /\ cache'[p].saved[m] <= db'.active
            <4>1. m \in Sources
                BY DEF TurnMessages, Sources, Messages
            <4>2. db.active \in Nat /\ Mine(r).base + 1 <= db.active
                BY <1>1, <2>3 DEF LedgerInv, PromotionInv, Types, Tables
            <4>3. db.saved[m] <= db.active /\ cache[p].saved[m] <= db.active
                BY <1>8 DEF Turns, Settled
            <4>4. QED
                BY <1>3, <4>1, <4>2, <4>3
        <3>2. QED
            BY <3>1 DEF Settled
    <2>6. BaseBefore' /\ OnceCached'
        BY <1>1, <1>4, <1>8, RowsStayLemma DEF Turns
    <2>7. QED
        BY <2>2, <2>4, <2>5, <2>6 DEF Turns
<1>9. QED
    BY <1>1, <1>4, <1>6, <1>7, <1>8, QuietStep

\* What the route's steps leave of the turns.
LEMMA TurnsBeside ==
    ASSUME PromotionInv, PromotionInv', Turns, UNCHANGED <<chat, turn>>,
           db.active <= db'.active, Settled', BaseBefore', OnceCached'
    PROVE  Turns'
<1>1. OneLive' /\ TurnHeld' /\ ApplyWrites'
    BY DEF Turns, OneLive, TurnHeld, ApplyWrites, Live, At, Mine, Writes
<1>2. VersionMade'
    <2>1. db.active \in Nat /\ db'.active \in Nat /\ turn.version \in Nat
        BY DEF PromotionInv, Types, Tables, Beside, State
    <2>2. \A r \in Runs : Mine(r).version \in Nat /\ Mine(r).base \in Nat
        BY TurnLemma
    <2>3. QED
        BY <2>1, <2>2 DEF Turns, VersionMade, At, Mine
<1>3. QED
    BY <1>1, <1>2 DEF Turns

LEMMA ApiMutateStep ==
    ASSUME LedgerInv, PromotionInv', NEW p, Replicas = {p}, NEW m \in ApiMessages, ApiMutate(p, m)
    PROVE  BooksInv' /\ TurnsInv'
<1>1. UNCHANGED <<db, cache, turn, chat, stalls>> /\ api[p].pc = "idle"
    BY DEF ApiMutate, bounds, LoopFree
<1>2. PICK pc \in {"record", "write"} :
          /\ api' = [api EXCEPT ![p] = [pc |-> pc, message |-> m, task |-> cache[p].version + 1]]
          /\ pc = "record" => overlapped' = overlapped
          /\ pc = "write" => Copy(p)
    BY DEF ApiMutate
<1>3. /\ api'[p].pc = pc /\ api'[p].message = m /\ api'[p].task = cache[p].version + 1
    BY <1>2 DEF LedgerInv, PromotionInv, Types, Beside
<1>4. Placed' /\ Named'
    BY <1>1, <1>3, PlacedStill DEF LedgerInv, BooksInv, Named
<1>5. SameVersions /\ SameRows /\ SameRecords /\ db.active <= db'.active
    BY <1>1 DEF SameVersions, SameRows, SameRecords, LedgerInv, PromotionInv, Types, Tables
<1>6. Turns => Turns'
    BY <1>1, <1>5, SettledLemma, RowsStayLemma, TurnsBeside DEF LedgerInv, Turns
<1>7. CASE pc = "record"
    <2>1. NoNewCopy
        BY <1>1, <1>3, <1>7 DEF NoNewCopy, Writing
    <2>2. Books => Books'
        BY <1>5, <2>1, BooksQuiet DEF LedgerInv, PromotionInv
    <2>3. QED
        BY <1>1, <1>2, <1>4, <1>6, <1>7, <2>2 DEF LedgerInv, BooksInv, TurnsInv
<1>8. CASE pc = "write"
    <2>1. ~overlapped' => ~overlapped /\ ~Overlaps(p)
        BY <1>2, <1>8 DEF Copy
    <2>2. Books /\ ~Overlaps(p) => Books'
        BY <1>1, <1>3, <1>8, BooksApiCopy DEF LedgerInv
    <2>3. QED
        BY <1>1, <1>4, <1>6, <2>1, <2>2 DEF LedgerInv, BooksInv, TurnsInv
<1>9. QED
    BY <1>2, <1>7, <1>8

LEMMA ApiWriteStep ==
    ASSUME LedgerInv, PromotionInv', NEW p, Replicas = {p}, ApiWrite(p)
    PROVE  BooksInv' /\ TurnsInv'
<1>1. /\ UNCHANGED <<db, turn, chat, overlapped, stalls>> /\ api[p].pc = "write"
      /\ api[p] \in Call /\ api[p].task \in Nat /\ api[p].message \in ApiMessages
      /\ api[p].message \in Sources /\ api[p].message \notin ChatMessages
    BY TaskAssumption DEF ApiWrite, bounds, LedgerInv, BooksInv, Named, PromotionInv, Types, Beside, Call, Sources, Messages
<1>2. api'[p].message = api[p].message
    <2>1. PICK c : c = [api[p] EXCEPT !.pc = "commit"]
        OBVIOUS
    <2>2. c.message = api[p].message
        BY <1>1, <2>1 DEF Call
    <2>3. QED
        BY <2>1, <2>2 DEF ApiWrite, LedgerInv, PromotionInv, Types, Beside
<1>3. Placed' /\ Named'
    BY <1>1, <1>2, PlacedStill DEF LedgerInv, BooksInv, Named
<1>4. Books => Books'
    BY BooksApiWrite DEF LedgerInv
<1>5. ASSUME Books, Turns PROVE Turns'
    <2>1. PutBack(p, api[p].task, api[p].message)
        BY <1>5, BooksApiWrite DEF LedgerInv
    <2>2. SameRecords /\ db.active <= db'.active
        BY <1>1, <2>1 DEF SameRecords, PutBack, LedgerInv, PromotionInv, Types, Tables
    <2>3. Settled'
        BY <1>5, <2>2, SettledLemma DEF LedgerInv, Turns
    <2>4. BaseBefore'
        BY <1>1, <1>5, <2>1, BaseLemma DEF LedgerInv, Books, Turns
    <2>5. OnceCached'
        BY <1>1, <1>5, <2>1, OnceLemma DEF LedgerInv, Books, Turns
    <2>6. QED
        BY <1>1, <1>5, <2>2, <2>3, <2>4, <2>5, TurnsBeside DEF LedgerInv
<1>6. QED
    BY <1>1, <1>3, <1>4, <1>5 DEF LedgerInv, BooksInv, TurnsInv

LEMMA ApiCommitStep ==
    ASSUME LedgerInv, PromotionInv', NEW p, Replicas = {p}, ApiCommit(p)
    PROVE  BooksInv' /\ TurnsInv'
<1>1. /\ UNCHANGED <<turn, chat, overlapped, stalls>> /\ api[p] \in Call
      /\ api[p].message \in ApiMessages
    BY DEF ApiCommit, bounds, LedgerInv, BooksInv, Named, PromotionInv, Types, Beside
<1>2. api'[p] = NoCall \/ api'[p].message = api[p].message
    <2>1. PICK c : c = [api[p] EXCEPT !.pc = "record"]
        OBVIOUS
    <2>2. c.message = api[p].message
        BY <1>1, <2>1 DEF Call
    <2>3. api' = [api EXCEPT ![p] = NoCall] \/ api' = [api EXCEPT ![p] = c]
        BY <2>1 DEF ApiCommit
    <2>4. QED
        BY <2>2, <2>3 DEF LedgerInv, PromotionInv, Types, Beside
<1>3. Placed' /\ Named'
    BY <1>1, <1>2, PlacedStill DEF LedgerInv, BooksInv, Named, NoCall
<1>4. Books => Books'
    BY BooksApiCommit DEF LedgerInv, BooksInv
<1>5. ASSUME Books, Turns PROVE Turns'
    <2>1. /\ Caught(p) /\ db.active <= db'.active
          /\ cache'[p].rows = cache[p].rows /\ cache'[p].saved = cache[p].saved
        BY <1>5, BooksApiCommit DEF LedgerInv, BooksInv
    <2>2. SameRows /\ SameRecords
        BY <2>1 DEF SameRows, SameRecords, Caught
    <2>3. Settled' /\ BaseBefore' /\ OnceCached'
        BY <1>1, <1>5, <2>1, <2>2, SettledLemma, RowsStayLemma DEF LedgerInv, Turns
    <2>4. QED
        BY <1>1, <1>5, <2>1, <2>3, TurnsBeside DEF LedgerInv
<1>6. QED
    BY <1>1, <1>3, <1>4, <1>5 DEF LedgerInv, BooksInv, TurnsInv

LEMMA ApiRecordStep ==
    ASSUME LedgerInv, PromotionInv', NEW p, Replicas = {p}, ApiRecord(p)
    PROVE  BooksInv' /\ TurnsInv'
<1>1. /\ UNCHANGED <<turn, chat, overlapped, stalls>> /\ api[p] \in Call /\ api[p].task \in Nat
      /\ api[p].message \in ApiMessages /\ api[p].message \in Sources
      /\ api[p].message \notin TurnMessages
    BY TaskAssumption DEF ApiRecord, bounds, LedgerInv, BooksInv, Named, PromotionInv, Types, Beside, Call,
       Sources, Messages, TurnMessages
<1>2. /\ db'.active = db.active /\ db'.rows = db.rows
      /\ cache'[p].version = cache[p].version /\ cache'[p].rows = cache[p].rows
      /\ cache'[p].requests = cache[p].requests
      /\ \A n \in Sources : n # api[p].message =>
             cache'[p].saved[n] = cache[p].saved[n] /\ db'.saved[n] = db.saved[n]
    BY <1>1, RecordLemma DEF ApiRecord, LedgerInv
<1>3. SameVersions /\ SameRows /\ db.active <= db'.active
    BY <1>2 DEF SameVersions, SameRows, LedgerInv, PromotionInv, Types, Tables
<1>4. api'[p] = NoCall /\ chat' = chat
    BY <1>1 DEF ApiRecord, LedgerInv, PromotionInv, Types, Beside
<1>5. Placed' /\ Named' /\ NoNewCopy
    BY <1>4, PlacedStill DEF LedgerInv, BooksInv, Named, NoCall, NoNewCopy, Writing
<1>6. Books => Books'
    BY <1>3, <1>5, BooksQuiet DEF LedgerInv, PromotionInv
<1>7. ASSUME Turns PROVE Turns'
    <2>1. Settled'
        <3>1. ASSUME NEW m \in TurnMessages PROVE db'.saved[m] <= db'.active /\ cache'[p].saved[m] <= db'.active
            <4>1. m \in Sources /\ m # api[p].message
                BY <1>1 DEF TurnMessages, Sources, Messages
            <4>2. QED
                BY <1>2, <1>7, <4>1 DEF Turns, Settled
        <3>2. QED
            BY <3>1 DEF Settled
    <2>2. BaseBefore' /\ OnceCached'
        BY <1>1, <1>3, <1>7, RowsStayLemma DEF Turns
    <2>3. QED
        BY <1>1, <1>3, <1>7, <2>1, <2>2, TurnsBeside DEF LedgerInv
<1>8. QED
    BY <1>1, <1>5, <1>6, <1>7 DEF LedgerInv, BooksInv, TurnsInv

\* An exception ends a run, or a call of the route.
LEMMA ErrorStep ==
    ASSUME LedgerInv, PromotionInv', NEW p, Replicas = {p}, Error
    PROVE  BooksInv' /\ TurnsInv'
<1>1. UNCHANGED <<db, cache, turn, overlapped, stalls>>
    BY DEF Error
<1>2. SameVersions /\ SameRows /\ SameRecords /\ db.active <= db'.active
    BY <1>1 DEF SameVersions, SameRows, SameRecords, LedgerInv, PromotionInv, Types, Tables
<1>3. ASSUME NEW r \in Runs, Live(r), Fail(r), UNCHANGED api PROVE BooksInv' /\ TurnsInv'
    <2>1. Moved(r) /\ chat'[r].pc = "idle"
        BY <1>3, FailEffect DEF LedgerInv
    <2>2. Placed'
        BY <2>1, PlacedLemma DEF LedgerInv, BooksInv
    <2>3. QED
        BY <1>1, <1>2, <1>3, <2>1, <2>2, WithinStep
<1>4. CASE api' = [api EXCEPT ![p] = NoCall] /\ UNCHANGED chat
    <2>1. api'[p] = NoCall
        BY <1>4 DEF LedgerInv, PromotionInv, Types, Beside
    <2>2. Placed' /\ Named' /\ NoNewCopy
        BY <1>4, <2>1, PlacedStill DEF LedgerInv, BooksInv, Named, NoCall, NoNewCopy, Writing
    <2>3. Books => Books'
        BY <1>2, <2>2, BooksQuiet DEF LedgerInv, PromotionInv
    <2>4. Turns => Turns'
        BY <1>1, <1>2, <1>4, SettledLemma, RowsStayLemma, TurnsBeside DEF LedgerInv, Turns
    <2>5. QED
        BY <1>1, <2>2, <2>3, <2>4 DEF LedgerInv, BooksInv, TurnsInv
<1>5. QED
    BY <1>3, <1>4 DEF Error

\* A process that starts goes on from the tables.
LEMMA RestartStep ==
    ASSUME LedgerInv, PromotionInv', NEW p, Replicas = {p}, Restart(p)
    PROVE  BooksInv' /\ TurnsInv'
<1>1. UNCHANGED <<db, turn, overlapped, stalls>>
    BY DEF Restart
<1>2. (\A q \in Runs : chat'[q].pc = "idle") /\ api'[p].pc = "idle"
    <2>1. chat' = [q \in Runs |-> IF Replica(q) = p THEN Idle ELSE chat[q]]
        BY DEF Restart
    <2>2. \A q \in Runs : Replica(q) # p => chat[q].pc = "idle"
        BY DEF LedgerInv, PromotionInv, LiveHasReplica, Live, At
    <2>3. api'[p].pc = "idle"
        BY DEF Restart, NoCall, LedgerInv, PromotionInv, Types, Beside
    <2>4. QED
        BY <2>1, <2>2, <2>3, IdleLemma
<1>3. Placed' /\ Named'
    BY <1>2 DEF Placed, Named, Nodes, Writing
<1>4. Books => Books'
    BY BooksRestart DEF LedgerInv
<1>5. ASSUME Books, Turns PROVE Turns'
    <2>1. cache'[p].rows = db.rows /\ cache'[p].saved = db.saved
        BY <1>5, BooksRestart DEF LedgerInv
    <2>2. OneLive' /\ TurnHeld' /\ ApplyWrites'
        BY <1>2 DEF OneLive, TurnHeld, ApplyWrites, Live, At, Writes, Writing
    <2>3. VersionMade'
        BY <1>1, <1>2, <1>5 DEF Turns, VersionMade, At
    <2>4. Settled'
        BY <1>1, <1>5, <2>1 DEF Turns, Settled
    <2>5. \A v \in DOMAIN db.rows : v \in DOMAIN cache[p].rows /\ cache[p].rows[v] = db.rows[v]
        <3>1. /\ cache[p].rows \in Seq(Row) /\ db.rows \in Seq(Row)
              /\ cache[p].version \in Nat /\ db.active \in Nat
            BY DEF LedgerInv, PromotionInv, Types, Cache, Tables
        <3>2. DOMAIN cache[p].rows = 1..cache[p].version /\ DOMAIN db.rows = 1..db.active
            BY <1>5, <3>1, LenProperties DEF Books, InStep
        <3>3. QED
            BY <1>5, <3>1, <3>2 DEF Books, InStep
    <2>6. BaseBefore'
        <3>1. \A v \in Nat : OfTurn(v)' => OfTurn(v)
            BY <1>1, <2>1, <2>5 DEF OfTurn
        <3>2. QED
            BY <1>1, <1>5, <3>1 DEF Turns, BaseBefore
    <2>7. OnceCached'
        BY <1>5, <2>1, <2>5 DEF Turns, OnceCached
    <2>8. QED
        BY <2>2, <2>3, <2>4, <2>6, <2>7 DEF Turns
<1>6. QED
    BY <1>1, <1>3, <1>4, <1>5 DEF LedgerInv, BooksInv, TurnsInv

-----------------------------------------------------------------------------

Promoted(w) == db.snapshots[w] \in {"CURRENT", "REUSABLE"}

\* What has been promoted is a version that was made: it is committed if no run was
\* overtaken alive, and in the cache if the process has not restarted.  The cached
\* current snapshot is one that was promoted: demoting it adds none.
PromotedMade ==
    /\ stalls = 0 => \A w \in Versions : Promoted(w) => w <= db.active
    /\ crashes = 0 => \A p \in Replicas, w \in Versions : Promoted(w) => w <= cache[p].version
CurrentPromoted == \A p \in Replicas, w \in Versions : cache[p].current = w => Promoted(w)

\* A promotion between its transactions is of a version no older; the route waits.
InsertsNewest ==
    \A r \in Runs, p \in Replicas : At(r, "insert") =>
        /\ api[p].pc = "idle"
        /\ stalls = 0 => Mine(r).version = db.active
        /\ crashes = 0 => Mine(r).version <= cache[p].version
        /\ crashes = 0 \/ stalls = 0 => \A w \in Versions : Promoted(w) => w <= Mine(r).version

Heads == PromotedMade /\ CurrentPromoted /\ InsertsNewest
HeadsInv == ~overlapped => Heads

\* A step that promotes nothing: versions only grow.
Grows(p) ==
    /\ db'.snapshots = db.snapshots
    /\ cache'[p].current = cache[p].current
    /\ db.active <= db'.active
    /\ cache[p].version <= cache'[p].version

LEMMA SameGrows ==
    ASSUME PromotionInv, NEW p \in Replicas, UNCHANGED <<db, cache>> PROVE Grows(p)
BY DEF Grows, PromotionInv, Types, Tables, Cache

\* The steps of a run that do not promote.
Ordinary(r) ==
    \/ Load(r) \/ Apply(r) \/ Write(r) \/ CommitVersion(r) \/ SaveMutation(r) \/ ApplyDone(r)
    \/ Work(r) \/ CommitStatus(r) \/ Check(r) \/ PromoteDone(r) \/ Respond(r)

LEMMA PutGrows ==
    ASSUME PromotionInv, NEW p \in Replicas, NEW task, NEW m, PutBack(p, task, m), UNCHANGED db
    PROVE  Grows(p)
<1>1. cache[p].version \in Nat /\ db.active \in Nat
    BY DEF PromotionInv, Types, Tables, Cache
<1>2. QED
    BY <1>1 DEF PutBack, Grows

LEMMA OrdinaryGrows ==
    ASSUME LedgerInv, Books, NEW p, Replicas = {p}, NEW r \in Runs, Ordinary(r)
    PROVE  Grows(p) /\ Live(r)
<1>1. Live(r)
    BY DEF Ordinary, Load, Apply, Write, CommitVersion, SaveMutation, ApplyDone, Work, CommitStatus, Check,
       PromoteDone, Respond, Live, At
<1>2. cache[p].version \in Nat /\ db.active \in Nat
    BY DEF LedgerInv, PromotionInv, Types, Tables, Cache
<1>3. CASE Load(r) \/ Apply(r) \/ ApplyDone(r) \/ Work(r) \/ Check(r) \/ PromoteDone(r) \/ Respond(r)
    <2>1. UNCHANGED <<db, cache>>
        BY <1>3 DEF Load, Apply, ApplyDone, Work, Check, PromoteDone, Respond, Pass, SetStatus
    <2>2. QED
        BY <1>1, <2>1, SameGrows DEF LedgerInv
<1>4. CASE Write(r)
    <2>1. PutBack(p, chat[r].task, Mine(r).message) /\ UNCHANGED db
        BY <1>4, BooksWrite DEF LedgerInv, Write
    <2>2. QED
        BY <1>1, <2>1, PutGrows DEF LedgerInv
<1>5. CASE CommitVersion(r) \/ CommitStatus(r)
    <2>1. /\ Caught(p) /\ db.active <= db'.active
          /\ cache'[p].version = cache[p].version /\ cache'[p].current = cache[p].current
        BY <1>5, BooksCommit DEF LedgerInv, BooksInv
    <2>2. QED
        BY <1>1, <1>2, <2>1 DEF Caught, Grows
<1>6. CASE SaveMutation(r)
    <2>1. Replica(r) = p /\ Mine(r).message \in Sources /\ Mine(r).base \in Nat
        BY <1>1, TurnLemma, RunLemma DEF LedgerInv
    <2>2. Record(p, Mine(r).message, Mine(r).base + 1) /\ Mine(r).base + 1 \in Nat
        BY <1>6, <2>1 DEF SaveMutation
    <2>3. Calm /\ db'.active = db.active /\ cache'[p].version = cache[p].version
        BY <2>1, <2>2, RecordLemma DEF LedgerInv
    <2>4. QED
        BY <1>1, <1>2, <2>3 DEF Calm, Grows
<1>7. QED
    BY <1>3, <1>4, <1>5, <1>6 DEF Ordinary

LEMMA ApiGrows ==
    ASSUME LedgerInv, Books, NEW p, Replicas = {p},
           (\E m \in ApiMessages : ApiMutate(p, m)) \/ ApiStep(p)
    PROVE  Grows(p)
<1>1. cache[p].version \in Nat /\ db.active \in Nat
    BY DEF LedgerInv, PromotionInv, Types, Tables, Cache
<1>2. CASE \E m \in ApiMessages : ApiMutate(p, m)
    <2>1. UNCHANGED <<db, cache>>
        BY <1>2 DEF ApiMutate
    <2>2. QED
        BY <2>1, SameGrows DEF LedgerInv
<1>3. CASE ApiWrite(p)
    <2>1. PutBack(p, api[p].task, api[p].message) /\ UNCHANGED db
        BY <1>3, BooksApiWrite DEF LedgerInv, ApiWrite
    <2>2. QED
        BY <2>1, PutGrows DEF LedgerInv
<1>4. CASE ApiCommit(p)
    <2>1. /\ Caught(p) /\ db.active <= db'.active
          /\ cache'[p].version = cache[p].version /\ cache'[p].current = cache[p].current
        BY <1>4, BooksApiCommit DEF LedgerInv, BooksInv
    <2>2. QED
        BY <1>1, <2>1 DEF Caught, Grows
<1>5. CASE ApiRecord(p)
    <2>1. api[p].message \in Sources /\ api[p].task \in Nat
        BY DEF LedgerInv, PromotionInv, Types, Beside, Call, Sources, Messages
    <2>2. Calm /\ db'.active = db.active /\ cache'[p].version = cache[p].version
        BY <1>5, <2>1, RecordLemma DEF LedgerInv, ApiRecord
    <2>3. QED
        BY <1>1, <2>2 DEF Calm, Grows
<1>6. QED
    BY <1>2, <1>3, <1>4, <1>5 DEF ApiStep

\* Where versions grow and no promotion is between its transactions, or versions
\* stay, what was promoted stays made.
LEMMA HeadsGrow ==
    ASSUME LedgerInv, Heads, NEW p, Replicas = {p}, Grows(p), crashes' = crashes,
           PromotionInv', stalls' = 0 => stalls = 0,
           \A q \in Runs : chat'[q].pc = "insert" =>
               /\ chat'[q] = chat[q] /\ api'[p].pc = "idle" 
               /\ stalls' = 0 => db'.active = db.active
    PROVE  Heads'
<1>1. /\ db.active \in Nat /\ db'.active \in Nat
      /\ cache[p].version \in Nat /\ cache'[p].version \in Nat
    BY DEF LedgerInv, PromotionInv, Types, Tables, Cache
<1>2. \A w \in Versions : Promoted(w)' = Promoted(w) /\ w \in Nat
    BY DEF Promoted, Grows, Versions
<1>3. PromotedMade' /\ CurrentPromoted'
    BY <1>1, <1>2 DEF Heads, PromotedMade, CurrentPromoted, Grows
<1>4. ASSUME NEW q \in Runs, chat'[q].pc = "insert"
      PROVE  /\ At(q, "insert") /\ Mine(q)' = Mine(q) /\ Mine(q).version \in Nat
             /\ api'[p].pc = "idle" /\ (stalls' = 0 => db'.active = db.active)
    <2>1. Mine(q).version \in Nat
        BY TurnLemma DEF LedgerInv
    <2>2. chat'[q] = chat[q] /\ api'[p].pc = "idle" /\ (stalls' = 0 => db'.active = db.active)
        BY <1>4
    <2>3. At(q, "insert") /\ Mine(q)' = Mine(q)
        BY <1>4, <2>2 DEF At, Mine
    <2>4. QED
        BY <2>1, <2>2, <2>3
<1>5. InsertsNewest'
    <2>1. ASSUME NEW q \in Runs, chat'[q].pc = "insert"
          PROVE  /\ api'[p].pc = "idle"
                 /\ stalls' = 0 => Mine(q)'.version = db'.active
                 /\ crashes' = 0 => Mine(q)'.version <= cache'[p].version
                 /\ crashes' = 0 \/ stalls' = 0 => \A w \in Versions : Promoted(w)' => w <= Mine(q)'.version
        BY <1>1, <1>2, <1>4, <2>1 DEF Heads, InsertsNewest, Grows
    <2>2. QED
        BY <2>1 DEF InsertsNewest, At
<1>6. QED
    BY <1>3, <1>5 DEF Heads

NothingPromoted == \A v \in Versions : ~Promotes(v)

LEMMA OrdinaryHeads ==
    ASSUME LedgerInv, PromotionInv', Heads, ~overlapped, NEW p, Replicas = {p}, NEW r \in Runs, Ordinary(r),
           Moved(r), chat'[r].pc # "insert"
    PROVE  Heads' /\ NothingPromoted
<1>1. Books /\ Grows(p) /\ Live(r)
    BY OrdinaryGrows DEF LedgerInv, BooksInv
<1>2. UNCHANGED <<crashes, stalls>>
    BY DEF Ordinary, Load, Apply, Write, CommitVersion, SaveMutation, ApplyDone, Work, CommitStatus, Check,
       PromoteDone, Respond, Pass, SetStatus, bounds
<1>3. ASSUME NEW q \in Runs, chat'[q].pc = "insert"
      PROVE  chat'[q] = chat[q] /\ q # r /\ At(q, "insert") /\ Live(q)
    BY <1>3 DEF Moved, At, Live
<1>4. api' = api \/ \A q \in Runs : chat'[q].pc # "insert"
    BY DEF Ordinary, Load, Apply, Write, CommitVersion, SaveMutation, ApplyDone, Work, CommitStatus, Check,
       PromoteDone, Respond, Pass, SetStatus, bounds
<1>5. \A q \in Runs : chat'[q].pc = "insert" =>
          /\ chat'[q] = chat[q] /\ api'[p].pc = "idle"
          /\ stalls' = 0 => db'.active = db.active
    <2>1. ASSUME NEW q \in Runs, chat'[q].pc = "insert" PROVE chat'[q] = chat[q] /\ api'[p].pc = "idle"
        BY <1>3, <1>4, <2>1 DEF Heads, InsertsNewest
    <2>2. ASSUME NEW q \in Runs, chat'[q].pc = "insert", stalls' = 0 PROVE FALSE
        BY <1>1, <1>2, <1>3, <2>2 DEF LedgerInv, TurnsInv, Turns, OneLive
    <2>3. QED
        BY <2>1, <2>2
<1>6. QED
    BY <1>1, <1>2, <1>5, HeadsGrow DEF NothingPromoted, Promotes, Grows

\* A refused result is stored, and nothing is promoted.
LEMMA RejectHeads ==
    ASSUME LedgerInv, PromotionInv', Heads, NEW p, Replicas = {p}, NEW r \in Runs, Reject(r)
    PROVE  Heads' /\ NothingPromoted
<1>1. /\ UNCHANGED <<cache, api, crashes, stalls>> /\ chat[r].pc = "checked" /\ db \in Tables
    BY DEF Reject, At, bounds, LedgerInv, PromotionInv, Types
<1>2. SameVersions /\ Moved(r)
    BY PromoteStep
<1>3. chat'[r].pc # "insert"
    <2>1. CASE Fail(r)
        BY <2>1, FailEffect DEF LedgerInv
    <2>2. CASE chat' = [chat EXCEPT ![r].pc = "promoted"]
        BY <2>2 DEF LedgerInv, PromotionInv, Types, Run
    <2>3. QED
        BY <2>1, <2>2 DEF Reject
<1>4. \A q \in Runs : chat'[q].pc = "insert" => chat'[q] = chat[q]
    BY <1>2, <1>3 DEF Moved
<1>5. \A v \in Versions : \/ db'.snapshots[v] = db.snapshots[v]
                          \/ db.snapshots[v] = "NONE" /\ db'.snapshots[v] = "SUPERSEDED"
    BY <1>1 DEF Reject, Tables
<1>6. \A v \in Versions : Promoted(v)' = Promoted(v)
    BY <1>5 DEF Promoted
<1>7. PromotedMade' /\ CurrentPromoted' /\ InsertsNewest'
    BY <1>1, <1>2, <1>4, <1>6 DEF Heads, PromotedMade, CurrentPromoted, InsertsNewest, SameVersions, At, Mine
<1>8. QED
    BY <1>5, <1>7 DEF Heads, NothingPromoted, Promotes

\* The first transaction: the run's version is the newest in the cache, so no older
\* than what has been promoted, and the active one if no run was overtaken alive.
LEMMA DemoteHeads ==
    ASSUME LedgerInv, PromotionInv', Heads, ~overlapped, NEW p, Replicas = {p}, NEW r \in Runs, Demote(r)
    PROVE  Heads' /\ NothingPromoted
<1>1. /\ UNCHANGED <<cache, api, crashes, stalls>> /\ Live(r) /\ Current(r) /\ LoopFree(Replica(r))
      /\ chat[r].pc = "checked"
    BY DEF Demote, Live, At, bounds
<1>2. /\ Replica(r) = p /\ Cached(r) = cache[p] /\ api[p].pc = "idle"
      /\ \A q \in Runs : ~At(q, "insert")
    <2>1. \A q \in Runs : At(q, "insert") => Replica(q) = p
        BY DEF LedgerInv, PromotionInv, LiveHasReplica, Live, At
    <2>2. QED
        BY <1>1, <2>1, RunLemma DEF LedgerInv, LoopFree
<1>3. db' = [db EXCEPT !.snapshots = [v \in Versions |->
                 IF v \in Previous(r) THEN "REUSABLE" ELSE db.snapshots[v]]]
    BY DEF Demote
<1>4. \A v \in Versions : \/ db'.snapshots[v] = db.snapshots[v]
                          \/ v = cache[p].current /\ db'.snapshots[v] = "REUSABLE"
    BY <1>2, <1>3 DEF LedgerInv, PromotionInv, Types, Tables, Previous
<1>5. \A v \in Versions : Promoted(v)' = Promoted(v)
    BY <1>4 DEF Heads, CurrentPromoted, Promoted
<1>6. SameVersions /\ Moved(r) /\ Mine(r)' = Mine(r)
    <2>1. chat'[r].turn = chat[r].turn
        BY PcEffect DEF Demote, LedgerInv
    <2>2. QED
        BY <2>1, PromoteStep DEF Mine
<1>7. PromotedMade' /\ CurrentPromoted'
    BY <1>1, <1>5, <1>6 DEF Heads, PromotedMade, CurrentPromoted, SameVersions
<1>8. Mine(r).version = cache[p].version /\ cache[p].version \in Nat /\ db.active \in Nat
    BY <1>1, <1>2 DEF Current, LedgerInv, PromotionInv, Types, Cache, Tables
<1>9. stalls = 0 => Mine(r).version = db.active
    <2>1. ASSUME stalls = 0 PROVE Mine(r).version <= db.active
        <3>1. Mine(r).next = "promote"
            BY <1>1 DEF LedgerInv, BooksInv, Placed
        <3>2. Turns
            BY <2>1 DEF LedgerInv, TurnsInv
        <3>3. Mine(r) = turn /\ turn.next = "promote"
            BY <1>1, <3>1, <3>2 DEF Turns, TurnHeld
        <3>4. QED
            BY <3>2, <3>3 DEF Turns, VersionMade
    <2>2. db.active <= cache[p].version
        BY DEF LedgerInv, BooksInv, Books, InStep
    <2>3. QED
        BY <1>8, <2>1, <2>2
<1>10. crashes = 0 \/ stalls = 0 => \A w \in Versions : Promoted(w) => w <= Mine(r).version
    BY <1>8, <1>9 DEF Heads, PromotedMade
<1>11. \A q \in Runs : At(q, "insert")' => q = r
    BY <1>2, <1>6 DEF Moved, At
<1>12. InsertsNewest'
    <2>1. Mine(r).version <= cache[p].version
        BY <1>8
    <2>2. /\ api'[p].pc = "idle"
          /\ stalls' = 0 => Mine(r)'.version = db'.active
          /\ crashes' = 0 => Mine(r)'.version <= cache'[p].version
          /\ crashes' = 0 \/ stalls' = 0 => \A w \in Versions : Promoted(w)' => w <= Mine(r)'.version
        BY <1>1, <1>2, <1>5, <1>6, <1>9, <1>10, <2>1 DEF SameVersions
    <2>3. QED
        BY <1>11, <2>2 DEF InsertsNewest
<1>13. NothingPromoted
    BY <1>4 DEF NothingPromoted, Promotes
<1>14. QED
    BY <1>7, <1>12, <1>13 DEF Heads

\* The second transaction promotes the run's version.
LEMMA InsertHeads ==
    ASSUME LedgerInv, PromotionInv', Heads, ~overlapped, NEW p, Replicas = {p}, NEW r \in Runs, Insert(r)
    PROVE  /\ Heads'
           /\ \A v \in Versions : Promotes(v) => v = Mine(r).version /\ ~Promoted(v)
<1>1. /\ UNCHANGED <<api, crashes, stalls>> /\ Live(r) /\ At(r, "insert") /\ Replica(r) = p
    <2>1. Live(r) /\ At(r, "insert") /\ UNCHANGED <<api, crashes, stalls>>
        BY DEF Insert, Live, At, bounds
    <2>2. QED
        BY <2>1, RunLemma DEF LedgerInv
<1>2. SameVersions /\ Moved(r)
    BY PromoteStep
<1>3. /\ \A q \in Runs : ~At(q, "insert")'
    <2>1. chat'[r].pc # "insert"
        <3>1. CASE Fail(r)
            BY <3>1, FailEffect DEF LedgerInv
        <3>2. CASE chat' = [chat EXCEPT ![r].pc = "promoted"]
            BY <3>2 DEF LedgerInv, PromotionInv, Types, Run
        <3>3. QED
            BY <3>1, <3>2 DEF Insert
    <2>2. \A q \in Runs : q # r => ~At(q, "insert")
        BY <1>1 DEF LedgerInv, PromotionInv, NoneWhileInserting
    <2>3. QED
        BY <1>2, <2>1, <2>2 DEF Moved, At
<1>4. InsertsNewest'
    BY <1>3 DEF InsertsNewest
<1>5. CASE db.snapshots[Mine(r).version] # "NONE"
    <2>1. UNCHANGED <<db, cache>>
        BY <1>5 DEF Insert
    <2>2. PromotedMade' /\ CurrentPromoted'
        BY <1>1, <2>1 DEF Heads, PromotedMade, CurrentPromoted, Promoted
    <2>3. QED
        BY <1>4, <2>1, <2>2 DEF Heads, Promotes
<1>6. CASE db.snapshots[Mine(r).version] = "NONE"
    <2>1. /\ db' = [db EXCEPT !.snapshots[Mine(r).version] = "CURRENT"]
          /\ cache' = [cache EXCEPT ![p].current = Mine(r).version]
        BY <1>1, <1>6 DEF Insert
    <2>2. /\ db \in Tables /\ cache \in [Replicas -> Cache] /\ cache[p] \in Cache
          /\ Mine(r).version \in Nat
        BY TurnLemma DEF LedgerInv, PromotionInv, Types
    <2>3. \A v \in Versions : \/ v # Mine(r).version /\ db'.snapshots[v] = db.snapshots[v]
                              \/ v = Mine(r).version /\ db'.snapshots[v] = "CURRENT"
        BY <2>1, <2>2 DEF Tables
    <2>4. cache'[p].current = Mine(r).version
        BY <2>1, <2>2 DEF Cache
    <2>5. \A v \in Versions : Promoted(v)' => Promoted(v) \/ v = Mine(r).version
        BY <2>3 DEF Promoted
    <2>6. /\ stalls = 0 => Mine(r).version = db.active
          /\ crashes = 0 => Mine(r).version <= cache[p].version
        BY <1>1 DEF Heads, InsertsNewest
    <2>7. db.active \in Nat
        BY <2>2 DEF Tables
    <2>8. PromotedMade'
        BY <1>1, <1>2, <2>5, <2>6, <2>7 DEF Heads, PromotedMade, SameVersions
    <2>9. CurrentPromoted'
        BY <2>3, <2>4 DEF CurrentPromoted, Promoted
    <2>10. QED
        BY <1>4, <1>6, <2>3, <2>8, <2>9 DEF Heads, Promotes, Promoted
<1>7. QED
    BY <1>5, <1>6

LEMMA StartHeads ==
    ASSUME LedgerInv, PromotionInv', Heads, NEW p, Replicas = {p}, NEW r \in Runs, NEW m \in Sources, Start(r, p, m)
    PROVE  Heads' /\ NothingPromoted
<1>1. /\ UNCHANGED <<db, cache, api, crashes>> /\ At(r, "idle")
      /\ stalls' = IF \E q \in Runs : Live(q) THEN stalls + 1 ELSE stalls
    BY DEF Start
<1>2. stalls' = 0 => stalls = 0
    BY <1>1 DEF LedgerInv, PromotionInv, Types, Beside
<1>3. Moved(r) /\ chat'[r].pc # "insert"
    <2>1. /\ turn'.next \in Nodes
          /\ chat' = [chat EXCEPT ![r] = [Idle EXCEPT !.pc = turn'.next, !.replica = p, !.turn = turn']]
        BY StartChat DEF LedgerInv
    <2>2. PICK x : x = [Idle EXCEPT !.pc = turn'.next, !.replica = p, !.turn = turn']
        OBVIOUS
    <2>3. x.pc = turn'.next
        BY <2>2 DEF Idle
    <2>4. chat' = [chat EXCEPT ![r] = x] /\ chat \in [Runs -> Run]
        BY <2>1, <2>2 DEF LedgerInv, PromotionInv, Types
    <2>5. QED
        BY <2>1, <2>3, <2>4 DEF Moved, Nodes
<1>4. \A q \in Runs : chat'[q].pc = "insert" =>
          /\ chat'[q] = chat[q] /\ api'[p].pc = "idle"
          /\ stalls' = 0 => db'.active = db.active
    BY <1>1, <1>3 DEF Moved, Heads, InsertsNewest, At
<1>5. Grows(p)
    BY <1>1, SameGrows DEF LedgerInv
<1>6. QED
    BY <1>1, <1>2, <1>4, <1>5, HeadsGrow DEF NothingPromoted, Promotes, Grows

LEMMA ApiHeads ==
    ASSUME LedgerInv, PromotionInv', Heads, ~overlapped, NEW p, Replicas = {p},
           (\E m \in ApiMessages : ApiMutate(p, m)) \/ ApiStep(p)
    PROVE  Heads' /\ NothingPromoted
<1>1. UNCHANGED <<chat, crashes, stalls>>
    BY DEF ApiMutate, ApiStep, ApiWrite, ApiCommit, ApiRecord, bounds
<1>2. Grows(p)
    BY ApiGrows DEF LedgerInv, BooksInv
<1>3. \A q \in Runs : ~At(q, "insert")
    <2>1. CASE \E m \in ApiMessages : ApiMutate(p, m)
        <3>1. \A q \in Runs : At(q, "insert") => Replica(q) = p
            BY DEF LedgerInv, PromotionInv, LiveHasReplica, Live, At
        <3>2. QED
            BY <2>1, <3>1 DEF ApiMutate, LoopFree
    <2>2. CASE ApiStep(p)
        BY <2>2 DEF ApiStep, ApiWrite, ApiCommit, ApiRecord, Heads, InsertsNewest
    <2>3. QED
        BY <2>1, <2>2
<1>4. \A q \in Runs : chat'[q].pc # "insert"
    BY <1>1, <1>3 DEF At
<1>5. QED
    BY <1>1, <1>2, <1>4, HeadsGrow DEF NothingPromoted, Promotes, Grows

LEMMA ErrorHeads ==
    ASSUME LedgerInv, PromotionInv', Heads, NEW p, Replicas = {p}, Error
    PROVE  Heads' /\ NothingPromoted
<1>1. UNCHANGED <<db, cache, crashes, stalls>>
    BY DEF Error
<1>2. Grows(p)
    BY <1>1, SameGrows DEF LedgerInv
<1>3. \A q \in Runs : chat'[q].pc = "insert" => chat'[q] = chat[q]
    <2>1. ASSUME NEW r \in Runs, Fail(r), NEW q \in Runs, chat'[q].pc = "insert" PROVE chat'[q] = chat[q]
        BY <2>1, FailEffect DEF LedgerInv, Moved
    <2>2. QED
        BY <2>1 DEF Error
<1>4. api'[p] = api[p] \/ api'[p].pc = "idle"
    BY DEF Error, NoCall, LedgerInv, PromotionInv, Types, Beside
<1>5. \A q \in Runs : chat'[q].pc = "insert" =>
          /\ chat'[q] = chat[q] /\ api'[p].pc = "idle"
          /\ stalls' = 0 => db'.active = db.active
    BY <1>1, <1>3, <1>4 DEF Heads, InsertsNewest, At
<1>6. QED
    BY <1>1, <1>2, <1>5, HeadsGrow DEF NothingPromoted, Promotes, Grows

LEMMA RestartHeads ==
    ASSUME LedgerInv, PromotionInv', Heads, ~overlapped, NEW p, Replicas = {p}, Restart(p)
    PROVE  Heads' /\ NothingPromoted
<1>1. /\ db' = db /\ \A q \in Runs : chat'[q].pc = "idle"
      /\ cache'[p].current \in {0} \cup CurrentVersions
    BY BooksRestart DEF LedgerInv, BooksInv
<1>2. crashes' # 0 /\ stalls' = stalls
    BY DEF Restart, LedgerInv, PromotionInv, Types, Beside
<1>3. PromotedMade'
    BY <1>1, <1>2 DEF Heads, PromotedMade, Promoted
<1>4. CurrentPromoted'
    BY <1>1 DEF CurrentPromoted, CurrentVersions, Promoted, Versions
<1>5. InsertsNewest'
    BY <1>1 DEF InsertsNewest, At
<1>6. QED
    BY <1>1, <1>3, <1>4, <1>5 DEF Heads, NothingPromoted, Promotes

-----------------------------------------------------------------------------

LEMMA LedgerInit == ASSUME NEW p, Replicas = {p} PROVE PromotionInit => LedgerInv /\ HeadsInv
<1> SUFFICES ASSUME PromotionInit PROVE LedgerInv /\ HeadsInv
    OBVIOUS
<1>1. /\ db.active = 1 /\ db.rows = FirstRows /\ db.saved = [m \in Sources |-> 0]
      /\ db.snapshots = [v \in Versions |-> "NONE"]
      /\ cache = [q \in Replicas |-> Hydrated(0)] /\ turn = Idle.turn
      /\ chat = [r \in Runs |-> Idle] /\ api = [q \in Replicas |-> NoCall]
    BY DEF PromotionInit
<1>2. /\ DOMAIN FirstRows = {1} /\ Len(FirstRows) = 1 /\ FirstRows[1].message = NoMessage
      /\ NoMessage \notin Messages /\ NoMessage \notin ChatMessages
    BY TaskAssumption DEF FirstRows, Messages
<1>3. /\ cache[p].version = 1 /\ cache[p].rows = FirstRows /\ cache[p].current = 0
      /\ cache[p].saved = [m \in Sources |-> 0] /\ cache[p].requests = Requested(FirstRows)
    BY <1>1 DEF Hydrated
<1>4. (\A r \in Runs : chat[r].pc = "idle") /\ api[p].pc = "idle"
    BY <1>1 DEF Idle, NoCall
<1>5. PromotionInv
    BY PromotionInitLemma
<1>6. Placed /\ Named
    BY <1>4 DEF Placed, Named, Nodes, Writing
<1>7. InStep
    <2>1. db.active = 1 /\ cache[p].version = 1 /\ db.rows = FirstRows /\ cache[p].rows = FirstRows
        BY <1>1, <1>3
    <2>2. Len(FirstRows) = 1
        BY <1>2
    <2>3. Len(db.rows) = 1 /\ Len(cache[p].rows) = 1
        BY <2>1, <2>2
    <2>4. \A v : cache[p].rows[v] = db.rows[v]
        BY <2>1
    <2>5. Len(db.rows) = db.active /\ Len(cache[p].rows) = cache[p].version
        BY <2>1, <2>3
    <2>6. db.active <= cache[p].version
        BY <2>1
    <2>7. QED
        BY <2>4, <2>5, <2>6, Zenon DEF InStep
<1>8. RequestsMade
    <2>1. ASSUME NEW m \in Sources PROVE Requested(FirstRows)[m] = 0
        BY <1>2 DEF Requested
    <2>2. QED
        BY <1>3, <2>1 DEF RequestsMade
<1>9. OneWriter /\ CopyInHand
    BY <1>4 DEF OneWriter, CopyInHand, Writes, ApiWrites, Writing
<1>10. OneLive /\ TurnHeld /\ ApplyWrites
    BY <1>4 DEF OneLive, TurnHeld, ApplyWrites, Live, At, Writes, Writing
<1>11. Settled
    <2>1. TurnMessages \subseteq Sources
        BY DEF TurnMessages, Sources, Messages
    <2>2. QED
        BY <1>1, <1>3, <2>1 DEF Settled
<1>12. turn.next = "end" /\ turn.message = NoMessage
    BY <1>1 DEF Idle
<1>13. VersionMade /\ BaseBefore /\ OnceCached
    BY <1>2, <1>3, <1>4, <1>12 DEF VersionMade, BaseBefore, OnceCached, At
<1>14. BooksInv /\ TurnsInv
    BY <1>6, <1>7, <1>8, <1>9, <1>10, <1>11, <1>13 DEF BooksInv, Books, TurnsInv, Turns
<1>15. Heads
    <2>1. \A w \in Versions : ~Promoted(w) /\ w # 0
        BY <1>1 DEF Promoted, Versions
    <2>2. QED
        BY <1>3, <1>4, <2>1 DEF Heads, PromotedMade, CurrentPromoted, InsertsNewest, At
<1>16. QED
    BY <1>5, <1>14, <1>15 DEF LedgerInv, HeadsInv

LEMMA StayLedger ==
    ASSUME LedgerInv, HeadsInv, UNCHANGED promotionVars PROVE BooksInv' /\ TurnsInv' /\ HeadsInv'
<1> USE DEF promotionVars
<1>1. BooksInv'
    BY DEF LedgerInv, BooksInv, Placed, Named, Books, InStep, RequestsMade, OneWriter, CopyInHand, InHand,
       Writes, ApiWrites, Mine, Replica
<1>2. TurnsInv'
    BY DEF LedgerInv, TurnsInv, Turns, OneLive, TurnHeld, Settled, VersionMade, BaseBefore, OfTurn, ApplyWrites,
       OnceCached, Live, At, Mine, Writes
<1>3. HeadsInv'
    BY DEF HeadsInv, Heads, PromotedMade, CurrentPromoted, InsertsNewest, Promoted, At, Mine
<1>4. QED
    BY <1>1, <1>2, <1>3

\* A step of a run: the books and the turn, and where it goes.
LEMMA RunStep ==
    ASSUME LedgerInv, PromotionInv', NEW p, Replicas = {p}, NEW r \in Runs, Step(r)
    PROVE  BooksInv' /\ TurnsInv'
<1>1. CASE ApplyDone(r) \/ Work(r) \/ PromoteDone(r) \/ Respond(r)
    <2>1. \/ SetStatus(r) /\ (At(r, "work") \/ At(r, "respond"))
          \/ \E next \in {"work", "promote", "respond", "end"} :
                Pass(r, next) /\ chat[r].pc \in {"applied", "work", "promoted", "respond"}
        BY <1>1 DEF ApplyDone, Work, PromoteDone, Respond, At
    <2>2. QED
        BY <2>1, SetStatusStep, PassesStep
<1>2. CASE Load(r) \/ Apply(r) \/ Write(r) \/ Check(r)
    BY <1>2, LoadStep, ApplyStep, WriteStep, ChecksStep
<1>3. CASE CommitVersion(r) \/ SaveMutation(r) \/ CommitStatus(r)
    BY <1>3, CommitVersionStep, SaveMutationStep, CommitStatusStep
<1>4. CASE Reject(r) \/ Demote(r) \/ Insert(r)
    BY <1>4, PromoteStep
<1>5. QED
    BY <1>1, <1>2, <1>3, <1>4 DEF Step

\* An ordinary step brings no run between the transactions of a promotion.
LEMMA OrdinaryMoves ==
    ASSUME PromotionInv, NEW r \in Runs, Ordinary(r)
    PROVE  Moved(r) /\ chat'[r].pc # "insert"
<1>1. chat \in [Runs -> Run] /\ chat[r] \in Run
    BY DEF PromotionInv, Types
<1>2. ASSUME NEW t \in State, Checkpoint(r, t) PROVE Moved(r) /\ chat'[r].pc # "insert"
    BY <1>2, CheckpointEffect DEF Nodes
<1>3. ASSUME Fail(r) PROVE Moved(r) /\ chat'[r].pc # "insert"
    BY <1>3, FailEffect
<1>4. CASE Load(r)
    <2>1. Cached(r).version \in Nat
        BY <1>4, ProcessLemma DEF Load, Live, At
    <2>2. QED
        BY <1>2, <1>4, <2>1, TurnLemma DEF Load
<1>5. CASE ApplyDone(r) \/ Work(r) \/ PromoteDone(r) \/ Respond(r)
    <2>1. SetStatus(r) \/ \E next \in Nodes \cup {"end"} : Pass(r, next)
        BY <1>5 DEF ApplyDone, Work, PromoteDone, Respond, Nodes
    <2>2. CASE SetStatus(r)
        BY <1>1, <2>2 DEF SetStatus, Moved, Run
    <2>3. ASSUME NEW next \in Nodes \cup {"end"}, Pass(r, next) PROVE Moved(r) /\ chat'[r].pc # "insert"
        BY <1>2, <2>3, TurnLemma DEF Pass
    <2>4. QED
        BY <2>1, <2>2, <2>3
<1>6. CASE Apply(r)
    <2>1. \/ Fail(r)
          \/ chat'[r].pc \in {"applied", "save", "write"} /\ Moved(r)
        BY <1>1, <1>6 DEF Apply, Run, Moved
    <2>2. QED
        BY <1>3, <2>1
<1>7. CASE Write(r) \/ Check(r)
    BY <1>1, <1>7 DEF Write, Check, Run, Moved
<1>8. CASE SaveMutation(r)
    <2>1. Fail(r) \/ chat' = [chat EXCEPT ![r].pc = "applied"]
        BY <1>8 DEF SaveMutation
    <2>2. QED
        BY <1>1, <1>3, <2>1 DEF Run, Moved
<1>9. CASE CommitVersion(r)
    <2>1. Fail(r) \/ \E pc \in {"save", "applied"} : Made(r, chat[r].task, pc)
        BY <1>9 DEF CommitVersion, Made
    <2>2. chat[r].task \in Nat
        BY <1>1 DEF Run
    <2>3. QED
        BY <1>3, <2>1, <2>2, MadeEffect
<1>10. CASE CommitStatus(r)
    <2>1. Fail(r) \/ \E next \in Nodes \cup {"end"} : Checkpoint(r, [Mine(r) EXCEPT !.next = next])
        <3>1. Fail(r) \/ Checkpoint(r, [Mine(r) EXCEPT !.next = IF Mine(r).next = "work" THEN "promote" ELSE "end"])
            BY <1>10, TurnLemma DEF CommitStatus, State
        <3>2. (IF Mine(r).next = "work" THEN "promote" ELSE "end") \in Nodes \cup {"end"}
            BY DEF Nodes
        <3>3. QED
            BY <3>1, <3>2
    <2>2. QED
        BY <1>2, <1>3, <2>1, TurnLemma
<1>11. QED
    BY <1>4, <1>5, <1>6, <1>7, <1>8, <1>9, <1>10 DEF Ordinary

\* What the promotion of a version shows, where no two copies were written at once.
Newest ==
    \A v \in Versions : Promotes(v) =>
        /\ stalls = 0 => v = db.active
        /\ crashes = 0 \/ stalls = 0 => \A w \in Versions : Promoted(w) => w < v

LEMMA LedgerStep ==
    ASSUME NEW p, Replicas = {p}, LedgerInv, HeadsInv, PromotionInv', [PromotionNext]_promotionVars
    PROVE  BooksInv' /\ TurnsInv' /\ HeadsInv' /\ (~overlapped => Newest)
<1>1. ASSUME NEW r \in Runs, NEW m \in Sources, Start(r, p, m)
      PROVE  BooksInv' /\ TurnsInv' /\ HeadsInv' /\ (~overlapped => Newest)
    <2>1. overlapped' = overlapped
        BY <1>1 DEF Start
    <2>2. QED
        BY <1>1, <2>1, StartStep, StartHeads DEF HeadsInv, NothingPromoted, Newest
<1>2. ASSUME NEW r \in Runs, Step(r)
      PROVE  BooksInv' /\ TurnsInv' /\ HeadsInv' /\ (~overlapped => Newest)
    <2>1. BooksInv' /\ TurnsInv'
        BY <1>2, RunStep
    <2>2. ASSUME ~overlapped PROVE Heads' /\ Newest
        <3>1. Heads
            BY <2>2 DEF HeadsInv
        <3>2. CASE Reject(r) \/ Demote(r)
            BY <2>2, <3>1, <3>2, RejectHeads, DemoteHeads DEF NothingPromoted, Newest
        <3>3. CASE Insert(r)
            <4>1. Heads' /\ \A v \in Versions : Promotes(v) => v = Mine(r).version /\ ~Promoted(v)
                BY <2>2, <3>1, <3>3, InsertHeads
            <4>2. /\ stalls = 0 => Mine(r).version = db.active
                  /\ crashes = 0 \/ stalls = 0 => \A w \in Versions : Promoted(w) => w <= Mine(r).version
                BY <3>1, <3>3 DEF Heads, InsertsNewest, Insert
            <4>3. Newest
                BY <4>1, <4>2 DEF Newest, Versions
            <4>4. QED
                BY <4>1, <4>3
        <3>4. CASE Ordinary(r)
            <4>1. Moved(r) /\ chat'[r].pc # "insert"
                BY <3>4, OrdinaryMoves DEF LedgerInv
            <4>2. QED
                BY <2>2, <3>1, <3>4, <4>1, OrdinaryHeads DEF NothingPromoted, Newest
        <3>5. QED
            BY <1>2, <3>2, <3>3, <3>4 DEF Step, Ordinary
    <2>3. ~overlapped' => ~overlapped
        <3>1. overlapped' = overlapped \/ overlapped' = (overlapped \/ Overlaps(Replica(r)))
            BY <1>2 DEF Step, Load, Apply, Write, CommitVersion, SaveMutation, ApplyDone, Work, CommitStatus,
               Check, Reject, Demote, Insert, PromoteDone, Respond, Pass, SetStatus, Copy
        <3>2. QED
            BY <3>1
    <2>4. QED
        BY <2>1, <2>2, <2>3 DEF HeadsInv
<1>3. ASSUME (\E m \in ApiMessages : ApiMutate(p, m)) \/ ApiStep(p)
      PROVE  BooksInv' /\ TurnsInv' /\ HeadsInv' /\ (~overlapped => Newest)
    <2>1. BooksInv' /\ TurnsInv'
        BY <1>3, ApiMutateStep, ApiWriteStep, ApiCommitStep, ApiRecordStep DEF ApiStep
    <2>2. ASSUME ~overlapped PROVE Heads' /\ NothingPromoted
        BY <1>3, <2>2, ApiHeads DEF HeadsInv
    <2>3. ~overlapped' => ~overlapped
        <3>1. overlapped' = overlapped \/ overlapped' = (overlapped \/ Overlaps(p))
            BY <1>3 DEF ApiMutate, ApiStep, ApiWrite, ApiCommit, ApiRecord, Copy
        <3>2. QED
            BY <3>1
    <2>4. QED
        BY <2>1, <2>2, <2>3 DEF HeadsInv, NothingPromoted, Newest
<1>4. ASSUME Error \/ Restart(p)
      PROVE  BooksInv' /\ TurnsInv' /\ HeadsInv' /\ (~overlapped => Newest)
    <2>1. BooksInv' /\ TurnsInv'
        BY <1>4, ErrorStep, RestartStep
    <2>2. ASSUME ~overlapped PROVE Heads' /\ NothingPromoted
        BY <1>4, <2>2, ErrorHeads, RestartHeads DEF HeadsInv
    <2>3. overlapped' = overlapped
        BY <1>4 DEF Error, Restart
    <2>4. QED
        BY <2>1, <2>2, <2>3 DEF HeadsInv, NothingPromoted, Newest
<1>5. ASSUME UNCHANGED promotionVars
      PROVE  BooksInv' /\ TurnsInv' /\ HeadsInv' /\ (~overlapped => Newest)
    BY <1>5, StayLedger DEF Newest, Promotes, promotionVars
<1>6. QED
    BY <1>1, <1>2, <1>3, <1>4, <1>5 DEF PromotionNext

-----------------------------------------------------------------------------

\* With one process, the books hold until two copies of the task are written at
\* once, the turn's part of them until a run is overtaken alive.
THEOREM LedgerInvariance ==
    ASSUME NEW p, Replicas = {p} PROVE PromotionSpec => [](LedgerInv /\ HeadsInv)
<1>1. PromotionInit => LedgerInv /\ HeadsInv
    BY LedgerInit
<1>2. LedgerInv /\ HeadsInv /\ PromotionInv' /\ [PromotionNext]_promotionVars => (LedgerInv /\ HeadsInv)'
    BY LedgerStep DEF LedgerInv
<1>3. PromotionSpec => []PromotionInv
    BY PromotionInvariance
<1>4. QED
    BY <1>1, <1>2, <1>3, PTL DEF PromotionSpec

\* README.md:145, agent/subgraphs/reexecution.py: as long as no run is overtaken
\* alive and no two copies of the task are written at once, a promotion is of the
\* active version.
THEOREM ActiveVersionPromoted ==
    ASSUME NEW p, Replicas = {p} PROVE PromotionSpec => OnlyActiveVersionPromoted
<1>1. ASSUME LedgerInv, HeadsInv, PromotionInv', [PromotionNext]_promotionVars
      PROVE  [\A v \in Versions : stalls = 0 /\ ~overlapped /\ Promotes(v) => v = db.active]_promotionVars
    BY <1>1, LedgerStep DEF Newest
<1>2. QED
    BY <1>1, LedgerInvariance, PromotionInvariance, PTL DEF PromotionSpec, OnlyActiveVersionPromoted

\* The head only moves forward, unless two copies of the task were written at once,
\* or the process restarted and a run was overtaken.
THEOREM HeadsAdvance == ASSUME NEW p, Replicas = {p} PROVE PromotionSpec => HeadAdvances
<1>1. ASSUME LedgerInv, HeadsInv, PromotionInv', [PromotionNext]_promotionVars
      PROVE  [\A v, w \in Versions :
                  /\ ~overlapped /\ (crashes = 0 \/ stalls = 0)
                  /\ Promotes(v) /\ db.snapshots[w] \in {"CURRENT", "REUSABLE"}
                  => w < v]_promotionVars
    BY <1>1, LedgerStep DEF Newest, Promoted
<1>2. QED
    BY <1>1, LedgerInvariance, PromotionInvariance, PTL DEF PromotionSpec, HeadAdvances

\* agent/subgraphs/mutation/nodes.py: whatever step of it a crash or a retry
\* repeats, the message of a chat request makes one version of the task, as long as
\* no run is overtaken alive and no two copies are written at once.
THEOREM OneVersionPerMessage ==
    ASSUME NEW p, Replicas = {p}
    PROVE  PromotionSpec => [](stalls = 0 /\ ~overlapped => AppliedOnce(ChatMessages))
<1>1. LedgerInv => (stalls = 0 /\ ~overlapped => AppliedOnce(ChatMessages))
    <2> SUFFICES ASSUME LedgerInv, stalls = 0, ~overlapped PROVE AppliedOnce(ChatMessages)
        OBVIOUS
    <2>1. OnceCached /\ InStep
        BY DEF LedgerInv, TurnsInv, Turns, BooksInv, Books
    <2>2. /\ cache[p].rows \in Seq(Row) /\ db.rows \in Seq(Row)
          /\ cache[p].version \in Nat /\ db.active \in Nat
        BY DEF LedgerInv, PromotionInv, Types, Cache, Tables
    <2>3. DOMAIN cache[p].rows = 1..cache[p].version /\ DOMAIN db.rows = 1..db.active
        BY <2>1, <2>2, LenProperties DEF InStep
    <2>4. \A v \in DOMAIN db.rows : v \in DOMAIN cache[p].rows /\ cache[p].rows[v] = db.rows[v]
        BY <2>1, <2>2, <2>3 DEF InStep
    <2>5. QED
        BY <2>1, <2>4 DEF AppliedOnce, OnceCached
<1>2. QED
    BY <1>1, LedgerInvariance, PTL
=============================================================================
