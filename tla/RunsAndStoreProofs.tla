------------------------- MODULE RunsAndStoreProofs -------------------------
(***************************************************************************)
(* What holds of the handlers of one conversation for every set of         *)
(* requests and every bound: who is allowed to promote, that a stored      *)
(* response stays, and, as long as heartbeats keep up, that one handler    *)
(* drives the graph and no unfinished turn is written over.                *)
(*                                                                         *)
(* The inductive invariant is IInv.  Its heart is OwnerIsNewest, that the  *)
(* owner of the thread holds the last grant, and LiveOwns, that without a  *)
(* stall every live handler is the owner's and its lease has not lapsed:   *)
(* then two live handlers would both hold the last grant.                  *)
(*                                                                         *)
(* The second part is about the token bucket that a request passes before  *)
(* its handler starts, for every capacity, refill, number of callers and   *)
(* clock.  Its invariant, BucketInv, says what the bucket would have held  *)
(* when the counting began (Level), and what it holds when a refused       *)
(* caller may come again (Promise).                                        *)
(*                                                                         *)
(* The third part is about the repositories a handler's graph saves to,    *)
(* for every subject, version and value and any number of saves, faults    *)
(* and starts.  Its invariant, StoreInv, has the dictionary and the table  *)
(* agree on each key whose last save returned (Agreed), the resolved       *)
(* fields hold the newest row of each field (Newest), and what is read     *)
(* back in an order stand in that order (Ordered).  A start reads the rows *)
(* one by one: what it has after each is shown of the least number of rows *)
(* for which it would not hold (ReadLemma).                                *)
(***************************************************************************)
EXTENDS ChatRun, TokenBucket, WriteThrough, FiniteSetTheorems, SequenceTheorems,
        WellFoundedInduction, TLAPS

Live(f) == InGraph(f) \/ At(f, "respond")

\* The variables the proofs need keep their types.
Types ==
    /\ issued \in Nat
    /\ token \in [Requests -> Nat]
    /\ owners \in [Threads -> SUBSET Requests]
    /\ answered \subseteq Requests
    /\ lapsed \in BOOLEAN
    /\ handlers \in [Fences -> Handler]
    /\ faults \in [Kinds -> Nat]
    /\ checkpoint \in [turn : Turns, next : {"work", "promote", "end"},
                       interrupt : BOOLEAN]

\* A handler exists from its grant on, and a live one has a request.
GrantedOnly ==
    /\ \A f \in Fences : f > issued => handlers[f] = Idle
    /\ \A f \in Fences : Live(f) => Request(f) \in Requests

\* Who owns the thread holds the last grant and has no answer.
OwnerIsNewest ==
    \A r \in owners[Thread] : token[r] = issued /\ r \notin answered

\* Without a stall a live handler's request owns the thread, under its grant.
LiveOwns ==
    HeartbeatsKeepUp => \A f \in Fences : Live(f) => OwnsThread(f) /\ ~lapsed

\* What a handler has read of the checkpoint is still so when it acts on it.
ReadIsFresh ==
    HeartbeatsKeepUp => \A f \in Fences :
        /\ At(f, "invoke") /\ handlers[f].mode = "new" => checkpoint.next = "end"
        /\ At(f, "work") => handlers[f].turn = checkpoint.turn

IInv == Types /\ GrantedOnly /\ OwnerIsNewest /\ LiveOwns /\ ReadIsFresh

-----------------------------------------------------------------------------

\* Two live handlers hold the same grant: they are one.
LEMMA OneLiveHandler ==
    ASSUME IInv, HeartbeatsKeepUp, NEW f \in Fences, NEW g \in Fences, Live(f), Live(g)
    PROVE  f = g
<1>1. OwnsThread(f) /\ OwnsThread(g)
    BY DEF IInv, LiveOwns
<1>2. QED
    BY <1>1 DEF IInv, OwnerIsNewest, OwnsThread

LEMMA InitLemma == ChatInit => IInv
<1> SUFFICES ASSUME ChatInit PROVE IInv
    OBVIOUS
<1>1. Idle \in Handler
    BY ChatAssumption DEF Idle, Handler, GraphPcs, Turns
<1>2. \A f \in Fences : handlers[f] = Idle
    BY DEF ChatInit
<1>3. Types
    BY <1>1, ChatAssumption DEF ChatInit, LeaseInit, Types, Kinds, Turns
<1>4. \A f \in Fences : ~Live(f) /\ ~At(f, "invoke") /\ ~At(f, "work")
    BY <1>2 DEF Live, InGraph, At, Idle, GraphPcs
<1>5. owners[Thread] = {}
    BY ChatAssumption DEF ChatInit, LeaseInit
<1>6. QED
    BY <1>2, <1>3, <1>4, <1>5 DEF IInv, GrantedOnly, OwnerIsNewest, LiveOwns, ReadIsFresh

-----------------------------------------------------------------------------
(* The steps. *)

\* A step of a live handler that leaves the lease alone: it reads, runs a node
\* or dies.  Without a stall no other handler is live, so that nobody else has
\* read the checkpoint it writes.
LEMMA OwnStep ==
    ASSUME IInv, NEW f \in Fences, Live(f), NEW h \in Handler,
           h.request = Request(f),
           handlers' = [handlers EXCEPT ![f] = h],
           UNCHANGED <<leaseFree, lapsed>>,
           faults' \in [Kinds -> Nat], faults'["stall"] = faults["stall"],
           checkpoint' \in [turn : Turns, next : {"work", "promote", "end"},
                            interrupt : BOOLEAN],
           HeartbeatsKeepUp /\ h.pc = "invoke" /\ h.mode = "new" => checkpoint'.next = "end",
           h.pc = "work" => h.turn = checkpoint'.turn
    PROVE  IInv'
<1>1. /\ handlers' \in [Fences -> Handler] /\ handlers'[f] = h
      /\ \A g \in Fences : g # f => handlers'[g] = handlers[g]
    BY DEF IInv, Types
<1>2. /\ issued' = issued /\ token' = token /\ owners' = owners
      /\ answered' = answered /\ lapsed' = lapsed /\ HeartbeatsKeepUp' = HeartbeatsKeepUp
    BY DEF leaseFree, HeartbeatsKeepUp
<1>3. Types'
    BY <1>1, <1>2 DEF IInv, Types
<1>4. Request(f) \in Requests /\ ~(f > issued)
  <2>1. handlers[f] # Idle
    BY DEF Live, InGraph, At, Idle, GraphPcs
  <2>2. QED
    BY <2>1 DEF IInv, GrantedOnly
<1>5. \A g \in Fences : Request(g)' = Request(g) /\ (g # f => Live(g)' = Live(g))
    BY <1>1 DEF Request, Live, InGraph, At
<1>6. GrantedOnly'
    BY <1>1, <1>2, <1>4, <1>5 DEF IInv, GrantedOnly
<1>7. OwnerIsNewest'
    BY <1>2 DEF IInv, OwnerIsNewest
<1>8. \A g \in Fences : OwnsThread(g)' = OwnsThread(g)
    BY <1>2, <1>5 DEF OwnsThread
<1>9. LiveOwns'
    BY <1>2, <1>5, <1>8 DEF IInv, LiveOwns
<1>10. ReadIsFresh'
  <2>1. SUFFICES ASSUME HeartbeatsKeepUp, NEW g \in Fences
                 PROVE  /\ At(g, "invoke")' /\ handlers'[g].mode = "new" => checkpoint'.next = "end"
                        /\ At(g, "work")' => handlers'[g].turn = checkpoint'.turn
    BY <1>2 DEF ReadIsFresh
  <2>2. CASE g = f
    BY <1>1, <2>1, <2>2 DEF At
  <2>3. CASE g # f
    <3>1. ~Live(g)
      BY OneLiveHandler, <2>1, <2>3
    <3>2. ~At(g, "invoke")' /\ ~At(g, "work")'
      BY <1>1, <2>3, <3>1 DEF Live, InGraph, At, GraphPcs
    <3>3. QED
      BY <3>2
  <2>4. QED
    BY <2>2, <2>3
<1>11. QED
    BY <1>3, <1>6, <1>7, <1>9, <1>10 DEF IInv

\* The end of a handler: finish, with or without an answer, or nothing when its
\* fence was replaced.
LEMMA EndStep ==
    ASSUME IInv, NEW f \in Fences, Live(f),
           handlers' = [handlers EXCEPT ![f] = [Idle EXCEPT !.pc = "done"]],
           IF token[Request(f)] = f THEN End(Request(f)) ELSE UNCHANGED leaseFree,
           UNCHANGED <<lapsed, checkpoint>>,
           faults' \in [Kinds -> Nat], faults'["stall"] = faults["stall"]
    PROVE  IInv'
<1>1. [Idle EXCEPT !.pc = "done"] \in Handler
    BY DEF Idle, Handler, Turns
<1>2. /\ handlers' \in [Fences -> Handler] /\ handlers'[f] = [Idle EXCEPT !.pc = "done"]
      /\ \A g \in Fences : g # f => handlers'[g] = handlers[g]
    BY <1>1 DEF IInv, Types
<1>3. /\ issued' = issued /\ token' = token /\ HeartbeatsKeepUp' = HeartbeatsKeepUp
      /\ owners' \in [Threads -> SUBSET Requests] /\ answered' \subseteq Requests
      /\ owners'[Thread] \subseteq owners[Thread]
      /\ \A r \in owners'[Thread] : r \notin answered'
  <2>1. Request(f) \in Requests /\ Thread \in Threads
    BY ChatAssumption DEF IInv, GrantedOnly
  <2>2. CASE token[Request(f)] = f
    BY <2>1, <2>2 DEF End, IInv, Types, OwnerIsNewest, HeartbeatsKeepUp
  <2>3. CASE token[Request(f)] # f
    BY <2>3 DEF leaseFree, IInv, Types, OwnerIsNewest, HeartbeatsKeepUp
  <2>4. QED
    BY <2>2, <2>3
<1>4. Types'
    BY <1>2, <1>3 DEF IInv, Types
<1>5. ~Live(f)' /\ \A g \in Fences : g # f => Live(g)' = Live(g) /\ Request(g)' = Request(g)
    BY <1>2 DEF Live, InGraph, At, GraphPcs, Request, Idle
<1>6. GrantedOnly'
  <2>1. handlers[f] # Idle
    BY DEF Live, InGraph, At, Idle, GraphPcs
  <2>2. QED
    BY <1>2, <1>3, <1>5, <2>1 DEF IInv, GrantedOnly
<1>7. OwnerIsNewest'
    BY <1>3 DEF IInv, OwnerIsNewest
<1>8. HeartbeatsKeepUp => \A g \in Fences : ~Live(g)'
    BY <1>5, OneLiveHandler
<1>9. LiveOwns' /\ ReadIsFresh'
    BY <1>3, <1>8 DEF LiveOwns, ReadIsFresh, Live, InGraph, At, GraphPcs
<1>10. QED
    BY <1>4, <1>6, <1>7, <1>9 DEF IInv

LEMMA ClaimLemma == ASSUME IInv, NEW r \in Requests, Claim(r) PROVE IInv'
<1> DEFINE h == [Idle EXCEPT !.request = r, !.pc = "read"]
<1>0. issued \in Nat /\ issued + 1 \in Fences
    BY ChatAssumption DEF IInv, Types, Claim, Fences
<1> PICK f \in Fences : f = issued + 1
    BY <1>0
<1>1. /\ issued \in Nat /\ f = issued + 1 /\ Fences \subseteq Nat
      /\ Thread \in Threads /\ HeartbeatsKeepUp' = HeartbeatsKeepUp
    BY <1>0, ChatAssumption DEF Claim, Fences, HeartbeatsKeepUp
<1>2. h \in Handler
    BY DEF Idle, Handler, GraphPcs, Turns
<1>3. /\ handlers' \in [Fences -> Handler] /\ handlers'[f] = h
      /\ \A g \in Fences : g # f => handlers'[g] = handlers[g]
    BY <1>1, <1>2 DEF IInv, Types, Claim
<1>4. /\ issued' = f /\ token' = [token EXCEPT ![r] = f]
      /\ owners' = [owners EXCEPT ![Thread] = {r}]
      /\ answered' = answered /\ r \notin answered /\ lapsed' = FALSE
      /\ checkpoint' = checkpoint /\ faults' = faults
    BY <1>1 DEF Claim, Grant
<1> HIDE DEF h
<1>5. Types'
    BY <1>1, <1>3, <1>4 DEF IInv, Types
<1>6. \A g \in Fences : g # f => Live(g)' = Live(g) /\ Request(g)' = Request(g)
    BY <1>3 DEF Live, InGraph, At, Request
<1>7. Request(f)' = r /\ ~At(f, "invoke")' /\ ~At(f, "work")'
    BY <1>3 DEF Request, At, h, Idle
<1>8. GrantedOnly'
  <2>1. \A g \in Fences : g > f => g > issued /\ g # f
    BY <1>1
  <2>2. QED
    BY <1>3, <1>4, <1>6, <1>7, <2>1 DEF IInv, GrantedOnly
<1>9. owners'[Thread] = {r} /\ token'[r] = f
    BY <1>1, <1>4 DEF IInv, Types
<1>10. OwnerIsNewest'
    BY <1>4, <1>9 DEF OwnerIsNewest
<1>11. HeartbeatsKeepUp => \A g \in Fences : ~Live(g)
    BY DEF IInv, LiveOwns, OwnsThread, Claim, Claimable
<1>12. OwnsThread(f)'
    BY <1>7, <1>9 DEF OwnsThread
<1>13. LiveOwns'
  <2>1. SUFFICES ASSUME HeartbeatsKeepUp, NEW g \in Fences, Live(g)'
                 PROVE  OwnsThread(g)' /\ ~lapsed'
    BY <1>1 DEF LiveOwns
  <2>2. g = f
    BY <1>6, <1>11, <2>1
  <2>3. QED
    BY <1>4, <1>12, <2>2
<1>14. ReadIsFresh'
  <2>1. ASSUME HeartbeatsKeepUp, NEW g \in Fences
        PROVE  ~At(g, "invoke")' /\ ~At(g, "work")'
    <3>1. CASE g = f
      BY <1>7, <3>1
    <3>2. CASE g # f
      BY <1>3, <1>11, <2>1, <3>2 DEF Live, InGraph, At, GraphPcs
    <3>3. QED
      BY <3>1, <3>2
  <2>2. QED
    BY <1>1, <2>1 DEF ReadIsFresh
<1>15. QED
    BY <1>5, <1>8, <1>10, <1>13, <1>14 DEF IInv

\* A lease lapses when its owner's handler is dead, or else after a stall.
LEMMA LapseLemma == ASSUME IInv, NEW f \in Fences, Lapse(f) PROVE IInv'
<1>1. /\ issued' = issued /\ token' = token /\ owners' = owners /\ answered' = answered
      /\ checkpoint' = checkpoint /\ handlers' = handlers /\ lapsed' = TRUE
      /\ OwnsThread(f)
    BY DEF Lapse, leaseFree
<1>2. faults' \in [Kinds -> Nat] /\ (HeartbeatsKeepUp' => HeartbeatsKeepUp /\ At(f, "dead"))
    BY DEF Lapse, Count, IInv, Types, HeartbeatsKeepUp, Kinds
<1>3. Types' /\ GrantedOnly' /\ OwnerIsNewest'
    BY <1>1, <1>2 DEF IInv, Types, GrantedOnly, OwnerIsNewest, Live, InGraph, At, Request
<1>4. ReadIsFresh'
    BY <1>1, <1>2 DEF IInv, ReadIsFresh, At
<1>5. LiveOwns'
  <2>1. SUFFICES ASSUME HeartbeatsKeepUp', NEW g \in Fences, Live(g) PROVE FALSE
    BY <1>1 DEF LiveOwns, Live, InGraph, At
  <2>2. OwnsThread(g)
    BY <1>2, <2>1 DEF IInv, LiveOwns
  <2>3. g = f
    BY <1>1, <2>2 DEF IInv, OwnerIsNewest, OwnsThread
  <2>4. QED
    BY <1>2, <2>1, <2>3 DEF Live, InGraph, At, GraphPcs
<1>6. QED
    BY <1>3, <1>4, <1>5 DEF IInv

LEMMA HeartbeatLemma == ASSUME IInv, NEW f \in Fences, Heartbeat(f) PROVE IInv'
<1>1. /\ issued' = issued /\ token' = token /\ owners' = owners /\ answered' = answered
      /\ checkpoint' = checkpoint /\ handlers' = handlers /\ lapsed' = FALSE
      /\ faults' = faults
    BY DEF Heartbeat, leaseFree
<1>2. QED
    BY <1>1 DEF IInv, Types, GrantedOnly, OwnerIsNewest, LiveOwns, ReadIsFresh, Live, InGraph,
                At, Request, OwnsThread, HeartbeatsKeepUp

\* A POST changes nothing of the conversation.
LEMMA PostLemma == ASSUME IInv, Post PROVE IInv'
<1>1. /\ issued' = issued /\ token' = token /\ owners' = owners /\ answered' = answered
      /\ checkpoint' = checkpoint /\ handlers' = handlers /\ lapsed' = lapsed
    BY DEF Post, leaseFree
<1>2. faults' \in [Kinds -> Nat] /\ HeartbeatsKeepUp' = HeartbeatsKeepUp
    BY DEF Post, Count, IInv, Types, HeartbeatsKeepUp, Kinds
<1>3. QED
    BY <1>1, <1>2 DEF IInv, Types, GrantedOnly, OwnerIsNewest, LiveOwns, ReadIsFresh, Live,
                      InGraph, At, Request, OwnsThread

\* The handler's own steps.
LEMMA HandlerLemma ==
    ASSUME IInv, NEW f \in Fences, Step(f) \/ Fail(f) \/ Crash(f) PROVE IInv'
<1>1. handlers[f] \in Handler /\ handlers \in [Fences -> Handler] /\ faults \in [Kinds -> Nat]
    BY DEF IInv, Types
<1>2. checkpoint \in [turn : Turns, next : {"work", "promote", "end"},
                      interrupt : BOOLEAN]
    BY DEF IInv, Types
<1>3. CASE ReadState(f)
  <2> DEFINE h == [handlers[f] EXCEPT !.mode = Mode, !.pc = "invoke"]
  <2>1. h \in Handler /\ h.request = Request(f) /\ h.mode = Mode /\ h.pc = "invoke"
    BY <1>1 DEF Handler, Mode, GraphPcs, Request
  <2>2. handlers' = [handlers EXCEPT ![f] = h] /\ Live(f)
    BY <1>1, <1>3 DEF ReadState, Live, InGraph, At, GraphPcs
  <2>3. h.mode = "new" => checkpoint.next = "end"
    BY <2>1 DEF Mode
  <2> HIDE DEF h
  <2>4. QED
    BY <1>1, <1>2, <1>3, <2>1, <2>2, <2>3, OwnStep, ZenonT(40) DEF ReadState
<1>4. CASE Invoke(f)
  <2> DEFINE turn == IF handlers[f].mode = "new" THEN <<Request(f), f>> ELSE checkpoint.turn
             next == IF handlers[f].mode = "new" THEN "work" ELSE checkpoint.next
             pc == CASE next = "work" -> "work" [] next = "promote" -> "check"
                     [] next = "end" -> "respond"
             h == [handlers[f] EXCEPT !.turn = turn, !.pc = pc]
  <2>0. Request(f) \in Requests
    BY <1>4 DEF Invoke, IInv, GrantedOnly, Live, InGraph, At, GraphPcs
  <2>1. turn \in Turns /\ next \in {"work", "promote", "end"}
    BY <1>1, <1>2, <2>0 DEF Turns
  <2>2. pc \in {"work", "check", "respond"}
    BY <2>1
  <2>3. h \in Handler /\ h.request = Request(f) /\ h.turn = turn /\ h.pc = pc
    BY <1>1, <2>1, <2>2, ZenonT(40) DEF Handler, GraphPcs, Request
  <2>4. handlers' = [handlers EXCEPT ![f] = h] /\ Live(f)
    <3>1. handlers' = [handlers EXCEPT ![f].turn = turn, ![f].pc = pc]
      BY <1>4 DEF Invoke
    <3>2. Live(f)
      BY <1>4 DEF Invoke, Live, InGraph, At, GraphPcs
    <3> HIDE DEF turn, pc
    <3>3. QED
      BY <1>1, <3>1, <3>2
  <2>5. /\ checkpoint' = IF handlers[f].mode = "new"
                         THEN [turn |-> turn, next |-> "work", interrupt |-> FALSE]
                         ELSE checkpoint
        /\ UNCHANGED <<leaseFree, lapsed>> /\ faults' = faults
    BY <1>4 DEF Invoke
  <2>6. checkpoint' \in [turn : Turns, next : {"work", "promote", "end"},
                        interrupt : BOOLEAN]
    BY <1>2, <2>1, <2>5
  <2>7. checkpoint'.turn = turn
    BY <2>5
  <2> HIDE DEF h, turn, next, pc
  <2>8. QED
    BY <1>1, <2>2, <2>3, <2>4, <2>5, <2>6, <2>7, OwnStep
<1>5. CASE Interrupt(f) \/ PromoteDone(f)
  <2> DEFINE h == [handlers[f] EXCEPT !.pc = "respond", !.mode = "new", !.allowed = FALSE]
  <2>1. h \in Handler /\ h.request = Request(f) /\ h.pc = "respond"
    BY <1>1 DEF Handler, Request
  <2>2. handlers' = [handlers EXCEPT ![f] = h] /\ Live(f)
    BY <1>1, <1>5 DEF Interrupt, PromoteDone, Live, InGraph, At, GraphPcs
  <2>3. checkpoint' \in [turn : Turns, next : {"work", "promote", "end"},
                        interrupt : BOOLEAN]
    <3>1. handlers[f].turn \in Turns
      BY <1>1 DEF Handler
    <3>2. CASE Interrupt(f)
      BY <3>1, <3>2 DEF Interrupt
    <3>3. CASE PromoteDone(f)
      BY <3>1, <3>3 DEF PromoteDone
    <3>4. QED
      BY <1>5, <3>2, <3>3
  <2>4. faults' \in [Kinds -> Nat] /\ faults'["stall"] = faults["stall"]
    BY <1>1, <1>5 DEF Interrupt, PromoteDone, Count, Kinds
  <2>5. UNCHANGED <<leaseFree, lapsed>>
    BY <1>5 DEF Interrupt, PromoteDone
  <2> HIDE DEF h
  <2>6. QED
    BY <2>1, <2>2, <2>3, <2>4, <2>5, OwnStep
<1>6. CASE Work(f)
  <2>1. PICK next \in {"promote", "end"} :
           /\ checkpoint' = [turn |-> handlers[f].turn, next |-> next, interrupt |-> FALSE]
           /\ handlers' = [handlers EXCEPT ![f].pc = IF next = "promote" THEN "check" ELSE "respond"]
    BY <1>6 DEF Work
  <2> DEFINE pc == IF next = "promote" THEN "check" ELSE "respond"
             h == [handlers[f] EXCEPT !.pc = pc]
  <2>2. h \in Handler /\ h.request = Request(f) /\ h.pc \in {"check", "respond"}
    BY <1>1 DEF Handler, GraphPcs, Request
  <2>3. handlers' = [handlers EXCEPT ![f] = h] /\ Live(f)
    BY <1>1, <1>6, <2>1 DEF Work, Live, InGraph, At, GraphPcs
  <2>4. checkpoint' \in [turn : Turns, next : {"work", "promote", "end"}, interrupt : BOOLEAN]
    BY <1>1, <2>1 DEF Handler
  <2> HIDE DEF h
  <2>5. QED
    BY <1>1, <1>6, <2>2, <2>3, <2>4, OwnStep DEF Work
<1>6a. CASE Promote(f)
  <2> DEFINE h == [handlers[f] EXCEPT !.pc = "promoted"]
  <2>1. h \in Handler /\ h.request = Request(f) /\ h.pc = "promoted"
    BY <1>1 DEF Handler, GraphPcs, Request
  <2>2. handlers' = [handlers EXCEPT ![f] = h] /\ Live(f)
    BY <1>1, <1>6a DEF Promote, Live, InGraph, At, GraphPcs
  <2> HIDE DEF h
  <2>3. QED
    BY <1>1, <1>2, <1>6a, <2>1, <2>2, OwnStep DEF Promote
<1>7. CASE Check(f)
  <2> DEFINE h == [handlers[f] EXCEPT !.allowed = CanPromote(f), !.pc = "promote"]
  <2>1. CanPromote(f) \in BOOLEAN
    BY DEF CanPromote, OwnsThread
  <2>2. h \in Handler /\ h.request = Request(f) /\ h.pc = "promote"
    BY <1>1, <2>1 DEF Handler, GraphPcs, Request
  <2>3. handlers' = [handlers EXCEPT ![f] = h] /\ Live(f)
    BY <1>1, <1>7 DEF Check, Live, InGraph, At, GraphPcs
  <2> HIDE DEF h
  <2>4. QED
    BY <1>1, <1>2, <1>7, <2>2, <2>3, OwnStep, ZenonT(40) DEF Check
<1>8. CASE Crash(f)
  <2> DEFINE h == [Idle EXCEPT !.request = Request(f), !.pc = "dead"]
  <2>1. h \in Handler /\ h.request = Request(f) /\ h.pc = "dead"
    BY <1>1 DEF Handler, Idle, Request, Turns
  <2>2. handlers' = [handlers EXCEPT ![f] = h] /\ Live(f)
    BY <1>8 DEF Crash, Live
  <2>3. faults' \in [Kinds -> Nat] /\ faults'["stall"] = faults["stall"]
    BY <1>1, <1>8 DEF Crash, Count, Kinds
  <2> HIDE DEF h
  <2>4. QED
    BY <1>2, <1>8, <2>1, <2>2, <2>3, OwnStep DEF Crash
<1>9. CASE Respond(f) \/ Fail(f) \/ RaiseAgain(f)
  <2>1. Live(f) /\ handlers' = [handlers EXCEPT ![f] = [Idle EXCEPT !.pc = "done"]]
    BY <1>9 DEF Respond, Fail, RaiseAgain, EndFailed, Live, InGraph, At, GraphPcs
  <2>2. IF token[Request(f)] = f THEN End(Request(f)) ELSE UNCHANGED leaseFree
    BY <1>9 DEF Respond, Fail, RaiseAgain, EndFailed
  <2>3. faults' \in [Kinds -> Nat] /\ faults'["stall"] = faults["stall"]
    BY <1>1, <1>9 DEF Respond, Fail, RaiseAgain, Count, Kinds
  <2>4. UNCHANGED <<lapsed, checkpoint>>
    BY <1>9 DEF Respond, Fail, RaiseAgain, EndFailed
  <2>5. QED
    BY <2>1, <2>2, <2>3, <2>4, EndStep
<1>10. QED
    BY <1>3, <1>4, <1>5, <1>6, <1>6a, <1>7, <1>8, <1>9 DEF Step

-----------------------------------------------------------------------------
(* The theorems. *)

LEMMA StepLemma == IInv /\ [ChatNext]_chatVars => IInv'
<1> SUFFICES ASSUME IInv, [ChatNext]_chatVars PROVE IInv'
    OBVIOUS
<1>1. CASE UNCHANGED chatVars
    BY <1>1 DEF chatVars, IInv, Types, GrantedOnly, OwnerIsNewest, LiveOwns, ReadIsFresh, Live,
                InGraph, At, Request, OwnsThread, HeartbeatsKeepUp
<1>2. ASSUME NEW r \in Requests, Claim(r) PROVE IInv'
    BY <1>2, ClaimLemma
<1>3. ASSUME NEW f \in Fences, Step(f) \/ Fail(f) \/ Crash(f) PROVE IInv'
    BY <1>3, HandlerLemma
<1>4. ASSUME NEW f \in Fences, Lapse(f) PROVE IInv'
    BY <1>4, LapseLemma
<1>5. ASSUME NEW f \in Fences, Heartbeat(f) PROVE IInv'
    BY <1>5, HeartbeatLemma
<1>6. CASE Post
    BY <1>6, PostLemma
<1>7. QED
    BY <1>1, <1>2, <1>3, <1>4, <1>5, <1>6 DEF ChatNext

\* The inductive invariant holds in every reachable state.
THEOREM Invariance == ChatSpec => []IInv
<1>1. QED
    BY InitLemma, StepLemma, PTL DEF ChatSpec

\* chat.py:159: until a handler has stalled past its lease no two handlers drive
\* the graph of the conversation, for any number of requests, crashes and failures.
THEOREM OneDriver == ChatSpec => []OneGraphDriver
<1>1. IInv => OneGraphDriver
    BY OneLiveHandler DEF OneGraphDriver, Live
<1>2. QED
    BY <1>1, Invariance, PTL

\* chat.py:163-176: as long as heartbeats keep up, new input never starts a turn
\* over one that has not ended.
THEOREM UnfinishedTurnKept == ChatSpec => NoTurnOverwritten
<1>1. IInv /\ [ChatNext]_chatVars =>
         (HeartbeatsKeepUp /\ checkpoint.next # "end" /\ checkpoint'.next = "work"
            => checkpoint'.turn = checkpoint.turn)
  <2> SUFFICES ASSUME IInv, [ChatNext]_chatVars, HeartbeatsKeepUp,
                      checkpoint.next # "end", checkpoint'.next = "work"
               PROVE  checkpoint'.turn = checkpoint.turn
      OBVIOUS
  <2>1. CASE checkpoint' = checkpoint
      BY <2>1
  <2>2. CASE checkpoint' # checkpoint
    <3>1. PICK f \in Fences : Invoke(f) \/ Interrupt(f) \/ Work(f) \/ PromoteDone(f)
        BY <2>2 DEF ChatNext, chatVars, Step, Claim, ReadState, Check, Promote, RaiseAgain, EndFailed,
                    Respond, Fail, Crash, Lapse, Heartbeat, Post
    <3>2. CASE Invoke(f)
        BY <2>2, <3>2 DEF Invoke, IInv, ReadIsFresh
    <3>3. CASE Interrupt(f)
        BY <3>3 DEF Interrupt, IInv, ReadIsFresh
    <3>4. CASE Work(f) \/ PromoteDone(f)
        BY <3>4 DEF Work, PromoteDone
    <3>5. QED
        BY <3>1, <3>2, <3>3, <3>4
  <2>3. QED
      BY <2>1, <2>2
<1>2. QED
    BY <1>1, Invariance, PTL DEF ChatSpec, NoTurnOverwritten

\* reexecution.py:298: under stalls too, a handler is allowed to promote only if
\* its grant is the last one of the thread.
THEOREM NewestIsAllowed == ChatSpec => OnlyNewestIsAllowed
<1>1. IInv /\ [ChatNext]_chatVars =>
         \A f \in Fences : handlers'[f].allowed /\ ~handlers[f].allowed => issued = f
  <2> SUFFICES ASSUME IInv, [ChatNext]_chatVars, NEW f \in Fences,
                      handlers'[f].allowed, ~handlers[f].allowed
               PROVE  issued = f
      OBVIOUS
  <2>1. handlers \in [Fences -> Handler]
      BY DEF IInv, Types
  <2>2. ASSUME NEW g \in Fences, Step(g) \/ Fail(g) \/ Crash(g) PROVE Check(f)
    <3>1. g = f
        BY <2>1, <2>2 DEF Step, ReadState, Invoke, Interrupt, Work, Check, Promote, PromoteDone,
                          RaiseAgain, EndFailed, Respond, Fail, Crash
    <3>2. CASE ReadState(f)
        BY <2>1, <3>2 DEF ReadState, Handler
    <3>3. CASE Invoke(f)
        BY <2>1, <3>3 DEF Invoke, Handler
    <3>4. CASE Interrupt(f)
        BY <2>1, <3>4 DEF Interrupt, Handler
    <3>5. CASE Work(f)
        BY <2>1, <3>5 DEF Work, Handler
    <3>6. CASE Promote(f) \/ PromoteDone(f)
        BY <2>1, <3>6 DEF Promote, PromoteDone, Handler
    <3>7. CASE Respond(f) \/ Fail(f) \/ RaiseAgain(f) \/ Crash(f)
        BY <2>1, <3>7 DEF Respond, Fail, RaiseAgain, EndFailed, Crash, Idle
    <3>8. QED
        BY <2>2, <3>1, <3>2, <3>3, <3>4, <3>5, <3>6, <3>7 DEF Step
  <2>3. ASSUME NEW r \in Requests, Claim(r) PROVE FALSE
      BY <2>1, <2>3 DEF Claim, Idle
  <2>4. Check(f)
      BY <2>2, <2>3 DEF ChatNext, chatVars, Lapse, Heartbeat, Post
  <2>5. CanPromote(f)
      BY <2>1, <2>4 DEF Check
  <2>6. QED
      BY <2>5 DEF CanPromote, OwnsThread, IInv, OwnerIsNewest
<1>2. QED
    BY <1>1, Invariance, PTL DEF ChatSpec, OnlyNewestIsAllowed

\* chat.py:249 ignores the result of finish: whatever handlers are overtaken, a
\* response that is stored stays.
THEOREM ResponseStays == ChatSpec => ResponseIsFinal
<1>1. IInv /\ [ChatNext]_chatVars => \A r \in Requests : r \in answered => response'[r] = response[r]
  <2> SUFFICES ASSUME IInv, [ChatNext]_chatVars, NEW r \in answered
               PROVE  response'[r] = response[r]
      OBVIOUS
  <2>1. CASE response' = response
      BY <2>1
  <2>2. CASE response' # response
    <3>1. PICK f \in Fences : Respond(f)
        BY <2>2 DEF ChatNext, chatVars, Step, Claim, ReadState, Invoke, Interrupt, Work, Check,
                    Promote, PromoteDone, RaiseAgain, EndFailed, Fail, Crash, Lapse, Heartbeat, Post
    <3>2. token[Request(f)] = f /\ Request(f) \notin answered
        BY <2>2, <3>1 DEF Respond, Stored, End
    <3>3. QED
        BY <3>1, <3>2 DEF Respond, Stored
  <2>3. QED
      BY <2>1, <2>2
<1>2. QED
    BY <1>1, Invariance, PTL DEF ChatSpec, ResponseIsFinal

-----------------------------------------------------------------------------
(* The token bucket in front of the endpoint.                              *)

BucketTypes ==
    /\ remote \in BOOLEAN /\ now \in Nat
    /\ bucket \in Bucket
    /\ read \in [Callers -> Nat \cup {NoTime}]
    /\ since \in Nat /\ spent \in Nat /\ rewound \in Nat
    /\ retryAt \in Nat \cup {NoTime}

\* Nobody has a time from the future.
Times ==
    /\ since <= now
    /\ bucket.timestamp <= bucket.touched /\ bucket.touched <= now
    /\ \A c \in Callers : read[c] <= now

\* What the bucket held or would have held at since, and what was granted since.
LevelOf(tokens, timestamp, began, granted, back) ==
    Earlier(Full, tokens + Later(0, began - timestamp)) + granted
        <= Full + Later(0, timestamp - began) + back

Level ==
    ~FailOpen =>
        IF bucket.kept
        THEN LevelOf(bucket.tokens, bucket.timestamp, since, spent, rewound)
        ELSE spent = 0

\* A refused caller was told at least the time the missing units take.
PromiseOf(tokens, timestamp, at) == Token - tokens <= at - timestamp

Promise == retryAt # NoTime => bucket.kept /\ PromiseOf(bucket.tokens, bucket.timestamp, retryAt)

\* In memory no call is late.
Punctual == ~remote => rewound = 0 /\ \A c \in Callers : read[c] = NoTime

BucketInv == BucketTypes /\ bucket.tokens <= Full /\ Times /\ Level /\ Promise /\ Punctual

-----------------------------------------------------------------------------

LEMMA FullIsEnough == Full \in Nat /\ Token \in Nat \ {0} /\ Token <= Full
<1>1. \A a, b \in Nat \ {0} : a * b \in Nat /\ b <= a * b
  OBVIOUS
<1> QED BY <1>1, BucketAssumption DEF Full

\* What the script makes of the bucket, whatever the time it is told.
LEMMA ServedBucket ==
  ASSUME BucketInv, NEW t \in Nat, t <= now, Served(t)
  PROVE  /\ Filled(t) \in Nat /\ Filled(t) <= Full
         /\ bucket' \in Bucket
         /\ bucket'.kept /\ bucket'.timestamp = t /\ bucket'.touched = now
         /\ bucket'.tokens = IF Filled(t) >= Token THEN Filled(t) - Token ELSE Filled(t)
         /\ bucket'.tokens \in Nat /\ bucket'.tokens <= Full
         /\ rewound' \in Nat /\ now' = now /\ since' = since /\ remote' = remote
<1>1. /\ bucket.tokens \in Nat /\ bucket.timestamp \in Nat /\ bucket.touched \in Nat
      /\ since \in Nat /\ rewound \in Nat /\ now \in Nat
  BY DEF BucketInv, BucketTypes, Bucket
<1>2. Filled(t) \in Nat /\ Filled(t) <= Full
  BY <1>1, FullIsEnough DEF Filled, Earlier, Later
<1>3. Timestamp \in Nat
  BY <1>1, FullIsEnough DEF Timestamp, Lifetime
<1>4. rewound' \in Nat /\ now' = now /\ since' = since /\ remote' = remote
  BY <1>1, <1>3 DEF Served, Later
<1>5. PICK left \in Nat : /\ left = IF Filled(t) >= Token THEN Filled(t) - Token ELSE Filled(t)
                          /\ left <= Full
  BY <1>2, FullIsEnough
<1>6. bucket' = [kept |-> TRUE, timestamp |-> t, touched |-> now, tokens |-> left]
  BY <1>5 DEF Served
<1>7. bucket' \in Bucket
  BY <1>1, <1>5, <1>6 DEF Bucket
<1> QED BY <1>2, <1>4, <1>5, <1>6, <1>7

\* The level after the script, of which given is counted as granted.
LEMMA ServedLevel ==
  ASSUME BucketInv, ~FailOpen, NEW t \in Nat, t <= now, Served(t),
         NEW given \in Nat, given <= IF Filled(t) >= Token THEN Token ELSE 0
  PROVE  LevelOf(bucket'.tokens, t, since, spent + given, rewound')
<1>1. /\ bucket.tokens \in Nat /\ bucket.timestamp \in Nat /\ bucket.touched \in Nat
      /\ since \in Nat /\ rewound \in Nat /\ now \in Nat /\ spent \in Nat
      /\ bucket.tokens <= Full /\ bucket.timestamp <= bucket.touched
  BY DEF BucketInv, BucketTypes, Bucket, Times
<1>2. Full \in Nat /\ Token \in Nat /\ Token <= Full
  BY FullIsEnough
<1>3. rewound' = rewound + Later(0, Later(Timestamp, since) - t)
  BY DEF Served
<1>4. bucket'.tokens = IF Filled(t) >= Token THEN Filled(t) - Token ELSE Filled(t)
  BY ServedBucket
<1>5. CASE Known
  <2>1. LevelOf(bucket.tokens, bucket.timestamp, since, spent, rewound)
    BY <1>5 DEF BucketInv, Level, Known
  <2>2. Timestamp = bucket.timestamp
    BY <1>5 DEF Timestamp
  <2>3. Filled(t) = Earlier(Full, bucket.tokens + Later(0, t - bucket.timestamp))
    BY <1>5 DEF Filled
  <2> QED BY <1>1, <1>2, <1>3, <1>4, <2>1, <2>2, <2>3 DEF LevelOf, Earlier, Later
<1>6. CASE ~Known /\ bucket.kept
  <2>1. LevelOf(bucket.tokens, bucket.timestamp, since, spent, rewound)
    BY <1>6 DEF BucketInv, Level
  <2>2. Timestamp = bucket.touched + 2 * Full
    BY <1>6 DEF Timestamp, Lifetime
  <2>3. Filled(t) = Full
    BY <1>6 DEF Filled
  <2> QED BY <1>1, <1>2, <1>3, <1>4, <2>1, <2>2, <2>3 DEF LevelOf, Earlier, Later
<1>7. CASE ~Known /\ ~bucket.kept
  <2>1. spent = 0
    BY <1>7 DEF BucketInv, Level
  <2>2. Timestamp = 0
    BY <1>7 DEF Timestamp
  <2>3. Filled(t) = Full
    BY <1>7 DEF Filled
  <2> QED BY <1>1, <1>2, <1>3, <1>4, <2>1, <2>2, <2>3 DEF LevelOf, Earlier, Later
<1> QED BY <1>5, <1>6, <1>7

\* A refusal leaves an earlier promise true, and makes one of its own.
LEMMA RefusedPromise ==
  ASSUME BucketInv, NEW t \in Nat, t <= now, Served(t), Filled(t) < Token
  PROVE  /\ retryAt # NoTime => PromiseOf(bucket'.tokens, t, retryAt)
         /\ now + Wait(Filled(t)) \in Nat
         /\ PromiseOf(bucket'.tokens, t, now + Wait(Filled(t)))
<1>1. /\ bucket.tokens \in Nat /\ bucket.timestamp \in Nat /\ now \in Nat
      /\ retryAt \in Nat \cup {NoTime} /\ NoTime \in Int
  BY DEF BucketInv, BucketTypes, Bucket, NoTime
<1>2. /\ Full \in Nat /\ Token \in Nat /\ Token <= Full /\ Filled(t) \in Nat
      /\ bucket'.tokens = Filled(t)
  BY FullIsEnough, ServedBucket
<1>3. Filled(t) = Earlier(Full, bucket.tokens + Later(0, t - bucket.timestamp))
  BY <1>2 DEF Filled
<1>4. retryAt # NoTime => PromiseOf(bucket.tokens, bucket.timestamp, retryAt)
  BY DEF BucketInv, Promise
<1>5. retryAt # NoTime => PromiseOf(bucket'.tokens, t, retryAt)
  BY <1>1, <1>2, <1>3, <1>4 DEF PromiseOf, Earlier, Later
<1>6. /\ now + Wait(Filled(t)) \in Nat
      /\ PromiseOf(bucket'.tokens, t, now + Wait(Filled(t)))
  BY <1>1, <1>2 DEF PromiseOf, Wait
<1> QED BY <1>5, <1>6

-----------------------------------------------------------------------------

LEMMA InitBucketInv == Init => BucketInv
<1> SUFFICES ASSUME Init PROVE BucketInv
  OBVIOUS
<1>1. BucketTypes
  BY DEF Init, BucketTypes, Bucket, NoTime
<1>2. bucket.tokens <= Full /\ Times
  BY FullIsEnough DEF Init, Times, NoTime
<1>3. Level /\ Promise /\ Punctual
  BY DEF Init, Level, Promise, Punctual
<1> QED BY <1>1, <1>2, <1>3 DEF BucketInv

\* A call that is answered, in memory or by Redis.
LEMMA AnsweredBucketInv ==
  ASSUME BucketInv, NEW t \in Nat, t <= now, Served(t), Granted(t),
         read' \in [Callers -> Nat \cup {NoTime}],
         \A c \in Callers : read'[c] <= now,
         Punctual'
  PROVE  BucketInv'
<1>1. /\ bucket' \in Bucket /\ bucket'.kept /\ bucket'.timestamp = t /\ bucket'.touched = now
      /\ bucket'.tokens \in Nat /\ bucket'.tokens <= Full
      /\ rewound' \in Nat /\ now' = now /\ since' = since /\ remote' = remote
      /\ Filled(t) \in Nat /\ now \in Nat /\ since \in Nat /\ spent \in Nat
      /\ Full \in Nat /\ Token \in Nat /\ since <= now
  BY ServedBucket, FullIsEnough DEF BucketInv, BucketTypes, Times
<1>5. remote' \in BOOLEAN
  BY ServedBucket DEF BucketInv, BucketTypes
<1>2. Full' = Full
  BY DEF Full
<1>3. CASE Filled(t) >= Token
  <2>1. spent' = spent + Token /\ retryAt' = NoTime
    BY <1>3 DEF Granted
  <2>2. ~FailOpen => LevelOf(bucket'.tokens, t, since, spent + Token, rewound')
    BY <1>1, <1>3, ServedLevel
  <2>3. BucketTypes' /\ Times'
    BY <1>1, <1>5, <2>1 DEF BucketTypes, Times
  <2>4. Level' /\ Promise'
    BY <1>1, <2>1, <2>2 DEF Level, Promise, LevelOf, Full
  <2> QED BY <1>1, <1>2, <2>3, <2>4 DEF BucketInv
<1>4. CASE ~(Filled(t) >= Token)
  <2>1. spent' = spent /\ retryAt' = now + Wait(Filled(t))
    BY <1>4 DEF Granted
  <2>2. ~FailOpen => LevelOf(bucket'.tokens, t, since, spent + 0, rewound')
    BY <1>1, <1>4, ServedLevel
  <2>3. retryAt' \in Nat /\ PromiseOf(bucket'.tokens, t, retryAt')
    BY <1>1, <1>4, <2>1, RefusedPromise
  <2>4. BucketTypes' /\ Times'
    BY <1>1, <1>5, <2>1, <2>3 DEF BucketTypes, Times
  <2>5. Level' /\ Promise'
    BY <1>1, <2>1, <2>2, <2>3 DEF Level, Promise, PromiseOf, LevelOf, Full
  <2> QED BY <1>1, <1>2, <2>4, <2>5 DEF BucketInv
<1> QED BY <1>3, <1>4

LEMMA AcquireBucketInv ==
  ASSUME BucketInv, NEW c \in Callers, Acquire(c)
  PROVE  BucketInv'
<1>1. now \in Nat /\ now <= now /\ Served(now) /\ Granted(now) /\ read' = read /\ ~remote
  BY DEF BucketInv, BucketTypes, Acquire
<1>2. rewound' = rewound
  <2>1. Timestamp \in Nat /\ Timestamp <= now /\ since \in Nat /\ since <= now /\ rewound \in Nat
    BY <1>1, FullIsEnough DEF BucketInv, BucketTypes, Times, Bucket, Timestamp, Known
  <2> QED BY <1>1, <2>1 DEF Served, Later
<1>3. Punctual'
  BY <1>1, <1>2 DEF BucketInv, Punctual
<1> QED BY <1>1, <1>3, AnsweredBucketInv DEF BucketInv, BucketTypes, Times

LEMMA ReadClockBucketInv ==
  ASSUME BucketInv, NEW c \in Callers, ReadClock(c)
  PROVE  BucketInv'
<1>1. /\ read' = [read EXCEPT ![c] = now] /\ remote
      /\ UNCHANGED <<remote, now, bucket, since, spent, rewound, retryAt>>
  BY DEF ReadClock
<1>2. BucketTypes' /\ Times'
  BY <1>1 DEF BucketInv, BucketTypes, Times
<1>3. bucket'.tokens <= Full' /\ Level' /\ Promise' /\ Punctual'
  BY <1>1 DEF BucketInv, Level, LevelOf, Promise, PromiseOf, Punctual, Full
<1> QED BY <1>2, <1>3 DEF BucketInv

\* The time a caller has read.
LEMMA ReadTime ==
  ASSUME BucketInv, NEW c \in Callers, read[c] # NoTime,
         read' = [read EXCEPT ![c] = NoTime], remote' = remote
  PROVE  /\ read[c] \in Nat /\ read[c] <= now /\ remote
         /\ read' \in [Callers -> Nat \cup {NoTime}]
         /\ \A d \in Callers : read'[d] <= now
         /\ Punctual'
<1>1. read[c] \in Nat /\ read[c] <= now /\ now \in Nat
  BY DEF BucketInv, BucketTypes, Times
<1>2. remote
  BY DEF BucketInv, Punctual
<1>3. read' \in [Callers -> Nat \cup {NoTime}]
  BY DEF BucketInv, BucketTypes
<1>4. \A d \in Callers : read'[d] <= now
  BY <1>1 DEF BucketInv, BucketTypes, Times, NoTime
<1> QED BY <1>1, <1>2, <1>3, <1>4 DEF Punctual

LEMMA EvaluateBucketInv ==
  ASSUME BucketInv, NEW c \in Callers, Evaluate(c)
  PROVE  BucketInv'
<1>1. /\ read[c] # NoTime /\ read' = [read EXCEPT ![c] = NoTime]
      /\ Served(read[c]) /\ Granted(read[c]) /\ remote' = remote
  BY DEF Evaluate, Served
<1> QED BY <1>1, ReadTime, AnsweredBucketInv

LEMMA FailedBucketInv ==
  ASSUME BucketInv, NEW c \in Callers, Failed(c)
  PROVE  BucketInv'
<1>1. /\ read[c] # NoTime /\ read' = [read EXCEPT ![c] = NoTime] /\ remote' = remote
      /\ spent' = IF FailOpen THEN spent + Token ELSE spent
  BY DEF Failed, Served
<1>2. /\ read[c] \in Nat /\ read[c] <= now
      /\ read' \in [Callers -> Nat \cup {NoTime}]
      /\ \A d \in Callers : read'[d] <= now
      /\ Punctual'
      /\ spent \in Nat /\ spent' \in Nat /\ Full' = Full /\ now \in Nat
  <2>1. /\ read[c] \in Nat /\ read[c] <= now
        /\ read' \in [Callers -> Nat \cup {NoTime}]
        /\ \A d \in Callers : read'[d] <= now
        /\ Punctual'
    BY <1>1, ReadTime
  <2>2. spent \in Nat /\ spent' \in Nat /\ now \in Nat
    BY <1>1, FullIsEnough DEF BucketInv, BucketTypes
  <2>3. Full' = Full
    BY DEF Full
  <2> QED BY <2>1, <2>2, <2>3
<1>3. CASE /\ Served(read[c])
           /\ retryAt' = IF Filled(read[c]) >= Token THEN NoTime ELSE retryAt
  <2>1. /\ bucket' \in Bucket /\ bucket'.kept /\ bucket'.timestamp = read[c] /\ bucket'.touched = now
        /\ bucket'.tokens \in Nat /\ bucket'.tokens <= Full
        /\ rewound' \in Nat /\ now' = now /\ since' = since /\ remote' = remote /\ Filled(read[c]) \in Nat
        /\ Full \in Nat /\ Token \in Nat
    BY <1>2, <1>3, ServedBucket, FullIsEnough
  <2>2. ~FailOpen => LevelOf(bucket'.tokens, read[c], since, spent + 0, rewound')
    BY <1>2, <1>3, <2>1, ServedLevel
  <2>3. Level'
    BY <1>1, <1>2, <2>1, <2>2 DEF Level, LevelOf, Full
  <2>4. Promise'
    BY <1>2, <1>3, <2>1, RefusedPromise DEF Promise, PromiseOf
  <2>5. retryAt' \in Nat \cup {NoTime}
    BY <1>3 DEF BucketInv, BucketTypes
  <2>6. BucketTypes' /\ Times'
    BY <1>2, <2>1, <2>5 DEF BucketInv, BucketTypes, Times
  <2> QED BY <1>2, <2>1, <2>3, <2>4, <2>6 DEF BucketInv
<1>4. CASE UNCHANGED <<remote, now, bucket, since, rewound, retryAt>>
  <2>1. BucketTypes' /\ Times'
    BY <1>2, <1>4 DEF BucketInv, BucketTypes, Times
  <2>2. Level' /\ Promise'
    BY <1>1, <1>4 DEF BucketInv, Level, LevelOf, Promise, PromiseOf, Full
  <2> QED BY <1>2, <1>4, <2>1, <2>2 DEF BucketInv
<1> QED BY <1>3, <1>4 DEF Failed

LEMMA TickBucketInv == BucketInv /\ Tick => BucketInv'
<1> SUFFICES ASSUME BucketInv, Tick PROVE BucketInv'
  OBVIOUS
<1>1. now' = now + 1 /\ UNCHANGED <<remote, bucket, read, since, spent, rewound, retryAt>>
  BY DEF Tick
<1>2. BucketTypes'
  BY <1>1 DEF BucketInv, BucketTypes
<1>3. Times'
  BY <1>1 DEF BucketInv, BucketTypes, Times, Bucket, NoTime
<1>4. bucket'.tokens <= Full' /\ Level' /\ Promise' /\ Punctual'
  BY <1>1 DEF BucketInv, Level, LevelOf, Promise, PromiseOf, Punctual, Full
<1> QED BY <1>2, <1>3, <1>4 DEF BucketInv

LEMMA StartCountBucketInv == BucketInv /\ StartCount => BucketInv'
<1> SUFFICES ASSUME BucketInv, StartCount PROVE BucketInv'
  OBVIOUS
<1>1. /\ since' = now /\ spent' = 0 /\ rewound' = 0
      /\ UNCHANGED <<remote, now, bucket, read, retryAt>>
  BY DEF StartCount
<1>2. /\ Full \in Nat /\ now \in Nat /\ bucket.tokens \in Nat /\ bucket.timestamp \in Nat
      /\ Full' = Full
  BY FullIsEnough DEF BucketInv, BucketTypes, Bucket, Full
<1>3. BucketTypes' /\ Times'
  BY <1>1 DEF BucketInv, BucketTypes, Times
<1>4. Level'
  BY <1>1, <1>2 DEF Level, LevelOf, Earlier, Later
<1>5. bucket'.tokens <= Full' /\ Promise' /\ Punctual'
  BY <1>1, <1>2 DEF BucketInv, Promise, PromiseOf, Punctual
<1> QED BY <1>3, <1>4, <1>5 DEF BucketInv

\* The inductive invariant holds in every reachable state.
THEOREM BucketInvariance == Spec => []BucketInv
<1>1. BucketInv /\ [Next]_vars => BucketInv'
  <2> SUFFICES ASSUME BucketInv, [Next]_vars PROVE BucketInv'
    OBVIOUS
  <2>1. CASE UNCHANGED vars
    BY <2>1 DEF vars, BucketInv, BucketTypes, Times, Level, LevelOf, Promise, PromiseOf, Punctual, Full
  <2>2. ASSUME NEW c \in Callers, Acquire(c) \/ ReadClock(c) \/ Evaluate(c) \/ Failed(c)
        PROVE  BucketInv'
    BY <2>2, AcquireBucketInv, ReadClockBucketInv, EvaluateBucketInv, FailedBucketInv
  <2> QED BY <2>1, <2>2, TickBucketInv, StartCountBucketInv DEF Next
<1> QED BY InitBucketInv, <1>1, PTL DEF Spec

\* Whatever the order in which the calls arrive, no stretch of time sees more than
\* a full bucket and its refill, in Redis also the lateness of the calls.
THEOREM OnlyRefillIsGranted == Spec => []GrantedIsRefilled
<1>1. BucketInv => GrantedIsRefilled
  <2> SUFFICES ASSUME BucketInv, ~FailOpen
               PROVE  spent <= Full + (now - since) + (IF remote THEN rewound ELSE 0)
    BY DEF GrantedIsRefilled
  <2>3. ~remote => rewound = 0
    BY DEF BucketInv, Punctual
  <2>1. /\ Full \in Nat /\ now \in Nat /\ since \in Nat /\ spent \in Nat /\ rewound \in Nat
        /\ bucket.tokens \in Nat /\ bucket.timestamp \in Nat
        /\ since <= now /\ bucket.timestamp <= now
    BY FullIsEnough DEF BucketInv, BucketTypes, Bucket, Times
  <2>2. IF bucket.kept
        THEN LevelOf(bucket.tokens, bucket.timestamp, since, spent, rewound)
        ELSE spent = 0
    BY DEF BucketInv, Level
  <2> QED BY <2>1, <2>2, <2>3 DEF LevelOf, Earlier, Later
<1> QED BY BucketInvariance, <1>1, PTL

\* retry_after_ms is never too short, in memory and in Redis, also for a caller
\* that was refused before a late call or before its key was forgotten.
THEOREM RefusedOnce == Spec => []RetryAfterSuffices
<1>1. BucketInv => RetryAfterSuffices
  <2> SUFFICES ASSUME BucketInv, retryAt # NoTime, retryAt <= now PROVE Filled(now) >= Token
    BY DEF RetryAfterSuffices
  <2>1. /\ Full \in Nat /\ Token \in Nat /\ Token <= Full /\ now \in Nat /\ retryAt \in Nat
        /\ bucket.tokens \in Nat /\ bucket.timestamp \in Nat
    BY FullIsEnough DEF BucketInv, BucketTypes, Bucket
  <2>2. PromiseOf(bucket.tokens, bucket.timestamp, retryAt)
    BY DEF BucketInv, Promise
  <2> QED BY <2>1, <2>2 DEF PromiseOf, Filled, Earlier, Later
<1> QED BY BucketInvariance, <1>1, PTL
-----------------------------------------------------------------------------
(* The write-through repositories: what they have in common. *)

\* Dictionaries by id have tables by id, but for the tool runs, whose table keeps the
\* first row; the others have tables by natural key.  What is read back in an order is
\* a dictionary by id or the resolved fields, which alone are written after the table.
Kind(rep) ==
    /\ rep.key \in {"id", "name", "subject"}
    /\ rep.key = "id" => rep.stored \in {"merge", "first"}
    /\ rep.key # "id" => rep.stored = "name"
    /\ rep.key = "subject" => rep.cached = "after" \/ rep = CandidateLinks
    /\ rep.cached = "after" => rep.key = "subject" /\ rep.sorted
    /\ rep.stored = "first" => ~rep.sorted
    /\ rep.key = "name" => ~rep.sorted
    /\ rep = CandidateLinks => ~rep.sorted /\ rep.key = "subject" /\ rep.cached = "put"
    /\ rep.sorted /\ rep.key = "id" => rep.cached \in {"put", "once"}

LEMMA RepositoryKinds == ASSUME repository \in Repositories PROVE Kind(repository)
<1>1. Kind(SearchPlans) /\ Kind(ResearchRuns) /\ Kind(RunEvents)
    BY DEF RunEvents, RunRecords, ResearchRuns, SearchPlans, ResearchLoad, Plain, Kind, CandidateLinks, EnterpriseLoad
<1>2. Kind(Candidates) /\ Kind(CandidateSets) /\ Kind(Sources) /\ Kind(Batches)
    BY DEF Candidates, CandidateSets, Sources, Batches, Plain, Kind, CandidateLinks, EnterpriseLoad
<1>3. Kind(ToolRuns)
    BY DEF ToolRuns, ResearchLoad, Plain, Kind, CandidateLinks, EnterpriseLoad
<1>4. Kind(ResolutionRuns) /\ Kind(Enterprises) /\ Kind(Locations)
    BY DEF ResolutionRuns, Enterprises, Locations, EnterpriseLoad, Plain, Kind, CandidateLinks
<1>5. Kind(Decisions) /\ Kind(Relations)
    BY DEF Decisions, Relations, Plain, Kind, CandidateLinks, EnterpriseLoad
<1>6. Kind(CandidateLinks)
    BY DEF CandidateLinks, EnterpriseLoad, Plain, Kind
<1>7. Kind(VerificationRuns) /\ Kind(EvidenceRows) /\ Kind(VerifiedProfiles)
    BY DEF VerificationRuns, EvidenceRows, VerifiedProfiles, EvidenceLoad, Plain, Kind, CandidateLinks, EnterpriseLoad
<1>8. Kind(ResolvedFields)
    BY DEF ResolvedFields, EvidenceLoad, Plain, Kind, CandidateLinks, EnterpriseLoad
<1>9. Kind(ScoringProfiles) /\ Kind(LeadScores) /\ Kind(LeadSets)
    BY DEF ScoringProfiles, LeadScores, LeadSets, ScoreLoad, Plain, Kind, CandidateLinks, EnterpriseLoad
<1>10. Kind(Reasons)
    BY DEF Reasons, ScoreLoad, Plain, Kind, CandidateLinks, EnterpriseLoad
<1>11. Kind(BusinessRules) /\ Kind(MarketingRules) /\ Kind(Criteria)
    BY DEF BusinessRules, MarketingRules, Criteria, RuleLoad, Plain, Kind, CandidateLinks, EnterpriseLoad
<1>12. Kind(Mutations) /\ Kind(ReexecutionPlans)
    BY DEF Mutations, ReexecutionPlans, MutationLoad, Plain, Kind, CandidateLinks, EnterpriseLoad
<1>13. Kind(ExecutionSnapshots) /\ Kind(DeliveryBundles) /\ Kind(ExportJobs)
    BY DEF ExecutionSnapshots, DeliveryBundles, ExportJobs, Plain, Kind, CandidateLinks, EnterpriseLoad
<1>14. QED
    BY <1>1, <1>2, <1>3, <1>4, <1>5, <1>6, <1>7, <1>8, <1>9, <1>10, <1>11, <1>12, <1>13 DEF Repositories
-----------------------------------------------------------------------------
(* The dictionary. *)

\* A dictionary has a key once.
KeysOnce(c) == \A i, j \in DOMAIN c : Key(c[i]) = Key(c[j]) => i = j

\* Putting a row changes the place of its key only, or adds one at the end.
PutDoes(c, r, d) ==
    /\ \A i \in DOMAIN c : i \in DOMAIN d /\ d[i] = IF Key(c[i]) = Key(r) THEN r ELSE c[i]
    /\ \E i \in DOMAIN d : d[i] = r
    /\ \A i \in DOMAIN d : d[i] = r \/ (i \in DOMAIN c /\ d[i] = c[i] /\ Key(c[i]) # Key(r))
    /\ (\A i \in DOMAIN c : Key(c[i]) # Key(r)) => d = Append(c, r)

LEMMA PutLemma ==
    ASSUME NEW X, NEW c \in Seq(X), NEW r \in X, KeysOnce(c)
    PROVE  Put(c, r) \in Seq(X) /\ KeysOnce(Put(c, r)) /\ PutDoes(c, r, Put(c, r))
<1>1. DOMAIN c = 1..Len(c) /\ Len(c) \in Nat /\ \A i \in DOMAIN c : c[i] \in X
    BY LenProperties, ElementOfSeq
<1>2. CASE \E i \in DOMAIN c : Key(c[i]) = Key(r)
    <2> DEFINE d == [i \in DOMAIN c |-> IF Key(c[i]) = Key(r) THEN r ELSE c[i]]
    <2>1. Put(c, r) = d
        BY <1>2 DEF Put
    <2>2. d \in Seq(X)
        <3>1. d \in [1..Len(c) -> X]
            BY <1>1
        <3> HIDE DEF d
        <3>2. QED
            BY <1>1, <3>1, IsASeq
    <2>3. \A i \in DOMAIN c : Key(d[i]) = Key(c[i])
        OBVIOUS
    <2>4. KeysOnce(d)
        BY <2>3 DEF KeysOnce
    <2>5. PutDoes(c, r, d)
        BY <1>2 DEF PutDoes
    <2>6. QED
        BY <2>1, <2>2, <2>4, <2>5
<1>3. CASE \A i \in DOMAIN c : Key(c[i]) # Key(r)
    <2> DEFINE d == Append(c, r)
    <2>1. Put(c, r) = d
        BY <1>3 DEF Put
    <2>2. /\ d \in Seq(X) /\ Len(d) = Len(c) + 1
          /\ \A i \in 1..Len(c) : d[i] = c[i]
          /\ d[Len(c) + 1] = r
        BY AppendProperties
    <2> HIDE DEF d
    <2>3. DOMAIN d = 1..(Len(c) + 1)
        BY <2>2, LenProperties
    <2>4. \A i \in DOMAIN d : i \in DOMAIN c \/ i = Len(c) + 1
        BY <1>1, <2>3
    <2>5. KeysOnce(d)
        <3> SUFFICES ASSUME NEW i \in DOMAIN d, NEW j \in DOMAIN d, Key(d[i]) = Key(d[j]) PROVE i = j
            BY DEF KeysOnce
        <3>1. CASE i \in DOMAIN c /\ j \in DOMAIN c
            BY <1>1, <2>2, <3>1 DEF KeysOnce
        <3>2. CASE i \in DOMAIN c /\ j = Len(c) + 1
            BY <1>1, <1>3, <2>2, <3>2
        <3>3. CASE i = Len(c) + 1 /\ j \in DOMAIN c
            BY <1>1, <1>3, <2>2, <3>3
        <3>4. QED
            BY <2>4, <3>1, <3>2, <3>3
    <2>6. Len(c) + 1 \in DOMAIN d
        BY <1>1, <2>3
    <2>7. \A i \in DOMAIN c : i \in DOMAIN d /\ d[i] = IF Key(c[i]) = Key(r) THEN r ELSE c[i]
        BY <1>1, <1>3, <2>2, <2>3
    <2>8. \A i \in DOMAIN d : d[i] = r \/ (i \in DOMAIN c /\ d[i] = c[i] /\ Key(c[i]) # Key(r))
        BY <1>1, <1>3, <2>2, <2>4
    <2>9. PutDoes(c, r, d)
        BY <2>2, <2>6, <2>7, <2>8 DEF PutDoes, d
    <2>10. QED
        BY <2>1, <2>2, <2>5, <2>9
<1>4. QED
    BY <1>2, <1>3

LEMMA LeastOf ==
    ASSUME NEW T \in SUBSET Nat, T # {}
    PROVE  \E n \in T : \A m \in T : n <= m
<1>1. PICK n \in T : \A m \in T : <<m, n>> \notin OpToRel(<, Nat)
    BY NatLessThanWellFounded, WFMin
<1>2. \A m \in T : m \in Nat /\ n \in Nat /\ ~(m < n)
    BY <1>1 DEF OpToRel
<1>3. QED
    BY <1>2

\* The dictionaries that reading the first rows makes, one after another.
Reads(q, m, f) == f = [n \in 0..m |-> IF n = 0 THEN <<>> ELSE Put(f[n - 1], q[n])]

LEMMA ReadsExist == ASSUME NEW q, NEW n \in Nat PROVE \E f : Reads(q, n, f)
<1> DEFINE T == {m \in Nat : ~\E f : Reads(q, m, f)}
<1>1. CASE T # {}
    <2>1. PICK m \in T : \A l \in T : m <= l
        <3>1. T \in SUBSET Nat
            OBVIOUS
        <3> HIDE DEF T
        <3>2. QED
            BY <1>1, <3>1, LeastOf
    <2>2. m \in Nat /\ ~\E f : Reads(q, m, f)
        OBVIOUS
    <2>3. CASE m = 0
        <3> DEFINE f == [k \in 0..0 |-> <<>>]
        <3>1. f = [k \in 0..0 |-> IF k = 0 THEN <<>> ELSE Put(f[k - 1], q[k])]
            OBVIOUS
        <3>2. Reads(q, 0, f)
            BY <3>1 DEF Reads
        <3>3. QED
            BY <2>2, <2>3, <3>2
    <2>4. CASE m # 0
        <3>1. m - 1 \in Nat /\ ~(m <= m - 1)
            BY <2>2, <2>4
        <3>2. m - 1 \notin T
            <4> HIDE DEF T
            <4>1. QED
                BY <2>1, <3>1
        <3>3. PICK f : Reads(q, m - 1, f)
            BY <3>1, <3>2
        <3> HIDE DEF T
        <3> DEFINE g == [k \in 0..m |-> IF k = m THEN Put(f[m - 1], q[m]) ELSE f[k]]
        <3>4. \A k \in 0..(m - 1) : f[k] = IF k = 0 THEN <<>> ELSE Put(f[k - 1], q[k])
            BY <3>3 DEF Reads
        <3>5. ASSUME NEW k \in 0..m
              PROVE  g[k] = IF k = 0 THEN <<>> ELSE Put(g[k - 1], q[k])
            <4>1. CASE k = m
                <5>1. g[m] = Put(f[m - 1], q[m]) /\ g[m - 1] = f[m - 1]
                    BY <2>2, <2>4
                <5> HIDE DEF g
                <5>2. QED
                    BY <2>4, <4>1, <5>1
            <4>2. CASE k # m
                <5>1. k \in 0..(m - 1) /\ g[k] = f[k]
                    BY <2>2, <4>2
                <5>2. k # 0 => g[k - 1] = f[k - 1]
                    BY <2>2, <4>2
                <5> HIDE DEF g
                <5>3. QED
                    BY <3>4, <5>1, <5>2
            <4>3. QED
                BY <4>1, <4>2
        <3>6. g = [k \in 0..m |-> g[k]]
            OBVIOUS
        <3> HIDE DEF g
        <3>7. Reads(q, m, g)
            BY <3>5, <3>6 DEF Reads
        <3>8. QED
            BY <2>2, <3>7
    <2>5. QED
        BY <2>3, <2>4
<1>2. CASE T = {}
    BY <1>2
<1>3. QED
    BY <1>1, <1>2

\* What the dictionary has after m rows: of each key the last row, and the rows
\* themselves when their keys are distinct.
ReadSoFar(q, m, c) ==
    /\ \A i \in DOMAIN c : \E n \in 1..m : c[i] = q[n] /\ \A l \in 1..m : l > n => Key(q[l]) # Key(q[n])
    /\ \A n \in 1..m : \E i \in DOMAIN c : Key(c[i]) = Key(q[n])
    /\ (\A l, n \in 1..m : Key(q[l]) = Key(q[n]) => l = n) => Len(c) = m /\ \A i \in 1..m : c[i] = q[i]

LEMMA ReadStep ==
    ASSUME NEW X, NEW q \in Seq(X), NEW m \in 1..Len(q), NEW c \in Seq(X), KeysOnce(c), ReadSoFar(q, m - 1, c)
    PROVE  Put(c, q[m]) \in Seq(X) /\ KeysOnce(Put(c, q[m])) /\ ReadSoFar(q, m, Put(c, q[m]))
<1> DEFINE r == q[m]
           d == Put(c, r)
<1>1. r \in X /\ m \in Nat /\ m # 0
    BY ElementOfSeq
<1>2. d \in Seq(X) /\ KeysOnce(d) /\ PutDoes(c, r, d)
    BY <1>1, PutLemma
<1> HIDE DEF d
<1>3. \A n : n \in 1..m <=> n = m \/ n \in 1..(m - 1)
    BY <1>1
<1>4. ASSUME NEW i \in DOMAIN d
      PROVE  \E n \in 1..m : d[i] = q[n] /\ \A l \in 1..m : l > n => Key(q[l]) # Key(q[n])
    <2>1. CASE d[i] = r
        <3>1. m \in 1..m /\ \A l \in 1..m : ~(l > m)
            BY <1>1
        <3>2. QED
            BY <2>1, <3>1
    <2>2. CASE i \in DOMAIN c /\ d[i] = c[i] /\ Key(c[i]) # Key(r)
        <3>1. PICK n \in 1..(m - 1) : c[i] = q[n] /\ \A l \in 1..(m - 1) : l > n => Key(q[l]) # Key(q[n])
            BY <2>2 DEF ReadSoFar
        <3>2. QED
            BY <1>3, <2>2, <3>1
    <2>3. QED
        BY <1>2, <2>1, <2>2 DEF PutDoes
<1>5. ASSUME NEW n \in 1..m PROVE \E i \in DOMAIN d : Key(d[i]) = Key(q[n])
    <2>1. CASE n = m
        BY <1>2, <2>1 DEF PutDoes
    <2>2. CASE n \in 1..(m - 1)
        <3>1. PICK i \in DOMAIN c : Key(c[i]) = Key(q[n])
            BY <2>2 DEF ReadSoFar
        <3>2. QED
            BY <1>2, <3>1 DEF PutDoes
    <2>3. QED
        BY <1>3, <2>1, <2>2
<1>6. ASSUME \A l, n \in 1..m : Key(q[l]) = Key(q[n]) => l = n
      PROVE  Len(d) = m /\ \A i \in 1..m : d[i] = q[i]
    <2>1. Len(c) = m - 1 /\ \A i \in 1..(m - 1) : c[i] = q[i]
        BY <1>3, <1>6 DEF ReadSoFar
    <2>2. DOMAIN c = 1..(m - 1)
        BY <2>1, LenProperties
    <2>3. \A i \in DOMAIN c : Key(c[i]) # Key(r)
        <3>1. \A i \in 1..(m - 1) : i # m /\ i \in 1..m /\ m \in 1..m
            BY <1>1
        <3>2. QED
            BY <1>6, <2>1, <2>2, <3>1
    <2>4. d = Append(c, r)
        BY <1>2, <2>3 DEF PutDoes
    <2>5. /\ Len(d) = Len(c) + 1
          /\ \A i \in 1..Len(c) : d[i] = c[i]
          /\ d[Len(c) + 1] = r
        BY <1>1, <2>4, AppendProperties
    <2>6. Len(c) + 1 = m
        BY <1>1, <2>1
    <2>7. QED
        BY <1>3, <2>1, <2>5, <2>6
<1>7. ReadSoFar(q, m, d)
    BY <1>4, <1>5, <1>6 DEF ReadSoFar
<1>8. QED
    BY <1>2, <1>7 DEF d

LEMMA ReadLemma ==
    ASSUME NEW X, NEW q \in Seq(X)
    PROVE  Read(q) \in Seq(X) /\ KeysOnce(Read(q)) /\ ReadSoFar(q, Len(q), Read(q))
<1>1. Len(q) \in Nat
    BY LenProperties
<1> DEFINE f == CHOOSE f : Reads(q, Len(q), f)
<1>2. Reads(q, Len(q), f)
    BY <1>1, ReadsExist
<1>3. Read(q) = f[Len(q)]
    BY DEF Read, Reads
<1> HIDE DEF f
<1>4. f[0] = <<>> /\ \A n \in 1..Len(q) : f[n] = Put(f[n - 1], q[n])
    <2>1. \A n \in 0..Len(q) : f[n] = IF n = 0 THEN <<>> ELSE Put(f[n - 1], q[n])
        BY <1>2 DEF Reads
    <2>2. 0 \in 0..Len(q) /\ \A n \in 1..Len(q) : n \in 0..Len(q) /\ n # 0
        BY <1>1
    <2>3. QED
        BY <2>1, <2>2
<1> DEFINE T == {n \in 0..Len(q) : ~(f[n] \in Seq(X) /\ KeysOnce(f[n]) /\ ReadSoFar(q, n, f[n]))}
<1>5. CASE T # {}
    <2>1. PICK m \in T : \A l \in T : m <= l
        <3>1. T \in SUBSET Nat
            BY <1>1
        <3> HIDE DEF T
        <3>2. QED
            BY <1>5, <3>1, LeastOf
    <2>2. m \in 0..Len(q) /\ ~(f[m] \in Seq(X) /\ KeysOnce(f[m]) /\ ReadSoFar(q, m, f[m]))
        OBVIOUS
    <2>3. CASE m = 0
        <3>1. f[0] \in Seq(X) /\ Len(f[0]) = 0 /\ DOMAIN f[0] = {}
            BY <1>4
        <3>2. 1..0 = {}
            OBVIOUS
        <3>3. KeysOnce(f[0]) /\ ReadSoFar(q, 0, f[0])
            BY <3>1, <3>2 DEF KeysOnce, ReadSoFar
        <3>4. QED
            BY <2>2, <2>3, <3>1, <3>3
    <2>4. CASE m # 0
        <3>1. m \in 1..Len(q) /\ m - 1 \in 0..Len(q) /\ ~(m <= m - 1)
            BY <1>1, <2>2, <2>4
        <3>2. m - 1 \notin T
            <4> HIDE DEF T
            <4>1. QED
                BY <2>1, <3>1
        <3>3. f[m - 1] \in Seq(X) /\ KeysOnce(f[m - 1]) /\ ReadSoFar(q, m - 1, f[m - 1])
            BY <3>1, <3>2
        <3> HIDE DEF T
        <3>4. QED
            BY <1>4, <2>2, <3>1, <3>3, ReadStep
    <2>5. QED
        BY <2>3, <2>4
<1>6. CASE T = {}
    <2>1. Len(q) \in 0..Len(q)
        BY <1>1
    <2>2. QED
        BY <1>3, <1>6, <2>1
<1>7. QED
    BY <1>5, <1>6
-----------------------------------------------------------------------------
(* The inductive invariant, of a dictionary c, a table t, calls p whose transaction *)
(* has not run, keys u whose save raised, and n rows made so far. *)

Row == [id : Nat, subject : Subjects, version : Versions, value : SUBSET UNION Values, at : Nat]
KnownRows(c, t, p) == {c[i] : i \in DOMAIN c} \cup t \cup p

\* An id names one row for good, wherever it is held.
StoreRows(c, t, p, n) ==
    /\ c \in Seq(Row) /\ KeysOnce(c)
    /\ t \in SUBSET Row /\ IsFiniteSet(t)
    /\ p \in SUBSET Row
    /\ \A r \in KnownRows(c, t, p) : r.id <= n /\ r.at <= n
    /\ \A r, s \in KnownRows(c, t, p) : r.id = s.id => Name(r) = Name(s)

AfterTable == repository.cached = "after"

\* One call is under way for a subject, and what it writes is in the dictionary, unless
\* the table comes first.
Calls(c, p, u) ==
    /\ \A r, s \in p : r.subject = s.subject => r = s
    /\ ~AfterTable => \A r \in p : \E i \in DOMAIN c : c[i] = r
    /\ \A k \in u : \E i \in DOMAIN c : Key(c[i]) = k

\* Two rows agree on what a table has columns for.
Like(a, b) == Key(a) = Key(b) /\ Name(a) = Name(b) /\ Kept(a.value) = Kept(b.value) /\ a.at = b.at
Open(p, u) == u \cup {Key(r) : r \in p}

\* A key once in the table, and the same row of it in both, if its last save returned.
Bag == repository.key # "subject" /\ repository.stored # "first"
Agreed(c, t, p, u) == Bag =>
    /\ \A r, s \in t : Key(r) = Key(s) => r = s
    /\ \A r \in t : Key(r) \notin Open(p, u) => \E i \in DOMAIN c : Like(c[i], r)
    /\ \A i \in DOMAIN c : Key(c[i]) \notin Open(p, u) => \E r \in t : Like(c[i], r)

\* The resolved fields: the table keeps every version, the dictionary the newest.
Newest(c, t, p) == AfterTable =>
    /\ \A i \in DOMAIN c : \E r \in t :
          Like(c[i], r) /\ \A s \in t : s.subject = r.subject => s.at <= r.at
    /\ \A r \in t : \E i \in DOMAIN c : c[i].subject = r.subject
    /\ \A s \in p, r \in t : s.subject = r.subject => r.at < s.at

\* What is read back in an order is in that order.
Ordered(c) == repository.sorted /\ ~AfterTable => InOrder(c)

StoreInvOf(c, t, p, u, n) ==
    StoreRows(c, t, p, n) /\ Calls(c, p, u) /\ Agreed(c, t, p, u) /\ Newest(c, t, p) /\ Ordered(c)
StoreInv ==
    /\ repository \in Repositories
    /\ used \in [saves : Nat, faults : Nat, restarts : Nat]
    /\ StoreInvOf(cache, table, pending, unsaved, used.saves)

\* A behaviour is about one repository.
LEMMA SameRepository ==
    ASSUME repository \in Repositories, UNCHANGED repository,
           used' \in [saves : Nat, faults : Nat, restarts : Nat],
           StoreInvOf(cache', table', pending', unsaved', used'.saves)
    PROVE  StoreInv'
<1>1. repository' \in Repositories'
    BY DEF Repositories
<1>2. StoreRows(cache, table, pending, used.saves)'
    BY DEF StoreInvOf, StoreRows, KeysOnce, Key, Name, KnownRows, Row
<1>3. Calls(cache, pending, unsaved)'
    BY DEF StoreInvOf, Calls, AfterTable, Key, Name
<1>4. Agreed(cache, table, pending, unsaved)'
    <2>1. Open(pending, unsaved)' = Open(pending', unsaved')
        BY DEF Open, Key, Name
    <2> DEFINE open == Open(pending', unsaved')
    <2> HIDE DEF open
    <2>2. Agreed(cache', table', pending', unsaved') <=>
            (Bag =>
              /\ \A r, s \in table' : Key(r) = Key(s) => r = s
              /\ \A r \in table' : Key(r) \notin open => \E i \in DOMAIN cache' : Like(cache'[i], r)
              /\ \A i \in DOMAIN cache' : Key(cache'[i]) \notin open => \E r \in table' : Like(cache'[i], r))
        BY DEF Agreed, open
    <2>3. UNCHANGED Bag /\ (\A r : Key(r)' = Key(r)) /\ (\A r, s : Like(r, s)' = Like(r, s))
        BY DEF Bag, Like, Key, Name, Kept
    <2>4. QED
        BY <2>1, <2>2, <2>3 DEF StoreInvOf, Agreed, open
<1>5. Newest(cache, table, pending)'
    BY DEF StoreInvOf, Newest, AfterTable, Like, Key, Name, Kept
<1>6. Ordered(cache)'
    BY DEF StoreInvOf, Ordered, AfterTable, InOrder
<1>7. QED
    BY <1>1, <1>2, <1>3, <1>4, <1>5, <1>6 DEF StoreInv, StoreInvOf

LEMMA SubjectOfKey ==
    ASSUME repository \in Repositories, NEW r, NEW s, r.id = s.id => Name(r) = Name(s), Key(r) = Key(s)
    PROVE  r.subject = s.subject
BY RepositoryKinds DEF Kind, Key, Name

\* The row made of an object agrees with it, and so does what is rebuilt from a row.
LEMMA KeptFacts ==
    ASSUME NEW x
    PROVE  /\ Kept(x) \subseteq x /\ Kept(Kept(x)) = Kept(x)
           /\ \A m \in SUBSET Elsewhere : Kept(x \cup m) = Kept(x)
<1>1. CASE repository.rest = "none"
    BY <1>1 DEF Kept, Elsewhere
<1>2. CASE repository.rest # "none"
    BY <1>2 DEF Kept, Elsewhere
<1>3. QED
    BY <1>1, <1>2

LEMMA RowOfLemma ==
    ASSUME NEW r \in Row
    PROVE  /\ RowOf(r) \in Row /\ RowOf(r).id = r.id /\ Name(RowOf(r)) = Name(r) /\ Like(r, RowOf(r))
<1>1. Kept(r.value) \subseteq r.value /\ Kept(Kept(r.value)) = Kept(r.value)
    BY KeptFacts
<1>2. Kept(r.value) \in SUBSET UNION Values
    BY <1>1 DEF Row
<1>3. /\ RowOf(r) \in Row /\ RowOf(r).id = r.id /\ RowOf(r).subject = r.subject
      /\ RowOf(r).version = r.version /\ RowOf(r).at = r.at /\ RowOf(r).value = Kept(r.value)
    BY <1>2 DEF RowOf, Row
<1>4. QED
    BY <1>1, <1>3 DEF Name, Key, Like

LEMMA RebuiltLemma ==
    ASSUME NEW d \in Seq(Row), NEW c \in Rebuilt(d)
    PROVE  /\ c \in Seq(Row) /\ DOMAIN c = DOMAIN d
           /\ \A i \in DOMAIN c : Like(c[i], d[i]) /\ c[i].id = d[i].id /\ c[i].at = d[i].at
<1>1. PICK more \in [DOMAIN d -> SUBSET Elsewhere] :
           c = [i \in DOMAIN d |-> [d[i] EXCEPT !.value = @ \cup more[i]]]
    BY DEF Rebuilt
<1>2. ASSUME NEW i \in DOMAIN d
      PROVE  /\ c[i] \in Row /\ Like(c[i], d[i]) /\ c[i].id = d[i].id /\ c[i].at = d[i].at
    <2>1. d[i] \in Row
        BY ElementOfSeq
    <2>2. more[i] \in SUBSET Elsewhere /\ more[i] \in SUBSET UNION Values
        BY <1>1 DEF Elsewhere
    <2>3. Kept(d[i].value \cup more[i]) = Kept(d[i].value)
        BY <2>2, KeptFacts
    <2>4. c[i] = [d[i] EXCEPT !.value = @ \cup more[i]]
        BY <1>1
    <2>5. /\ c[i] \in Row /\ c[i].id = d[i].id /\ c[i].subject = d[i].subject
          /\ c[i].version = d[i].version /\ c[i].at = d[i].at /\ c[i].value = d[i].value \cup more[i]
        BY <2>1, <2>2, <2>4 DEF Row
    <2>6. QED
        BY <2>3, <2>5 DEF Name, Key, Like
<1>3. c \in [1..Len(d) -> Row] /\ DOMAIN d = 1..Len(d) /\ Len(d) \in Nat
    BY <1>1, <1>2, LenProperties
<1>4. c \in Seq(Row)
    BY <1>3, IsASeq
<1>5. QED
    BY <1>1, <1>2, <1>4

\* Reading makes of each key the newest row, and the rows themselves, in their order,
\* when each has a key of its own.
LEMMA ReadTableLemma ==
    ASSUME table \in SUBSET Row, IsFiniteSet(table), NEW c,
           NEW q \in SetToSeqs(table), c = Read(q), repository.sorted => InOrder(q)
    PROVE  /\ c \in Seq(Row) /\ KeysOnce(c)
           /\ \A i \in DOMAIN c :
                 /\ c[i] \in table
                 /\ repository.sorted => \A r \in table : Key(r) = Key(c[i]) => r.at <= c[i].at
           /\ \A r \in table : \E i \in DOMAIN c : Key(c[i]) = Key(r)
           /\ (\A r, s \in table : Key(r) = Key(s) => r = s) /\ repository.sorted => InOrder(c)
           /\ repository.sorted => \A r, s \in table : r.at = s.at => r = s
<1>1. c = Read(q) /\ (repository.sorted => InOrder(q))
    OBVIOUS
<1> DEFINE N == Cardinality(table)
<1>2. N \in Nat
    BY FS_CardinalityType
<1>3. q \in [1..N -> table] /\ \A i, j \in 1..N : i # j => q[i] # q[j]
    BY DEF SetToSeqs
<1> HIDE DEF N
<1>4. q \in Seq(Row) /\ Len(q) = N /\ DOMAIN q = 1..N
    <2>1. q \in [1..N -> Row]
        BY <1>3
    <2>2. q \in Seq(Row)
        BY <1>2, <2>1, IsASeq
    <2>3. QED
        BY <1>2, <1>3, <2>2, LenProperties
<1>5. \A r \in table : \E n \in 1..N : q[n] = r
    <2>1. q \in Injection(1..N, table)
        <3>1. \A i, j \in 1..N : q[i] = q[j] => i = j
            BY <1>3
        <3>2. QED
            BY <1>3, <3>1 DEF Injection, IsInjective
    <2>2. Cardinality(1..N) = Cardinality(table)
        BY <1>2, FS_Interval DEF N
    <2>3. q \in Surjection(1..N, table)
        BY <2>1, <2>2, FS_Injection
    <2>4. QED
        BY <2>3 DEF Surjection
<1>6. c \in Seq(Row) /\ KeysOnce(c) /\ ReadSoFar(q, N, c)
    BY <1>1, <1>4, ReadLemma
<1>7. \A r \in table : \E i \in DOMAIN c : Key(c[i]) = Key(r)
    <2>1. \A n \in 1..N : \E i \in DOMAIN c : Key(c[i]) = Key(q[n])
        BY <1>6 DEF ReadSoFar
    <2>2. QED
        BY <1>5, <2>1
<1>8. ASSUME NEW i \in DOMAIN c
      PROVE  /\ c[i] \in table
             /\ repository.sorted => \A r \in table : Key(r) = Key(c[i]) => r.at <= c[i].at
    <2>1. PICK n \in 1..N : c[i] = q[n] /\ \A l \in 1..N : l > n => Key(q[l]) # Key(q[n])
        BY <1>6 DEF ReadSoFar
    <2>2. q[n] \in table /\ q[n].at \in Nat
        BY <1>3 DEF Row
    <2>3. ASSUME repository.sorted, NEW r \in table, Key(r) = Key(c[i]) PROVE r.at <= c[i].at
        <3>1. PICK l \in 1..N : q[l] = r
            BY <1>5
        <3>2. ~(l > n)
            BY <2>1, <2>3, <3>1
        <3>3. l = n \/ l < n
            BY <1>2, <3>2
        <3>4. r.at \in Nat
            BY DEF Row
        <3>5. l < n => q[l].at < q[n].at
            BY <1>1, <1>4, <2>3 DEF InOrder
        <3>6. QED
            BY <2>1, <2>2, <3>1, <3>3, <3>4, <3>5
    <2>4. QED
        BY <2>1, <2>2, <2>3
<1>9. ASSUME \A r, s \in table : Key(r) = Key(s) => r = s, repository.sorted PROVE InOrder(c)
    <2>1. \A l, n \in 1..N : Key(q[l]) = Key(q[n]) => l = n
        <3>1. \A l \in 1..N : q[l] \in table
            BY <1>3
        <3>2. QED
            BY <1>3, <1>9, <3>1
    <2>2. Len(c) = N /\ \A i \in 1..N : c[i] = q[i]
        BY <1>6, <2>1 DEF ReadSoFar
    <2>3. DOMAIN c = 1..N
        BY <1>6, <2>2, LenProperties
    <2>4. QED
        BY <1>1, <1>4, <1>9, <2>2, <2>3 DEF InOrder
<1>10. ASSUME repository.sorted, NEW r \in table, NEW s \in table, r.at = s.at PROVE r = s
    <2>1. PICK l \in 1..N, n \in 1..N : q[l] = r /\ q[n] = s
        BY <1>5
    <2>2. r.at \in Nat
        BY DEF Row
    <2>3. ~(l < n) /\ ~(n < l)
        BY <1>1, <1>4, <1>10, <2>1, <2>2 DEF InOrder
    <2>4. l = n
        BY <1>2, <2>3
    <2>5. QED
        BY <2>1, <2>4
<1>11. QED
    BY <1>6, <1>7, <1>8, <1>9, <1>10

\* A start reads of each key what the newest row has of it, in the order of the rows
\* when each has a key of its own.
LEMMA HydratedLemma ==
    ASSUME table \in SUBSET Row, IsFiniteSet(table), NEW c \in Hydrated
    PROVE  /\ c \in Seq(Row) /\ KeysOnce(c)
           /\ \A i \in DOMAIN c :
                 /\ \E r \in table : Like(c[i], r) /\ c[i].id = r.id
                 /\ repository.sorted => \A r \in table : Key(r) = Key(c[i]) => r.at <= c[i].at
           /\ \A r \in table : \E i \in DOMAIN c : Key(c[i]) = Key(r)
           /\ (\A r, s \in table : Key(r) = Key(s) => r = s) /\ repository.sorted => InOrder(c)
           /\ repository.sorted => \A r, s \in table : r.at = s.at => r = s
<1>1. PICK q \in SetToSeqs(table) : c \in Rebuilt(Read(q)) /\ (repository.sorted => InOrder(q))
    BY DEF Hydrated
<1> DEFINE d == Read(q)
<1>2. c \in Rebuilt(d) /\ d = Read(q)
    BY <1>1
<1> HIDE DEF d
<1>3. /\ d \in Seq(Row) /\ KeysOnce(d)
      /\ \A i \in DOMAIN d :
            /\ d[i] \in table
            /\ repository.sorted => \A r \in table : Key(r) = Key(d[i]) => r.at <= d[i].at
      /\ \A r \in table : \E i \in DOMAIN d : Key(d[i]) = Key(r)
      /\ (\A r, s \in table : Key(r) = Key(s) => r = s) /\ repository.sorted => InOrder(d)
      /\ repository.sorted => \A r, s \in table : r.at = s.at => r = s
    BY <1>1, <1>2, ReadTableLemma
<1>4. /\ c \in Seq(Row) /\ DOMAIN c = DOMAIN d
      /\ \A i \in DOMAIN c : Like(c[i], d[i]) /\ c[i].id = d[i].id /\ c[i].at = d[i].at
    BY <1>2, <1>3, RebuiltLemma
<1>5. \A i \in DOMAIN c : Key(c[i]) = Key(d[i])
    BY <1>4 DEF Like
<1>6. KeysOnce(c)
    BY <1>3, <1>4, <1>5 DEF KeysOnce
<1>7. InOrder(d) => InOrder(c)
    BY <1>4 DEF InOrder
<1>8. \A r \in table : \E i \in DOMAIN c : Key(c[i]) = Key(r)
    BY <1>3, <1>4, <1>5
<1>9. \A i \in DOMAIN c :
         /\ \E r \in table : Like(c[i], r) /\ c[i].id = r.id
         /\ repository.sorted => \A r \in table : Key(r) = Key(c[i]) => r.at <= c[i].at
    BY <1>3, <1>4, <1>5
<1>10. QED
    BY <1>3, <1>4, <1>6, <1>7, <1>8, <1>9
-----------------------------------------------------------------------------
(* The steps. *)

LEMMA StoreInitLemma == StoreInit => StoreInv
<1> SUFFICES ASSUME StoreInit PROVE StoreInv
    OBVIOUS
<1>1. /\ repository \in Repositories /\ cache = <<>> /\ table = {} /\ pending = {} /\ unsaved = {}
      /\ used = [saves |-> 0, faults |-> 0, restarts |-> 0]
    BY DEF StoreInit
<1>2. cache \in Seq(Row) /\ DOMAIN cache = {}
    BY <1>1
<1>3. IsFiniteSet(table)
    BY <1>1, FS_EmptySet
<1>4. StoreRows(cache, table, pending, used.saves)
    BY <1>1, <1>2, <1>3 DEF StoreRows, KeysOnce, KnownRows
<1>5. Calls(cache, pending, unsaved) /\ Agreed(cache, table, pending, unsaved)
      /\ Newest(cache, table, pending) /\ Ordered(cache)
    BY <1>1, <1>2 DEF Calls, Agreed, Newest, Ordered, InOrder
<1>6. used \in [saves : Nat, faults : Nat, restarts : Nat]
    BY <1>1
<1>7. QED
    BY <1>1, <1>4, <1>5, <1>6 DEF StoreInv, StoreInvOf

\* The dictionary's half of a save.
LEMMA BeginLemma ==
    ASSUME StoreInv, NEW r \in Row, Begin(r),
           r.id <= used.saves + 1, r.at <= used.saves + 1,
           \A s \in KnownRows(cache, table, pending) : s.id = r.id => Name(s) = Name(r),
           AfterTable => r.at = used.saves + 1,
           repository.sorted /\ ~AfterTable =>
              \/ r.at = used.saves + 1 /\ \A i \in DOMAIN cache : cache[i].id # r.id
              \/ \E i \in DOMAIN cache : cache[i].id = r.id /\ cache[i].at = r.at
    PROVE  StoreInv'
<1> DEFINE c == IF AfterTable THEN cache ELSE Put(cache, r)
           p == pending \cup {r}
           n == used.saves + 1
<1>1. /\ repository \in Repositories /\ used \in [saves : Nat, faults : Nat, restarts : Nat]
      /\ StoreRows(cache, table, pending, used.saves) /\ Calls(cache, pending, unsaved)
      /\ Agreed(cache, table, pending, unsaved) /\ Newest(cache, table, pending) /\ Ordered(cache)
    BY DEF StoreInv, StoreInvOf
<1>2. /\ cache' = c /\ pending' = p /\ UNCHANGED <<repository, table, unsaved>>
      /\ used' = [used EXCEPT !.saves = @ + 1]
      /\ \A q \in pending : q.subject # r.subject
    BY DEF Begin, AfterTable
<1>3. used' \in [saves : Nat, faults : Nat, restarts : Nat] /\ used'.saves = n /\ n \in Nat
      /\ used.saves \in Nat /\ used.saves < n
    BY <1>1, <1>2
<1>4. Kind(repository)
    BY <1>1, RepositoryKinds
<1>5. cache \in Seq(Row) /\ KeysOnce(cache) /\ DOMAIN cache = 1..Len(cache)
    BY <1>1, LenProperties DEF StoreRows
<1>6. ~AfterTable => c \in Seq(Row) /\ KeysOnce(c) /\ PutDoes(cache, r, c)
    BY <1>5, PutLemma
<1>7. AfterTable => c = cache
    OBVIOUS
<1> HIDE DEF c, p, n
<1>8. c \in Seq(Row) /\ KeysOnce(c)
    BY <1>5, <1>6, <1>7
<1>9. \A i \in DOMAIN c : c[i] = r \/ (i \in DOMAIN cache /\ c[i] = cache[i])
    BY <1>6, <1>7 DEF PutDoes
<1>10. \A s \in p : s = r \/ s \in pending
    BY DEF p
<1>11. \A s \in KnownRows(c, table, p) : s = r \/ s \in KnownRows(cache, table, pending)
    BY <1>9, <1>10 DEF KnownRows
<1>12. StoreRows(c, table, p, n)
    <2>1. \A s \in KnownRows(c, table, p) : s.id <= n /\ s.at <= n
        <3> SUFFICES ASSUME NEW s \in KnownRows(c, table, p) PROVE s.id <= n /\ s.at <= n
            OBVIOUS
        <3>1. CASE s = r
            BY <3>1 DEF n
        <3>2. CASE s \in KnownRows(cache, table, pending)
            <4>1. s \in Row
                BY <1>1, <3>2, ElementOfSeq DEF StoreRows, KnownRows
            <4>2. s.id <= used.saves /\ s.at <= used.saves /\ s.id \in Nat /\ s.at \in Nat
                BY <1>1, <3>2, <4>1 DEF StoreRows, Row
            <4>3. QED
                BY <1>3, <4>2
        <3>3. QED
            BY <1>11, <3>1, <3>2
    <2>2. \A s, v \in KnownRows(c, table, p) : s.id = v.id => Name(s) = Name(v)
        BY <1>1, <1>11 DEF StoreRows
    <2>3. p \in SUBSET Row
        BY <1>1 DEF StoreRows, p
    <2>4. QED
        BY <1>1, <1>8, <2>1, <2>2, <2>3 DEF StoreRows
<1>13. Calls(c, p, unsaved)
    <2>1. \A s, v \in p : s.subject = v.subject => s = v
        BY <1>1, <1>2, <1>10 DEF Calls
    <2>2. ASSUME ~AfterTable, NEW s \in p PROVE \E i \in DOMAIN c : c[i] = s
        <3>1. CASE s = r
            BY <1>6, <2>2, <3>1 DEF PutDoes
        <3>2. CASE s \in pending
            <4>1. PICK i \in DOMAIN cache : cache[i] = s
                BY <1>1, <2>2, <3>2 DEF Calls
            <4>2. s.subject # r.subject
                BY <1>2, <3>2
            <4>3. s.id = r.id => Name(s) = Name(r)
                BY <3>2 DEF KnownRows
            <4>4. Key(s) # Key(r)
                BY <1>1, <4>2, <4>3, SubjectOfKey
            <4>5. QED
                BY <1>6, <2>2, <4>1, <4>4 DEF PutDoes
        <3>3. QED
            BY <1>10, <3>1, <3>2
    <2>3. ASSUME NEW k \in unsaved PROVE \E i \in DOMAIN c : Key(c[i]) = k
        <3>1. PICK i \in DOMAIN cache : Key(cache[i]) = k
            BY <1>1 DEF Calls
        <3>2. QED
            BY <1>6, <1>7, <3>1 DEF PutDoes
    <2>4. QED
        BY <2>1, <2>2, <2>3 DEF Calls
<1>14. Agreed(c, table, p, unsaved)
    <2> SUFFICES ASSUME Bag
                 PROVE  /\ \A s, v \in table : Key(s) = Key(v) => s = v
                        /\ \A s \in table : Key(s) \notin Open(p, unsaved) => \E i \in DOMAIN c : Like(c[i], s)
                        /\ \A i \in DOMAIN c : Key(c[i]) \notin Open(p, unsaved) => \E s \in table : Like(c[i], s)
        BY DEF Agreed
    <2>1. /\ \A s, v \in table : Key(s) = Key(v) => s = v
          /\ \A s \in table : Key(s) \notin Open(pending, unsaved) => \E i \in DOMAIN cache : Like(cache[i], s)
          /\ \A i \in DOMAIN cache : Key(cache[i]) \notin Open(pending, unsaved) =>
                \E s \in table : Like(cache[i], s)
        BY <1>1 DEF Agreed
    <2>2. \A k : k \notin Open(p, unsaved) => k \notin Open(pending, unsaved) /\ k # Key(r)
        BY DEF Open, p
    <2>3. ~AfterTable
        BY <1>4 DEF Kind, Bag, AfterTable
    <2>4. ASSUME NEW s \in table, Key(s) \notin Open(p, unsaved) PROVE \E i \in DOMAIN c : Like(c[i], s)
        <3>1. PICK i \in DOMAIN cache : Like(cache[i], s)
            BY <2>1, <2>2, <2>4
        <3>2. Key(cache[i]) # Key(r)
            BY <2>2, <2>4, <3>1 DEF Like
        <3>3. i \in DOMAIN c /\ c[i] = cache[i]
            BY <1>6, <2>3, <3>2 DEF PutDoes
        <3>4. QED
            BY <3>1, <3>3
    <2>5. ASSUME NEW i \in DOMAIN c, Key(c[i]) \notin Open(p, unsaved) PROVE \E s \in table : Like(c[i], s)
        <3>1. c[i] # r
            BY <2>2, <2>5
        <3>2. i \in DOMAIN cache /\ c[i] = cache[i]
            BY <1>9, <3>1
        <3>3. QED
            BY <2>1, <2>2, <2>5, <3>2
    <2>6. QED
        BY <2>1, <2>4, <2>5
<1>15. Newest(c, table, p)
    <2> SUFFICES ASSUME AfterTable
                 PROVE  /\ \A i \in DOMAIN c : \E s \in table :
                              Like(c[i], s) /\ \A v \in table : v.subject = s.subject => v.at <= s.at
                        /\ \A s \in table : \E i \in DOMAIN c : c[i].subject = s.subject
                        /\ \A v \in p, s \in table : v.subject = s.subject => s.at < v.at
        BY DEF Newest
    <2>1. \A s \in table : s.at \in Nat /\ s.at <= used.saves
        BY <1>1 DEF StoreRows, KnownRows, Row
    <2>2. \A s \in table : s.at < r.at
        BY <1>3, <2>1 DEF n
    <2>3. QED
        BY <1>1, <1>7, <1>10, <2>2 DEF Newest
<1>16. Ordered(c)
    <2> SUFFICES ASSUME repository.sorted, ~AfterTable PROVE InOrder(c)
        BY DEF Ordered
    <2>1. repository.key = "id"
        BY <1>4 DEF Kind, AfterTable
    <2>2. \A s : Key(s) = s.id
        BY <2>1 DEF Key
    <2>3. InOrder(cache)
        BY <1>1 DEF Ordered
    <2>4. \A i \in DOMAIN cache : cache[i].at \in Nat /\ cache[i].at <= used.saves
        <3>1. \A i \in DOMAIN cache : cache[i] \in Row
            BY <1>5, ElementOfSeq
        <3>2. QED
            BY <1>1, <3>1 DEF StoreRows, KnownRows, Row
    <2>5. CASE r.at = used.saves + 1 /\ \A i \in DOMAIN cache : cache[i].id # r.id
        <3>1. c = Append(cache, r)
            BY <1>6, <2>2, <2>5 DEF PutDoes
        <3>2. /\ Len(c) = Len(cache) + 1 /\ Len(cache) \in Nat
              /\ \A i \in 1..Len(cache) : c[i] = cache[i]
              /\ c[Len(cache) + 1] = r
            BY <1>5, <3>1, AppendProperties, LenProperties
        <3>3. DOMAIN c = 1..(Len(cache) + 1)
            BY <1>8, <3>2, LenProperties
        <3>4. ASSUME NEW i \in DOMAIN c, NEW j \in DOMAIN c, i < j PROVE c[i].at < c[j].at
            <4>1. i \in DOMAIN cache /\ c[i] = cache[i]
                BY <1>5, <3>2, <3>3, <3>4
            <4>2. CASE j \in DOMAIN cache
                BY <1>5, <2>3, <3>2, <3>4, <4>1, <4>2 DEF InOrder
            <4>3. CASE j = Len(cache) + 1
                BY <1>3, <2>4, <2>5, <3>2, <4>1, <4>3
            <4>4. QED
                BY <1>5, <3>2, <3>3, <4>2, <4>3
        <3>5. QED
            BY <3>4 DEF InOrder
    <2>6. CASE \E i \in DOMAIN cache : cache[i].id = r.id /\ cache[i].at = r.at
        <3>1. PICK k \in DOMAIN cache : cache[k].id = r.id /\ cache[k].at = r.at
            BY <2>6
        <3>2. \A i \in DOMAIN cache : i \in DOMAIN c /\ c[i] = IF cache[i].id = r.id THEN r ELSE cache[i]
            BY <1>6, <2>2 DEF PutDoes
        <3>3. \A i \in DOMAIN cache : cache[i].id = r.id => i = k
            BY <1>5, <2>2, <3>1 DEF KeysOnce
        <3>4. \A i \in DOMAIN cache : i \in DOMAIN c /\ c[i].at = cache[i].at
            BY <3>1, <3>2, <3>3
        <3>5. \A i \in DOMAIN c : i \in DOMAIN cache
            <4> SUFFICES ASSUME NEW i \in DOMAIN c PROVE i \in DOMAIN cache
                OBVIOUS
            <4>1. CASE c[i] = r
                <5>1. c[k] = r
                    BY <3>1, <3>2
                <5>2. i = k
                    BY <1>8, <3>4, <4>1, <5>1 DEF KeysOnce
                <5>3. QED
                    BY <5>2
            <4>2. QED
                BY <1>9, <4>1
        <3>6. QED
            BY <2>3, <3>4, <3>5 DEF InOrder
    <2>7. QED
        BY <2>5, <2>6
<1>17. QED
    BY <1>1, <1>2, <1>3, <1>12, <1>13, <1>14, <1>15, <1>16, SameRepository DEF StoreInvOf
LEMMA FirstTwin ==
    ASSUME cache \in Seq(Row), NEW r, Twins(r) # {}
    PROVE  Min(Twins(r)) \in DOMAIN cache /\ Name(cache[Min(Twins(r))]) = Name(r)
<1>1. Twins(r) \in SUBSET Nat
    BY LenProperties DEF Twins
<1>2. \E n \in Twins(r) : \A m \in Twins(r) : n <= m
    BY <1>1, LeastOf
<1>3. Min(Twins(r)) \in Twins(r)
    BY <1>2 DEF Min
<1>4. QED
    BY <1>3 DEF Twins

\* A new row, or what the dictionary makes of it and its twin.
LEMMA SaveNewLemma ==
    ASSUME StoreInv, NEW s \in Subjects, NEW v \in Versions, NEW x \in Values, SaveNew(s, v, x)
    PROVE  StoreInv'
<1> DEFINE n == used.saves + 1
           made == [id |-> n, subject |-> s, version |-> v, value |-> x, at |-> n]
           r == Saved(made)
           twin == cache[Min(Twins(made))]
<1>1. /\ repository \in Repositories /\ used.saves \in Nat
      /\ StoreRows(cache, table, pending, used.saves)
    BY DEF StoreInv, StoreInvOf
<1>2. Begin(r)
    BY DEF SaveNew
<1>3. Kind(repository)
    BY <1>1, RepositoryKinds
<1>4. made \in Row /\ Name(made) = <<s, v>>
    BY <1>1 DEF Row, Name
<1>5. ASSUME NEW q \in KnownRows(cache, table, pending)
      PROVE  q \in Row /\ q.id \in Nat /\ q.at \in Nat /\ q.id < n /\ q.at < n
    <2>1. q \in Row
        BY <1>1, ElementOfSeq DEF StoreRows, KnownRows
    <2>2. q.id <= used.saves /\ q.at <= used.saves
        BY <1>1 DEF StoreRows
    <2>3. QED
        BY <1>1, <2>1, <2>2 DEF Row
<1>6. made.id = n /\ made.at = n
    OBVIOUS
<1> HIDE DEF made
<1>7. CASE Twins(made) = {} \/ repository.cached \notin {"once", "immutable", "same id", "join"}
    <2>1. r = made
        BY <1>7 DEF Saved
    <2>2. \A q \in KnownRows(cache, table, pending) : q.id # made.id
        BY <1>1, <1>5, <1>6
    <2>3. \A i \in DOMAIN cache : cache[i].id # made.id
        BY <2>2 DEF KnownRows
    <2>4. made.id <= n /\ made.at <= n
        BY <1>1, <1>6
    <2>5. QED
        BY <1>2, <1>4, <1>6, <2>1, <2>2, <2>3, <2>4, BeginLemma
<1>8. CASE Twins(made) # {} /\ repository.cached \in {"once", "immutable", "same id", "join"}
    <2>1. Min(Twins(made)) \in DOMAIN cache /\ Name(twin) = Name(made)
        BY <1>1, <1>8, FirstTwin DEF StoreRows
    <2>2. twin \in KnownRows(cache, table, pending)
        BY <2>1 DEF KnownRows
    <2> HIDE DEF twin
    <2>3. twin \in Row /\ twin.id < n /\ twin.at < n /\ twin.id \in Nat /\ twin.at \in Nat
        BY <1>5, <2>2
    <2>4. \/ r = twin
          \/ repository.cached = "same id" /\ r = [made EXCEPT !.id = twin.id]
          \/ repository.cached = "join" /\ r = [twin EXCEPT !.value = @ \cup made.value]
        BY <1>8 DEF Saved, Once, SameId, Joined, twin
    <2> HIDE DEF r
    <2>5. r \in Row
        BY <1>4, <2>3, <2>4 DEF Row
    <2>6. r.id = twin.id /\ Name(r) = Name(made) /\ (r.at = twin.at \/ r.at = made.at)
        BY <1>4, <2>1, <2>3, <2>4 DEF Name, Row
    <2>7. \A q \in KnownRows(cache, table, pending) : q.id = r.id => Name(q) = Name(r)
        BY <1>1, <2>1, <2>2, <2>6 DEF StoreRows
    <2>8. ~AfterTable
        BY <1>8 DEF AfterTable
    <2>9. repository.sorted => r = twin
        BY <1>3, <1>8, <2>4, <2>8 DEF Kind, AfterTable
    <2>10. r.id <= n /\ r.at <= n
        BY <1>1, <1>6, <2>3, <2>6
    <2>11. \E i \in DOMAIN cache : cache[i] = twin
        BY <2>1 DEF twin
    <2>12. QED
        BY <1>2, <2>5, <2>7, <2>8, <2>9, <2>10, <2>11, BeginLemma DEF r
<1>9. QED
    BY <1>7, <1>8

\* A row the dictionary has, with another value.
LEMMA SaveAgainLemma ==
    ASSUME StoreInv, NEW i \in DOMAIN cache, NEW x \in Values, SaveAgain(i, x)
    PROVE  StoreInv'
<1> DEFINE r == [cache[i] EXCEPT !.value = x]
<1>1. /\ repository \in Repositories /\ used.saves \in Nat
      /\ StoreRows(cache, table, pending, used.saves)
    BY DEF StoreInv, StoreInvOf
<1>2. Begin(r) /\ repository.key = "id"
    BY DEF SaveAgain
<1>3. Kind(repository)
    BY <1>1, RepositoryKinds
<1>4. cache[i] \in Row /\ cache[i] \in KnownRows(cache, table, pending)
    BY <1>1, ElementOfSeq, LenProperties DEF StoreRows, KnownRows
<1>5. r \in Row /\ r.id = cache[i].id /\ r.at = cache[i].at /\ Name(r) = Name(cache[i])
    BY <1>4 DEF Row, Name
<1>6. r.id <= used.saves + 1 /\ r.at <= used.saves + 1
    <2>1. r.id <= used.saves /\ r.at <= used.saves /\ r.id \in Nat /\ r.at \in Nat
        BY <1>1, <1>4, <1>5 DEF StoreRows, Row
    <2>2. QED
        BY <1>1, <2>1
<1>7. \A q \in KnownRows(cache, table, pending) : q.id = r.id => Name(q) = Name(r)
    BY <1>1, <1>4, <1>5 DEF StoreRows
<1>8. ~AfterTable
    BY <1>2, <1>3 DEF Kind, AfterTable
<1> HIDE DEF r
<1>9. QED
    BY <1>2, <1>5, <1>6, <1>7, <1>8, BeginLemma

\* The rows a transaction leaves in the table.
LEMMA TableLemma ==
    ASSUME repository \in Repositories, table \in SUBSET Row, IsFiniteSet(table), NEW r \in Row
    PROVE  /\ TableWith(r) \in SUBSET Row /\ IsFiniteSet(TableWith(r))
           /\ \A t \in TableWith(r) : t \in table \/ t = r \/ \E h \in table :
                 Name(h) = Name(r) /\ t = [r EXCEPT !.id = h.id]
           /\ repository.key = "id" /\ repository.stored # "first" =>
                 TableWith(r) = {t \in table : t.id # r.id} \cup {r}
           /\ repository.key # "id" => \E h \in Row :
                 /\ TableWith(r) = {t \in table : Name(t) # Name(r)} \cup {h}
                 /\ Name(h) = Name(r) /\ h.value = r.value /\ h.at = r.at
<1>1. Kind(repository)
    BY RepositoryKinds
<1>2. CASE repository.key # "id"
    <2> DEFINE h == IF Holders(r) = {} THEN r ELSE [r EXCEPT !.id = (CHOOSE t \in Holders(r) : TRUE).id]
    <2>1. TableWith(r) = (table \ Holders(r)) \cup {h}
        BY <1>1, <1>2 DEF Kind, TableWith, StoredByName
    <2>2. h = r \/ \E t \in table : Name(t) = Name(r) /\ h = [r EXCEPT !.id = t.id]
        <3>1. CASE Holders(r) = {}
            BY <3>1
        <3>2. CASE Holders(r) # {}
            <4> DEFINE t == CHOOSE t \in Holders(r) : TRUE
            <4>1. t \in Holders(r)
                BY <3>2
            <4> HIDE DEF t
            <4>2. t \in table /\ Name(t) = Name(r)
                BY <4>1 DEF Holders
            <4>3. h = [r EXCEPT !.id = t.id]
                BY <3>2 DEF t
            <4>4. QED
                BY <4>2, <4>3
        <3>3. QED
            BY <3>1, <3>2
    <2> HIDE DEF h
    <2>3. h \in Row /\ Name(h) = Name(r) /\ h.value = r.value /\ h.at = r.at
        BY <2>2 DEF Row, Name
    <2>4. table \ Holders(r) = {t \in table : Name(t) # Name(r)}
        BY DEF Holders
    <2>5. IsFiniteSet(TableWith(r))
        <3>1. IsFiniteSet(table \ Holders(r))
            BY FS_Difference
        <3>2. QED
            BY <2>1, <3>1, FS_AddElement
    <2>6. QED
        BY <1>2, <2>1, <2>2, <2>3, <2>4, <2>5
<1>3. CASE repository.key = "id" /\ repository.stored # "first"
    <2>1. TableWith(r) = {t \in table : t.id # r.id} \cup {r}
        BY <1>1, <1>3 DEF Kind, TableWith, StoredById
    <2>2. IsFiniteSet(TableWith(r))
        <3>1. IsFiniteSet({t \in table : t.id # r.id})
            BY FS_Subset
        <3>2. QED
            BY <2>1, <3>1, FS_AddElement
    <2>3. QED
        BY <1>3, <2>1, <2>2
<1>4. CASE repository.stored = "first"
    <2>1. TableWith(r) = table \/ TableWith(r) = table \cup {r}
        BY <1>4 DEF TableWith, StoredFirst
    <2>2. IsFiniteSet(TableWith(r))
        BY <2>1, FS_AddElement
    <2>3. repository.key = "id"
        BY <1>1, <1>4 DEF Kind
    <2>4. QED
        BY <1>4, <2>1, <2>2, <2>3
<1>5. QED
    BY <1>2, <1>3, <1>4
\* The transaction of a save.
LEMMA CommitLemma == ASSUME StoreInv, NEW r \in pending, Commit(r) PROVE StoreInv'
<1> DEFINE c == IF AfterTable THEN Put(cache, r) ELSE cache
           w == RowOf(r)
           t == TableWith(w)
           p == pending \ {r}
           u == unsaved \ {Key(r)}
<1>1. /\ repository \in Repositories /\ used \in [saves : Nat, faults : Nat, restarts : Nat]
      /\ StoreRows(cache, table, pending, used.saves) /\ Calls(cache, pending, unsaved)
      /\ Agreed(cache, table, pending, unsaved) /\ Newest(cache, table, pending) /\ Ordered(cache)
    BY DEF StoreInv, StoreInvOf
<1>2. cache' = c /\ table' = t /\ pending' = p /\ unsaved' = u /\ UNCHANGED <<repository, used>>
    BY DEF Commit, AfterTable
<1>3. Kind(repository)
    BY <1>1, RepositoryKinds
<1>4. cache \in Seq(Row) /\ KeysOnce(cache) /\ r \in Row /\ table \in SUBSET Row /\ IsFiniteSet(table)
    BY <1>1 DEF StoreRows
<1>5. AfterTable => c \in Seq(Row) /\ KeysOnce(c) /\ PutDoes(cache, r, c)
    BY <1>4, PutLemma
<1>6. ~AfterTable => c = cache
    OBVIOUS
<1>18. w \in Row /\ w.id = r.id /\ Name(w) = Name(r) /\ Like(r, w)
    BY <1>4, RowOfLemma
<1> HIDE DEF w
<1>7. /\ t \in SUBSET Row /\ IsFiniteSet(t)
      /\ \A x \in t : x \in table \/ x = w \/ \E h \in table : Name(h) = Name(w) /\ x = [w EXCEPT !.id = h.id]
      /\ repository.key = "id" /\ repository.stored # "first" => t = {x \in table : x.id # w.id} \cup {w}
      /\ repository.key # "id" => \E h \in Row :
            t = {x \in table : Name(x) # Name(w)} \cup {h}
            /\ Name(h) = Name(w) /\ h.value = w.value /\ h.at = w.at
    BY <1>1, <1>4, <1>18, TableLemma
<1> HIDE DEF c, t
<1>8. \A i \in DOMAIN c : c[i] = r \/ (i \in DOMAIN cache /\ c[i] = cache[i])
    BY <1>5, <1>6 DEF PutDoes
<1>9. \A i \in DOMAIN cache : \E j \in DOMAIN c : Key(c[j]) = Key(cache[i])
    BY <1>5, <1>6 DEF PutDoes
<1>10. ASSUME NEW x \in KnownRows(c, t, p)
       PROVE  /\ \E k \in KnownRows(cache, table, pending) : k.id = x.id /\ Name(k) = Name(x)
              /\ \E k \in KnownRows(cache, table, pending) : k.at = x.at
    <2>1. r \in KnownRows(cache, table, pending)
        BY DEF KnownRows
    <2>2. CASE x \in KnownRows(cache, table, pending)
        BY <2>2
    <2>3. CASE x \in t /\ \E h \in table : Name(h) = Name(w) /\ x = [w EXCEPT !.id = h.id]
        <3>1. PICK h \in table : Name(h) = Name(w) /\ x = [w EXCEPT !.id = h.id]
            BY <2>3
        <3>2. x.id = h.id /\ Name(x) = Name(r) /\ x.at = r.at /\ Name(h) = Name(r)
            BY <1>18, <3>1 DEF Row, Name, Like
        <3>3. h \in KnownRows(cache, table, pending)
            BY DEF KnownRows
        <3>4. QED
            BY <2>1, <3>1, <3>2, <3>3
    <2>4. CASE x = w
        BY <1>18, <2>1, <2>4 DEF Like
    <2>5. QED
        BY <1>7, <1>8, <2>1, <2>2, <2>3, <2>4 DEF KnownRows
<1>11. StoreRows(c, t, p, used.saves)
    <2>1. \A k \in KnownRows(cache, table, pending) : k.id <= used.saves /\ k.at <= used.saves
        BY <1>1 DEF StoreRows
    <2>2. \A x \in KnownRows(c, t, p) : x.id <= used.saves /\ x.at <= used.saves
        BY <1>10, <2>1
    <2>3. \A k, l \in KnownRows(cache, table, pending) : k.id = l.id => Name(k) = Name(l)
        BY <1>1 DEF StoreRows
    <2>4. \A x, y \in KnownRows(c, t, p) : x.id = y.id => Name(x) = Name(y)
        BY <1>10, <2>3
    <2>5. c \in Seq(Row) /\ KeysOnce(c)
        BY <1>4, <1>5, <1>6
    <2>6. p \in SUBSET Row
        BY <1>1 DEF StoreRows
    <2>7. QED
        BY <1>7, <2>2, <2>4, <2>5, <2>6 DEF StoreRows
<1>12. \A s \in p : s \in pending /\ Key(s) # Key(r)
    <2> SUFFICES ASSUME NEW s \in p PROVE s \in pending /\ Key(s) # Key(r)
        OBVIOUS
    <2>1. s.subject # r.subject
        BY <1>1 DEF Calls
    <2>2. s.id = r.id => Name(s) = Name(r)
        BY <1>1 DEF StoreRows, KnownRows
    <2>3. QED
        BY <1>1, <2>1, <2>2, SubjectOfKey
<1>13. Calls(c, p, u)
    <2>1. ASSUME NEW k \in u PROVE \E i \in DOMAIN c : Key(c[i]) = k
        <3>1. PICK i \in DOMAIN cache : Key(cache[i]) = k
            BY <1>1 DEF Calls
        <3>2. QED
            BY <1>9, <3>1
    <2>2. QED
        BY <1>1, <1>6, <1>12, <2>1 DEF Calls
<1>14. Agreed(c, t, p, u)
    <2> SUFFICES ASSUME Bag
                 PROVE  /\ \A s, v \in t : Key(s) = Key(v) => s = v
                        /\ \A s \in t : Key(s) \notin Open(p, u) => \E i \in DOMAIN c : Like(c[i], s)
                        /\ \A i \in DOMAIN c : Key(c[i]) \notin Open(p, u) => \E s \in t : Like(c[i], s)
        BY DEF Agreed
    <2>1. /\ \A s, v \in table : Key(s) = Key(v) => s = v
          /\ \A s \in table : Key(s) \notin Open(pending, unsaved) => \E i \in DOMAIN cache : Like(cache[i], s)
          /\ \A i \in DOMAIN cache : Key(cache[i]) \notin Open(pending, unsaved) =>
                \E s \in table : Like(cache[i], s)
        BY <1>1 DEF Agreed
    <2>2. ~AfterTable /\ c = cache
        BY <1>3, <1>6 DEF Kind, Bag, AfterTable
    <2>3. \A k : k \notin Open(p, u) /\ k # Key(r) => k \notin Open(pending, unsaved)
        BY DEF Open
    <2>4. PICK h \in Row : t = {x \in table : Key(x) # Key(r)} \cup {h} /\ Like(r, h)
        <3>1. CASE repository.key = "id"
            <4>1. \A x : Key(x) = x.id
                BY <3>1 DEF Key
            <4>2. t = {x \in table : x.id # r.id} \cup {w}
                BY <1>7, <1>18, <3>1 DEF Bag
            <4>3. t = {x \in table : Key(x) # Key(r)} \cup {w} /\ Like(r, w)
                BY <1>18, <4>1, <4>2
            <4>4. QED
                BY <1>18, <4>3
        <3>2. CASE repository.key = "name"
            <4>1. \A x : Key(x) = Name(x)
                BY <3>2 DEF Key
            <4>2. PICK h \in Row : t = {x \in table : Name(x) # Name(r)} \cup {h}
                                   /\ Name(h) = Name(r) /\ h.value = w.value /\ h.at = w.at
                BY <1>7, <1>18, <3>2
            <4>3. t = {x \in table : Key(x) # Key(r)} \cup {h} /\ Like(r, h)
                BY <1>18, <4>1, <4>2 DEF Like
            <4>4. QED
                BY <4>3
        <3>3. QED
            BY <1>3, <3>1, <3>2 DEF Kind, Bag
    <2>5. PICK j \in DOMAIN cache : cache[j] = r
        BY <1>1, <2>2 DEF Calls
    <2>6. \A s, v \in t : Key(s) = Key(v) => s = v
        BY <2>1, <2>4 DEF Like
    <2>7. ASSUME NEW s \in t, Key(s) \notin Open(p, u) PROVE \E i \in DOMAIN c : Like(c[i], s)
        BY <2>1, <2>2, <2>3, <2>4, <2>5, <2>7
    <2>8. ASSUME NEW i \in DOMAIN c, Key(c[i]) \notin Open(p, u) PROVE \E s \in t : Like(c[i], s)
        <3>1. CASE Key(c[i]) = Key(r)
            <4>1. i = j
                BY <1>4, <2>2, <2>5, <3>1 DEF KeysOnce
            <4>2. QED
                BY <2>2, <2>4, <2>5, <4>1
        <3>2. CASE Key(c[i]) # Key(r)
            <4>1. PICK s \in table : Like(c[i], s)
                BY <2>1, <2>2, <2>3, <2>8, <3>2
            <4>2. s \in t
                BY <2>4, <3>2, <4>1 DEF Like
            <4>3. QED
                BY <4>1, <4>2
        <3>3. QED
            BY <3>1, <3>2
    <2>9. QED
        BY <2>6, <2>7, <2>8
<1>15. Newest(c, t, p)
    <2> SUFFICES ASSUME AfterTable
                 PROVE  /\ \A i \in DOMAIN c : \E s \in t :
                              Like(c[i], s) /\ \A v \in t : v.subject = s.subject => v.at <= s.at
                        /\ \A s \in t : \E i \in DOMAIN c : c[i].subject = s.subject
                        /\ \A v \in p, s \in t : v.subject = s.subject => s.at < v.at
        BY DEF Newest
    <2>1. /\ \A i \in DOMAIN cache : \E s \in table :
                Like(cache[i], s) /\ \A v \in table : v.subject = s.subject => v.at <= s.at
          /\ \A s \in table : \E i \in DOMAIN cache : cache[i].subject = s.subject
          /\ \A v \in pending, s \in table : v.subject = s.subject => s.at < v.at
        BY <1>1 DEF Newest
    <2>2. repository.key = "subject"
        BY <1>3 DEF Kind, AfterTable
    <2>3. \A x : Key(x) = x.subject
        BY <2>2 DEF Key
    <2>4. PICK h \in Row : t = {x \in table : Name(x) # Name(r)} \cup {h}
                           /\ Name(h) = Name(r) /\ h.value = w.value /\ h.at = r.at
        BY <1>7, <1>18, <2>2 DEF Like
    <2>5. h.subject = r.subject /\ Like(r, h)
        BY <1>18, <2>3, <2>4 DEF Like, Name
    <2>6. \A x : x.subject # r.subject => Name(x) # Name(r)
        BY DEF Name
    <2>7. PutDoes(cache, r, c)
        BY <1>5
    <2>8. \A x \in table : x.at \in Nat
        BY <1>4 DEF Row
    <2>9. r.at \in Nat
        BY <1>4 DEF Row
    <2>10. ASSUME NEW i \in DOMAIN c
           PROVE  \E s \in t : Like(c[i], s) /\ \A v \in t : v.subject = s.subject => v.at <= s.at
        <3>1. CASE c[i] = r
            <4>1. \A v \in t : v.subject = h.subject => v.at <= h.at
                BY <2>1, <2>4, <2>5, <2>8, <2>9
            <4>2. QED
                BY <2>4, <2>5, <3>1, <4>1
        <3>2. CASE i \in DOMAIN cache /\ c[i] = cache[i] /\ Key(cache[i]) # Key(r)
            <4>1. PICK s \in table : Like(cache[i], s) /\ \A v \in table : v.subject = s.subject => v.at <= s.at
                BY <2>1, <3>2
            <4>2. s.subject # r.subject
                BY <2>3, <3>2, <4>1 DEF Like
            <4>3. s \in t /\ \A v \in t : v.subject = s.subject => v \in table
                BY <2>4, <2>5, <2>6, <4>2
            <4>4. QED
                BY <3>2, <4>1, <4>3
        <3>3. QED
            BY <2>7, <3>1, <3>2 DEF PutDoes
    <2>11. ASSUME NEW s \in t PROVE \E i \in DOMAIN c : c[i].subject = s.subject
        <3>1. CASE s.subject = r.subject
            BY <2>7, <3>1 DEF PutDoes
        <3>2. CASE s.subject # r.subject
            <4>1. s \in table
                BY <2>4, <2>5, <3>2
            <4>2. PICK i \in DOMAIN cache : cache[i].subject = s.subject
                BY <2>1, <4>1
            <4>3. i \in DOMAIN c /\ c[i] = cache[i]
                BY <2>3, <2>7, <3>2, <4>2 DEF PutDoes
            <4>4. QED
                BY <4>2, <4>3
        <3>3. QED
            BY <3>1, <3>2
    <2>12. ASSUME NEW v \in p, NEW s \in t, v.subject = s.subject PROVE s.at < v.at
        <3>1. v.subject # r.subject
            BY <1>12, <2>3
        <3>2. s \in table
            BY <2>4, <2>5, <2>12, <3>1
        <3>3. QED
            BY <2>1, <2>12, <3>2
    <2>13. QED
        BY <2>10, <2>11, <2>12
<1>16. Ordered(c)
    BY <1>1, <1>6 DEF Ordered
<1> HIDE DEF p, u
<1>17. QED
    BY <1>1, <1>2, <1>11, <1>13, <1>14, <1>15, <1>16, SameRepository DEF StoreInvOf
\* A transaction that raised.
LEMMA RaiseLemma == ASSUME StoreInv, NEW r \in pending, Raise(r) PROVE StoreInv'
<1> DEFINE p == pending \ {r}
           u == IF AfterTable THEN unsaved ELSE unsaved \cup {Key(r)}
<1>1. /\ repository \in Repositories /\ used \in [saves : Nat, faults : Nat, restarts : Nat]
      /\ StoreRows(cache, table, pending, used.saves) /\ Calls(cache, pending, unsaved)
      /\ Agreed(cache, table, pending, unsaved) /\ Newest(cache, table, pending) /\ Ordered(cache)
    BY DEF StoreInv, StoreInvOf
<1>2. pending' = p /\ unsaved' = u /\ UNCHANGED <<repository, cache, table>>
    BY DEF Raise, AfterTable
<1>3. used' \in [saves : Nat, faults : Nat, restarts : Nat] /\ used'.saves = used.saves
    BY <1>1 DEF Raise
<1>4. Kind(repository)
    BY <1>1, RepositoryKinds
<1>5. StoreRows(cache, table, p, used.saves)
    <2>1. KnownRows(cache, table, p) \in SUBSET KnownRows(cache, table, pending) /\ p \in SUBSET pending
        BY DEF KnownRows
    <2>2. QED
        BY <1>1, <2>1 DEF StoreRows
<1>6. Calls(cache, p, u)
    <2>1. ASSUME NEW k \in u PROVE \E i \in DOMAIN cache : Key(cache[i]) = k
        <3>1. CASE k \in unsaved
            BY <1>1, <3>1 DEF Calls
        <3>2. CASE ~AfterTable /\ k = Key(r)
            BY <1>1, <3>2 DEF Calls
        <3>3. QED
            BY <2>1, <3>1, <3>2
    <2>2. QED
        BY <1>1, <2>1 DEF Calls
<1>7. Agreed(cache, table, p, u)
    <2> SUFFICES ASSUME Bag PROVE Agreed(cache, table, p, u)
        BY DEF Agreed
    <2>1. ~AfterTable
        BY <1>4 DEF Kind, Bag, AfterTable
    <2>2. Open(p, u) = Open(pending, unsaved)
        BY <2>1 DEF Open
    <2>3. QED
        BY <1>1, <2>2 DEF Agreed
<1>8. Newest(cache, table, p)
    BY <1>1 DEF Newest
<1> HIDE DEF p, u
<1>9. QED
    BY <1>1, <1>2, <1>3, <1>5, <1>6, <1>7, <1>8, SameRepository DEF StoreInvOf

\* A start of the process.
LEMMA RestartLemma == ASSUME StoreInv, Restart PROVE StoreInv'
<1>1. /\ repository \in Repositories /\ used \in [saves : Nat, faults : Nat, restarts : Nat]
      /\ StoreRows(cache, table, pending, used.saves) /\ Agreed(cache, table, pending, unsaved)
    BY DEF StoreInv, StoreInvOf
<1>2. PICK c \in Hydrated : cache' = c
    BY DEF Restart
<1>3. pending' = {} /\ unsaved' = {} /\ UNCHANGED <<repository, table>>
    BY DEF Restart
<1>4. used' \in [saves : Nat, faults : Nat, restarts : Nat] /\ used'.saves = used.saves
    BY <1>1 DEF Restart
<1>5. Kind(repository)
    BY <1>1, RepositoryKinds
<1>6. /\ c \in Seq(Row) /\ KeysOnce(c)
      /\ \A i \in DOMAIN c :
            /\ \E r \in table : Like(c[i], r) /\ c[i].id = r.id
            /\ repository.sorted => \A r \in table : Key(r) = Key(c[i]) => r.at <= c[i].at
      /\ \A r \in table : \E i \in DOMAIN c : Key(c[i]) = Key(r)
      /\ (\A r, s \in table : Key(r) = Key(s) => r = s) /\ repository.sorted => InOrder(c)
    BY <1>1, HydratedLemma DEF StoreRows
<1>7. StoreRows(c, table, {}, used.saves)
    <2>1. \A x \in KnownRows(c, table, {}) : \E r \in table : r.id = x.id /\ Name(r) = Name(x) /\ r.at = x.at
        BY <1>6 DEF KnownRows, Like
    <2>2. \A r \in table : r \in KnownRows(cache, table, pending)
        BY DEF KnownRows
    <2>3. /\ \A r \in table : r.id <= used.saves /\ r.at <= used.saves
          /\ \A r, s \in table : r.id = s.id => Name(r) = Name(s)
        BY <1>1, <2>2 DEF StoreRows
    <2>4. /\ \A x \in KnownRows(c, table, {}) : x.id <= used.saves /\ x.at <= used.saves
          /\ \A x, y \in KnownRows(c, table, {}) : x.id = y.id => Name(x) = Name(y)
        BY <2>1, <2>3
    <2>5. QED
        BY <1>1, <1>6, <2>4 DEF StoreRows
<1>8. Calls(c, {}, {})
    BY DEF Calls
<1>9. Agreed(c, table, {}, {})
    <2> SUFFICES ASSUME Bag
                 PROVE  /\ \A r, s \in table : Key(r) = Key(s) => r = s
                        /\ \A r \in table : \E i \in DOMAIN c : Like(c[i], r)
                        /\ \A i \in DOMAIN c : \E r \in table : Like(c[i], r)
        BY DEF Agreed
    <2>1. \A r, s \in table : Key(r) = Key(s) => r = s
        BY <1>1 DEF Agreed
    <2>2. \A r \in table : \E i \in DOMAIN c : Like(c[i], r)
        BY <1>6, <2>1 DEF Like
    <2>3. QED
        BY <1>6, <2>1, <2>2
<1>10. Newest(c, table, {})
    <2> SUFFICES ASSUME AfterTable
                 PROVE  /\ \A i \in DOMAIN c : \E r \in table :
                              Like(c[i], r) /\ \A s \in table : s.subject = r.subject => s.at <= r.at
                        /\ \A r \in table : \E i \in DOMAIN c : c[i].subject = r.subject
        BY DEF Newest
    <2>1. repository.key = "subject" /\ repository.sorted
        BY <1>5 DEF Kind, AfterTable
    <2>2. \A x : Key(x) = x.subject
        BY <2>1 DEF Key
    <2>3. ASSUME NEW i \in DOMAIN c
          PROVE  \E r \in table : Like(c[i], r) /\ \A s \in table : s.subject = r.subject => s.at <= r.at
        <3>1. PICK r \in table : Like(c[i], r)
            BY <1>6
        <3>2. Key(r) = Key(c[i]) /\ r.at = c[i].at
            BY <3>1 DEF Like
        <3>3. \A s \in table : Key(s) = Key(c[i]) => s.at <= c[i].at
            BY <1>6, <2>1
        <3>4. \A s \in table : s.subject = r.subject => Key(s) = Key(c[i])
            BY <2>2, <3>2
        <3>5. QED
            BY <3>1, <3>2, <3>3, <3>4
    <2>4. QED
        BY <1>6, <2>2, <2>3
<1>11. Ordered(c)
    <2> SUFFICES ASSUME repository.sorted, ~AfterTable PROVE InOrder(c)
        BY DEF Ordered
    <2>1. Bag
        BY <1>5 DEF Kind, Bag, AfterTable
    <2>2. QED
        BY <1>1, <1>6, <2>1 DEF Agreed
<1>12. QED
    BY <1>1, <1>2, <1>3, <1>4, <1>7, <1>8, <1>9, <1>10, <1>11, SameRepository DEF StoreInvOf

\* Whatever the process does next.
LEMMA StoreStepLemma == StoreInv /\ [StoreNext]_storeVars => StoreInv'
<1> SUFFICES ASSUME StoreInv, [StoreNext]_storeVars PROVE StoreInv'
    OBVIOUS
<1>1. ASSUME NEW s \in Subjects, NEW v \in Versions, NEW x \in Values, SaveNew(s, v, x) PROVE StoreInv'
    BY <1>1, SaveNewLemma
<1>2. ASSUME NEW i \in DOMAIN cache, NEW x \in Values, SaveAgain(i, x) PROVE StoreInv'
    BY <1>2, SaveAgainLemma
<1>3. ASSUME NEW r \in pending, Commit(r) PROVE StoreInv'
    BY <1>3, CommitLemma
<1>4. ASSUME NEW r \in pending, Raise(r) PROVE StoreInv'
    BY <1>4, RaiseLemma
<1>5. CASE Restart
    BY <1>5, RestartLemma
<1>6. CASE UNCHANGED storeVars
    <2>1. /\ repository \in Repositories /\ used \in [saves : Nat, faults : Nat, restarts : Nat]
          /\ StoreInvOf(cache, table, pending, unsaved, used.saves)
        BY DEF StoreInv
    <2>2. UNCHANGED <<repository, cache, table, pending, unsaved, used>>
        BY <1>6 DEF storeVars
    <2>3. QED
        BY <2>1, <2>2, SameRepository
<1>7. QED
    BY <1>1, <1>2, <1>3, <1>4, <1>5, <1>6 DEF StoreNext

\* Of any repository, through any saves, faults and restarts: an id names one row, a
\* dictionary has a key once and in its order, and where no save is open it agrees with
\* the table.
THEOREM StoreInvariance == StoreSpec => []StoreInv
<1>1. QED
    BY StoreInitLemma, StoreStepLemma, PTL DEF StoreSpec
-----------------------------------------------------------------------------
(* What a start reads back. *)

\* The rows of a key whose saves returned are, in the dictionary a start builds, as in
\* the dictionary of the process.
SameUnder(c, k) ==
    /\ \A j \in DOMAIN c : Key(c[j]) = k => \E i \in DOMAIN cache : Like(cache[i], c[j])
    /\ \A i \in DOMAIN cache : Key(cache[i]) = k => \E j \in DOMAIN c : Like(cache[i], c[j])

LEMMA HydratedAgrees ==
    ASSUME StoreInv, repository.stored # "first", repository # CandidateLinks,
           NEW c \in Hydrated, NEW k, k \notin Unsettled
    PROVE  SameUnder(c, k)
<1>1. /\ repository \in Repositories /\ StoreRows(cache, table, pending, used.saves)
      /\ Agreed(cache, table, pending, unsaved) /\ Newest(cache, table, pending)
    BY DEF StoreInv, StoreInvOf
<1>2. Kind(repository)
    BY <1>1, RepositoryKinds
<1>3. /\ c \in Seq(Row) /\ KeysOnce(c)
      /\ \A i \in DOMAIN c :
            /\ \E r \in table : Like(c[i], r) /\ c[i].id = r.id
            /\ repository.sorted => \A r \in table : Key(r) = Key(c[i]) => r.at <= c[i].at
      /\ \A r \in table : \E i \in DOMAIN c : Key(c[i]) = Key(r)
      /\ repository.sorted => \A r, s \in table : r.at = s.at => r = s
    BY <1>1, HydratedLemma DEF StoreRows
<1>4. CASE Bag
    <2>1. /\ \A r, s \in table : Key(r) = Key(s) => r = s
          /\ \A r \in table : Key(r) = k => \E i \in DOMAIN cache : Like(cache[i], r)
          /\ \A i \in DOMAIN cache : Key(cache[i]) = k => \E r \in table : Like(cache[i], r)
        BY <1>1, <1>4 DEF Agreed, Open, Unsettled
    <2>2. \A r \in table : \E j \in DOMAIN c : Like(c[j], r)
        BY <1>3, <2>1 DEF Like
    <2>3. QED
        BY <1>3, <2>1, <2>2 DEF SameUnder, Like
<1>5. CASE ~Bag
    <2>1. AfterTable /\ repository.key = "subject" /\ repository.sorted
        BY <1>2, <1>5 DEF Kind, Bag, AfterTable
    <2>2. \A x : Key(x) = x.subject
        BY <2>1 DEF Key
    <2>3. /\ \A i \in DOMAIN cache : \E r \in table :
                Like(cache[i], r) /\ \A s \in table : s.subject = r.subject => s.at <= r.at
          /\ \A r \in table : \E i \in DOMAIN cache : cache[i].subject = r.subject
        BY <1>1, <2>1 DEF Newest
    <2>4. \A r \in table : r.at \in Nat
        BY <1>1 DEF StoreRows, Row
    <2>5. ASSUME NEW i \in DOMAIN cache, NEW j \in DOMAIN c, cache[i].subject = c[j].subject
          PROVE  Like(cache[i], c[j])
        <3>1. PICK r \in table : Like(cache[i], r) /\ \A s \in table : s.subject = r.subject => s.at <= r.at
            BY <2>3
        <3>2. r.subject = c[j].subject
            BY <2>2, <2>5, <3>1 DEF Like
        <3>8. PICK w \in table : Like(c[j], w)
            BY <1>3
        <3>9. w.subject = c[j].subject /\ w.at = c[j].at
            BY <2>2, <3>8 DEF Like
        <3>3. r.at <= w.at /\ w.at <= r.at
            BY <1>3, <2>1, <2>2, <3>1, <3>2, <3>9
        <3>4. r.at \in Nat /\ w.at \in Nat
            BY <2>4
        <3>5. r.at = w.at
            BY <3>3, <3>4
        <3>6. r = w
            BY <1>3, <2>1, <3>5
        <3>7. QED
            BY <3>1, <3>6, <3>8 DEF Like
    <2>6. \A j \in DOMAIN c : \E i \in DOMAIN cache : cache[i].subject = c[j].subject
        <3>1. \A j \in DOMAIN c : \E r \in table : r.subject = c[j].subject
            BY <1>3, <2>2 DEF Like
        <3>2. QED
            BY <2>3, <3>1
    <2>7. \A i \in DOMAIN cache : \E j \in DOMAIN c : cache[i].subject = c[j].subject
        <3>1. \A i \in DOMAIN cache : \E r \in table : cache[i].subject = r.subject
            BY <2>2, <2>3 DEF Like
        <3>2. QED
            BY <1>3, <2>2, <3>1
    <2>8. QED
        BY <2>2, <2>5, <2>6, <2>7 DEF SameUnder
<1>6. QED
    BY <1>4, <1>5
\* Every save that returned is durable, in every repository the property is about, for
\* any subjects, versions and values and through any number of saves, faults and starts.
THEOREM RowsSurvive == StoreSpec => []RestartKeepsRows
<1>1. ASSUME StoreInv PROVE RestartKeepsRows
    <2> SUFFICES ASSUME repository.stored # "first", repository # CandidateLinks,
                        NEW c \in Hydrated, NEW k \in Keys \ Unsettled
                 PROVE  GetKept(c, k) = GetKept(cache, k)
        BY DEF RestartKeepsRows
    <2> DEFINE shown(d, i) == [subject |-> d[i].subject, version |-> d[i].version, value |-> Kept(d[i].value)]
    <2>1. SameUnder(c, k)
        BY <1>1, HydratedAgrees
    <2>2. \A i \in DOMAIN cache, j \in DOMAIN c : Like(cache[i], c[j]) =>
              Key(cache[i]) = Key(c[j]) /\ shown(cache, i) = shown(c, j)
        BY DEF Like, Name
    <2>3. \A d, y : y \in GetKept(d, k) <=> \E i \in DOMAIN d : Key(d[i]) = k /\ y = shown(d, i)
        <3> DEFINE whole(d, i) == [subject |-> d[i].subject, version |-> d[i].version, value |-> d[i].value]
        <3>1. \A d, y : y \in Get(d, k) <=> \E i \in DOMAIN d : Key(d[i]) = k /\ y = whole(d, i)
            BY DEF Get
        <3>2. \A d, y : y \in GetKept(d, k) <=> \E g \in Get(d, k) : y = [g EXCEPT !.value = Kept(@)]
            BY DEF GetKept
        <3>3. \A d, i : [whole(d, i) EXCEPT !.value = Kept(@)] = shown(d, i)
            OBVIOUS
        <3> HIDE DEF whole, shown
        <3>4. QED
            BY <3>1, <3>2, <3>3
    <2> HIDE DEF shown
    <2>4. \A y : y \in GetKept(c, k) <=> y \in GetKept(cache, k)
        BY <2>1, <2>2, <2>3 DEF SameUnder
    <2>5. QED
        BY <2>4
<1>2. QED
    BY <1>1, StoreInvariance, PTL

\* The rows about a subject are in the order of their times.
InOrderAbout(c, s) ==
    \A i, j \in DOMAIN c : i < j /\ c[i].subject = s /\ c[j].subject = s => c[i].at < c[j].at

\* Two dictionaries in that order with the same rows about a subject have the same last one.
LEMMA LastAgrees ==
    ASSUME NEW c \in Seq(Row), NEW d \in Seq(Row), NEW s, InOrderAbout(c, s), InOrderAbout(d, s),
           \A j \in DOMAIN c : c[j].subject = s => \E i \in DOMAIN d : Name(d[i]) = Name(c[j]) /\ d[i].at = c[j].at,
           \A i \in DOMAIN d : d[i].subject = s => \E j \in DOMAIN c : Name(c[j]) = Name(d[i]) /\ c[j].at = d[i].at
    PROVE  LatestOf(c, s) \subseteq LatestOf(d, s)
<1>1. /\ \A j \in DOMAIN c : j \in Nat /\ c[j].at \in Nat
      /\ \A i \in DOMAIN d : i \in Nat /\ d[i].at \in Nat
    <2>1. /\ \A j \in DOMAIN c : j \in Nat /\ c[j] \in Row
          /\ \A i \in DOMAIN d : i \in Nat /\ d[i] \in Row
        BY LenProperties, ElementOfSeq
    <2>2. QED
        BY <2>1 DEF Row
<1>2. \A x, y : Name(x) = Name(y) => x.subject = y.subject
    BY DEF Name
<1>3. ASSUME NEW j \in DOMAIN c, c[j].subject = s, \A k \in DOMAIN c : c[k].subject = s => k <= j
      PROVE  Name(c[j]) \in LatestOf(d, s)
    <2>1. PICK i \in DOMAIN d : Name(d[i]) = Name(c[j]) /\ d[i].at = c[j].at
        BY <1>3
    <2>2. d[i].subject = s
        BY <1>2, <1>3, <2>1
    <2>3. ASSUME NEW k \in DOMAIN d, d[k].subject = s PROVE k <= i
        <3>1. PICK l \in DOMAIN c : Name(c[l]) = Name(d[k]) /\ c[l].at = d[k].at
            BY <2>3
        <3>2. c[l].subject = s /\ l <= j
            BY <1>2, <1>3, <2>3, <3>1
        <3>3. l = j \/ l < j
            BY <1>1, <3>2
        <3>4. c[l].at <= c[j].at
            BY <1>1, <1>3, <3>2, <3>3 DEF InOrderAbout
        <3>5. ~(i < k)
            BY <1>1, <2>1, <2>2, <2>3, <3>1, <3>4 DEF InOrderAbout
        <3>6. QED
            BY <1>1, <3>5
    <2>4. QED
        BY <2>1, <2>2, <2>3 DEF LatestOf
<1>4. QED
    BY <1>3 DEF LatestOf

\* What is read as the latest of a subject is the same after a start, in every repository
\* whose rows are read back in an order.
THEOREM LatestSurvives == StoreSpec => []RestartKeepsLatest
<1>1. ASSUME StoreInv PROVE RestartKeepsLatest
    <2> SUFFICES ASSUME repository.sorted, NEW c \in Hydrated, NEW s \in Subjects,
                        \A r \in pending \cup {cache[i] : i \in DOMAIN cache} :
                            r.subject = s => Key(r) \notin Unsettled
                 PROVE  LatestOf(c, s) = LatestOf(cache, s)
        BY DEF RestartKeepsLatest
    <2>1. /\ repository \in Repositories /\ StoreRows(cache, table, pending, used.saves)
          /\ Calls(cache, pending, unsaved) /\ Agreed(cache, table, pending, unsaved) /\ Ordered(cache)
        BY <1>1 DEF StoreInv, StoreInvOf
    <2>2. Kind(repository)
        BY <2>1, RepositoryKinds
    <2>3. repository.stored # "first" /\ repository # CandidateLinks
        BY <2>2 DEF Kind
    <2>4. /\ c \in Seq(Row) /\ KeysOnce(c)
          /\ \A i \in DOMAIN c : \E r \in table : Like(c[i], r)
          /\ (\A r, t \in table : Key(r) = Key(t) => r = t) => InOrder(c)
        BY <2>1, HydratedLemma DEF StoreRows
    <2>5. \A r, t \in KnownRows(cache, table, pending) : Key(r) = Key(t) => r.subject = t.subject
        <3>1. \A r, t \in KnownRows(cache, table, pending) : r.id = t.id => Name(r) = Name(t)
            BY <2>1 DEF StoreRows
        <3>2. QED
            BY <2>1, <3>1, SubjectOfKey
    <2>6. ASSUME NEW x \in KnownRows(cache, table, pending), x.subject = s PROVE Key(x) \notin Unsettled
        <3> SUFFICES ASSUME Key(x) \in Unsettled PROVE FALSE
            OBVIOUS
        <3>1. CASE Key(x) \in unsaved
            <4>1. PICK i \in DOMAIN cache : Key(cache[i]) = Key(x)
                BY <2>1, <3>1 DEF Calls
            <4>2. cache[i] \in KnownRows(cache, table, pending)
                BY DEF KnownRows
            <4>3. cache[i].subject = s
                BY <2>5, <2>6, <4>1, <4>2
            <4>4. QED
                BY <4>1, <4>3
        <3>2. CASE Key(x) \notin unsaved
            <4>1. PICK r \in pending : Key(r) = Key(x)
                BY <3>2 DEF Unsettled
            <4>2. r \in KnownRows(cache, table, pending)
                BY DEF KnownRows
            <4>3. r.subject = s
                BY <2>5, <2>6, <4>1, <4>2
            <4>4. QED
                BY <4>1, <4>3
        <3>3. QED
            BY <3>1, <3>2
    <2>7. \A x, y : Name(x) = Name(y) => x.subject = y.subject
        BY DEF Name
    <2>8. ASSUME NEW j \in DOMAIN c, c[j].subject = s
          PROVE  \E i \in DOMAIN cache : Name(cache[i]) = Name(c[j]) /\ cache[i].at = c[j].at
        <3>1. PICK w \in table : Like(c[j], w)
            BY <2>4
        <3>4. w \in KnownRows(cache, table, pending) /\ w.subject = s /\ Key(w) = Key(c[j])
            BY <2>7, <2>8, <3>1 DEF KnownRows, Like
        <3>2. SameUnder(c, Key(c[j]))
            BY <1>1, <2>3, <2>6, <3>4, HydratedAgrees
        <3>3. QED
            BY <3>2 DEF SameUnder, Like
    <2>9. ASSUME NEW i \in DOMAIN cache, cache[i].subject = s
          PROVE  \E j \in DOMAIN c : Name(c[j]) = Name(cache[i]) /\ c[j].at = cache[i].at
        <3>1. cache[i] \in KnownRows(cache, table, pending)
            BY DEF KnownRows
        <3>2. SameUnder(c, Key(cache[i]))
            BY <1>1, <2>3, <2>6, <2>9, <3>1, HydratedAgrees
        <3>3. QED
            BY <3>2 DEF SameUnder, Like
    <2>10. cache \in Seq(Row) /\ KeysOnce(cache)
        BY <2>1 DEF StoreRows
    <2>11. InOrderAbout(c, s) /\ InOrderAbout(cache, s)
        <3>1. CASE AfterTable
            <4>1. \A x : Key(x) = x.subject
                BY <2>2, <3>1 DEF Kind, AfterTable, Key
            <4>2. \A i \in DOMAIN c : i \in Nat
                BY <2>4, LenProperties
            <4>3. \A i \in DOMAIN cache : i \in Nat
                BY <2>10, LenProperties
            <4>4. QED
                BY <2>4, <2>10, <4>1, <4>2, <4>3 DEF KeysOnce, InOrderAbout
        <3>2. CASE ~AfterTable
            <4>1. Bag
                BY <2>2, <3>2 DEF Kind, Bag, AfterTable
            <4>2. InOrder(c)
                BY <2>1, <2>4, <4>1 DEF Agreed
            <4>3. InOrder(cache)
                BY <2>1, <3>2 DEF Ordered
            <4>4. QED
                BY <4>2, <4>3 DEF InOrder, InOrderAbout
        <3>3. QED
            BY <3>1, <3>2
    <2>12. LatestOf(c, s) \subseteq LatestOf(cache, s)
        BY <2>4, <2>8, <2>9, <2>10, <2>11, LastAgrees
    <2>13. LatestOf(cache, s) \subseteq LatestOf(c, s)
        BY <2>4, <2>8, <2>9, <2>10, <2>11, LastAgrees
    <2>14. QED
        BY <2>12, <2>13
<1>2. QED
    BY <1>1, StoreInvariance, PTL
=============================================================================
