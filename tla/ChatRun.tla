------------------------------ MODULE ChatRun ------------------------------
(***************************************************************************)
(* POST /api/chat (app/api/chat.py) on one conversation thread: handlers   *)
(* in API replicas that claim a run, read the thread's checkpoint, drive   *)
(* the agent graph from it, promote its result (reexecution.py) and finish *)
(* the run with the response.                                              *)
(*                                                                         *)
(* The lease is ThreadLease, which the Postgres coordinator implements     *)
(* (ExecutionLeaseRefinement); what it leaves open is added here: a lease  *)
(* lapses when its heartbeats stop for long enough, and a lapsed lease may *)
(* be taken.  The graph is two of its nodes: "work" stands for everything  *)
(* up to promote_execution_snapshot and may interrupt, "promote" for that  *)
(* node and the response after it.  LangGraph writes a checkpoint after    *)
(* every node, when its effects are done, and does not know about fences.  *)
(* A turn is known by the message and the grant that began it; it promotes *)
(* for one task version, of which the table takes one snapshot.            *)
(***************************************************************************)
EXTENDS ThreadLease

CONSTANTS
    Thread,         \* the conversation
    Nobody,         \* no request
    MaxFence,       \* bound: claims granted
    MaxFailures,    \* bound: handlers that die, and graph exceptions
    MaxStalls,      \* bound: leases that lapse under a live handler
    MaxInterrupts,  \* bound: interrupts raised
    MaxPosts        \* bound: POSTs that meet a turn before its mutation is applied

ASSUME ChatAssumption ==
    /\ Threads = {Thread}
    /\ Nobody \notin Requests
    /\ {MaxFence, MaxFailures, MaxStalls, MaxInterrupts, MaxPosts} \subseteq Nat

VARIABLES
    lapsed,      \* the lease of the thread's owner has run out
    checkpoint,  \* latest checkpoint: the turn, its next node, an interrupt
    handlers,    \* fence -> the handler that was granted it
    response,    \* request -> the message whose turn its stored response answers
    inserted,    \* turns whose version has an execution snapshot in the table
    conflicted,  \* turns whose mutation a POST has overtaken
    faults       \* how often each bounded event has happened

chatVars == <<issued, token, owners, answered, lapsed, checkpoint, handlers,
              response, inserted, conflicted, faults>>

Fences == 1..MaxFence
NoTurn == <<Nobody, 0>>
Turns == (Requests \X Fences) \cup {NoTurn}
GraphPcs == {"read", "invoke", "work", "check", "promote", "promoted"}
Kinds == {"failure", "stall", "interrupt", "post"}
Bound(kind) == CASE kind = "failure" -> MaxFailures
                 [] kind = "stall" -> MaxStalls  [] kind = "post" -> MaxPosts
                 [] OTHER -> MaxInterrupts

Handler ==
    [request : Requests \cup {Nobody}, pc : GraphPcs \cup {"idle", "respond", "done", "dead"},
     mode : {"new", "resume", "continue"}, turn : Turns,
     allowed : BOOLEAN]

Idle == [request |-> Nobody, pc |-> "idle", mode |-> "new", turn |-> NoTurn,
         allowed |-> FALSE]

ChatInit ==
    /\ LeaseInit
    /\ lapsed = FALSE
    /\ checkpoint = [turn |-> NoTurn, next |-> "end", interrupt |-> FALSE]
    /\ handlers = [f \in Fences |-> Idle]
    /\ response = [r \in Requests |-> Nobody]
    /\ inserted = {} /\ conflicted = {}
    /\ faults = [kind \in Kinds |-> 0]

leaseFree == <<issued, token, owners, answered>>
turnsDone == <<inserted, conflicted>>

At(f, pc) == handlers[f].pc = pc
InGraph(f) == handlers[f].pc \in GraphPcs
Request(f) == handlers[f].request
OwnsThread(f) == Request(f) \in Requests /\ token[Request(f)] = f /\ Request(f) \in owners[Thread]

\* can_promote of the Postgres coordinator.
CanPromote_NoFence(f) == Request(f) \in owners[Thread] /\ ~lapsed
CanPromote(f) == OwnsThread(f) /\ ~lapsed

Count(kind) == /\ faults[kind] < Bound(kind)
               /\ faults' = [faults EXCEPT ![kind] = @ + 1]

-----------------------------------------------------------------------------

\* The thread is free, or its owner's lease has lapsed.
Claimable_WhenFree(r) == owners[Thread] = {}
Claimable_ByOwner(r) == owners[Thread] = {} \/ lapsed \/ r \in owners[Thread]
Claimable(r) == owners[Thread] = {} \/ lapsed

\* The claim is granted.  Answered requests get the stored response and other
\* claims a 409.
Claim(r) ==
    /\ issued < MaxFence
    /\ Claimable(r)
    /\ issued' = issued + 1
    /\ Grant(r, Thread)
    /\ lapsed' = FALSE
    /\ handlers' = [handlers EXCEPT ![issued + 1] = [Idle EXCEPT !.request = r, !.pc = "read"]]
    /\ UNCHANGED <<checkpoint, response, turnsDone, faults>>

\* aget_state: an interrupt is answered with the message, other unfinished work
\* is continued without it, and only then is the message new input.
Mode_TextFirst == IF checkpoint.interrupt THEN "resume" ELSE "new"
Mode == IF checkpoint.interrupt THEN "resume"
        ELSE IF checkpoint.next # "end" THEN "continue" ELSE "new"

ReadState(f) ==
    /\ At(f, "read")
    /\ handlers' = [handlers EXCEPT ![f].mode = Mode, ![f].pc = "invoke"]
    /\ UNCHANGED <<leaseFree, lapsed, checkpoint, response, turnsDone, faults>>

\* ainvoke starts: new input begins a turn and is checkpointed; otherwise the
\* loop loads the latest checkpoint, which may not be the one ReadState saw, and
\* the node that comes next runs.  A resume text reaches a pending interrupt, which
\* stays in the checkpoint until its node has completed.
Invoke(f) ==
    LET turn == IF handlers[f].mode = "new" THEN <<Request(f), f>> ELSE checkpoint.turn
        next == IF handlers[f].mode = "new" THEN "work" ELSE checkpoint.next
    IN
    /\ At(f, "invoke")
    /\ checkpoint' = IF handlers[f].mode = "new"
                     THEN [turn |-> turn, next |-> "work", interrupt |-> FALSE]
                     ELSE checkpoint
    /\ handlers' = [handlers EXCEPT ![f].turn = turn,
          ![f].pc = CASE next = "work" -> "work"
                      [] next = "promote" -> "check"
                      [] next = "end" -> "respond"]
    /\ UNCHANGED <<leaseFree, lapsed, response, turnsDone, faults>>

\* The nodes before promotion, up to an interrupt or to the end.  A turn that
\* changes nothing (mutation_scope NONE) passes the promotion without a snapshot.
\* One whose mutation was overtaken raises TASK_VERSION_CONFLICT.
Interrupt(f) ==
    /\ At(f, "work")
    /\ Count("interrupt")
    /\ checkpoint' = [turn |-> handlers[f].turn, next |-> "work", interrupt |-> TRUE]
    /\ handlers' = [handlers EXCEPT ![f].pc = "respond", ![f].mode = "new", ![f].allowed = FALSE]
    /\ UNCHANGED <<leaseFree, lapsed, response, turnsDone>>

Work(f) ==
    /\ At(f, "work") /\ handlers[f].turn \notin conflicted
    /\ \E next \in {"promote", "end"} :
          /\ checkpoint' = [turn |-> handlers[f].turn, next |-> next, interrupt |-> FALSE]
          /\ handlers' = [handlers EXCEPT
                ![f].pc = IF next = "promote" THEN "check" ELSE "respond"]
    /\ UNCHANGED <<leaseFree, lapsed, response, turnsDone, faults>>

\* POST /api/tasks/{task_id}/mutations makes a version between the load and the
\* apply of the turn's mutation; the version loaded is in the checkpoint.
Post ==
    /\ checkpoint.next = "work"
    /\ Count("post")
    /\ conflicted' = conflicted \cup {checkpoint.turn}
    /\ UNCHANGED <<leaseFree, lapsed, checkpoint, handlers, response, inserted>>

\* promote_execution_snapshot, async_node: the fence is read in one transaction,
\* and after the await the snapshot is promoted, or saved as SUPERSEDED.
Check(f) ==
    /\ At(f, "check")
    /\ handlers' = [handlers EXCEPT ![f].allowed = CanPromote(f), ![f].pc = "promote"]
    /\ UNCHANGED <<leaseFree, lapsed, checkpoint, response, turnsDone, faults>>

\* The unique key (task_id, task_version).
Insertable(f) == handlers[f].turn \notin inserted

\* The row of the snapshot: current, or SUPERSEDED when the fence was refused or
\* the task has a newer version than the turn.
Promote(f) ==
    /\ At(f, "promote") /\ Insertable(f)
    /\ inserted' = inserted \cup {handlers[f].turn}
    /\ handlers' = [handlers EXCEPT ![f].pc = "promoted"]
    /\ UNCHANGED <<leaseFree, lapsed, checkpoint, response, conflicted, faults>>

PromoteDone(f) ==
    /\ At(f, "promoted")
    /\ checkpoint' = [turn |-> handlers[f].turn, next |-> "end", interrupt |-> FALSE]
    /\ handlers' = [handlers EXCEPT ![f].pc = "respond", ![f].mode = "new", ![f].allowed = FALSE]
    /\ UNCHANGED <<leaseFree, lapsed, response, turnsDone, faults>>

\* finish with a response; a handler whose fence was replaced changes nothing.
Stored_AnyFence(f) == [response EXCEPT ![Request(f)] = handlers[f].turn[1]]
Stored(f) == IF token[Request(f)] = f
             THEN [response EXCEPT ![Request(f)] = handlers[f].turn[1]] ELSE response

Respond(f) ==
    /\ At(f, "respond")
    /\ IF token[Request(f)] = f
       THEN End(Request(f)) /\ Request(f) \in answered'
       ELSE UNCHANGED leaseFree
    /\ response' = Stored(f)
    /\ handlers' = [handlers EXCEPT ![f] = [Idle EXCEPT !.pc = "done"]]
    /\ UNCHANGED <<lapsed, checkpoint, turnsDone, faults>>

\* An exception inside the try block: finish FAILED, without a response.
EndFailed(f) ==
    /\ IF token[Request(f)] = f
       THEN End(Request(f)) /\ answered' = answered
       ELSE UNCHANGED leaseFree
    /\ handlers' = [handlers EXCEPT ![f] = [Idle EXCEPT !.pc = "done"]]
    /\ UNCHANGED <<lapsed, checkpoint, response, turnsDone>>

\* One that a retry need not meet again.
Fail(f) == InGraph(f) /\ ~At(f, "read") /\ Count("failure") /\ EndFailed(f)

\* One that every retry meets: the version or its snapshot is there already.
RaiseAgain(f) ==
    /\ \/ At(f, "work") /\ handlers[f].turn \in conflicted
       \/ At(f, "promote") /\ ~Insertable(f)
    /\ EndFailed(f)
    /\ UNCHANGED faults

\* The replica dies, the request is cancelled, or an exception is raised outside
\* the try block (aget_state, or the event published before finish): nothing is
\* written.
Crash(f) ==
    /\ InGraph(f) \/ At(f, "respond")
    /\ Count("failure")
    /\ handlers' = [handlers EXCEPT ![f] = [Idle EXCEPT !.request = Request(f), !.pc = "dead"]]
    /\ UNCHANGED <<leaseFree, lapsed, checkpoint, response, turnsDone>>

\* The owner's lease runs out: nobody renews it, or its live handler stalls (or
\* lingers after the graph, where the heartbeat task is already cancelled).
Lapse(f) ==
    /\ OwnsThread(f) /\ ~lapsed
    /\ IF At(f, "dead") THEN UNCHANGED faults ELSE Count("stall")
    /\ lapsed' = TRUE
    /\ UNCHANGED <<leaseFree, checkpoint, handlers, response, turnsDone>>

\* A heartbeat renews the lease of the owner, lapsed or not.
Heartbeat(f) ==
    /\ InGraph(f) /\ ~At(f, "read")
    /\ OwnsThread(f) /\ lapsed
    /\ lapsed' = FALSE
    /\ UNCHANGED <<leaseFree, checkpoint, handlers, response, turnsDone, faults>>

Step(f) ==
    \/ ReadState(f) \/ Invoke(f) \/ Interrupt(f) \/ Work(f)
    \/ Check(f) \/ Promote(f) \/ PromoteDone(f) \/ RaiseAgain(f) \/ Respond(f)

ChatNext ==
    \/ \E r \in Requests : Claim(r)
    \/ Post
    \/ \E f \in Fences : Step(f) \/ Fail(f) \/ Crash(f) \/ Lapse(f) \/ Heartbeat(f)

ChatSpec == ChatInit /\ [][ChatNext]_chatVars

\* A live handler keeps running (one event loop step after another), time passes
\* until the lease of a dead one lapses, and the client retries a request until
\* it gets a response.
Fairness ==
    /\ \A f \in Fences : WF_chatVars(Step(f)) /\ WF_chatVars(At(f, "dead") /\ Lapse(f))
    /\ \A r \in Requests : WF_chatVars(Claim(r))

FairSpec == ChatSpec /\ Fairness

-----------------------------------------------------------------------------

\* Types of the variables; a response is stored for the answered requests, and it
\* is the response of some turn.
TypeOK ==
    /\ issued \in 0..MaxFence
    /\ token \in [Requests -> 0..MaxFence]
    /\ owners \in [Threads -> SUBSET Requests]
    /\ answered \subseteq Requests
    /\ lapsed \in BOOLEAN
    /\ checkpoint \in [turn : Turns, next : {"work", "promote", "end"},
                       interrupt : BOOLEAN]
    /\ handlers \in [Fences -> Handler]
    /\ response \in [Requests -> Requests \cup {Nobody}]
    /\ inserted \subseteq Turns /\ conflicted \subseteq Turns
    /\ faults \in [Kinds -> Nat]
    /\ \A r \in Requests : r \in answered <=> response[r] # Nobody

\* Until a handler has stalled past its lease, heartbeats keep up.
HeartbeatsKeepUp == faults["stall"] = 0

\* As long as heartbeats keep up, two handlers never drive the graph of one
\* thread together, whatever crashes and failures come between.
OneGraphDriver ==
    HeartbeatsKeepUp => \A f, g \in Fences : InGraph(f) /\ InGraph(g) => f = g

\* As long as heartbeats keep up, a message never starts a turn over an
\* unfinished one: a crashed turn is continued, by whichever request comes next.
NoTurnOverwritten ==
    [][HeartbeatsKeepUp /\ checkpoint.next # "end" /\ checkpoint'.next = "work"
          => checkpoint'.turn = checkpoint.turn]_chatVars

\* Under stalls too, promotion is decided for the newest grant only: a handler
\* that was overtaken before it asks is refused.
OnlyNewestIsAllowed ==
    [][\A f \in Fences : handlers'[f].allowed /\ ~handlers[f].allowed => issued = f]_chatVars

\* Under stalls too, a stored response is the only one a request ever gets.
ResponseIsFinal ==
    [][\A r \in Requests : r \in answered => response'[r] = response[r]]_chatVars

\* The turn every message of the conversation continues raises on every retry: its
\* snapshot is in the table and the thread is not with the handler that has yet to
\* write the checkpoint, or its mutation was overtaken.
Stuck ==
    \/ /\ checkpoint.next = "promote" /\ checkpoint.turn \in inserted
       /\ \A f \in Fences : At(f, "promoted") /\ OwnsThread(f) => handlers[f].turn # checkpoint.turn
    \/ checkpoint.next = "work" /\ checkpoint.turn \in conflicted

\* A request that the client keeps retrying is answered, whatever crashes, failures
\* and lapses come: unless a run ends or is overtaken between a turn's insert and its
\* checkpoint, or a POST overtakes the turn's mutation, nothing keeps the thread.
EveryRequestAnswered == \A r \in Requests : <>(r \in answered \/ Stuck)

\* RECOVERY_REPORT_PHASE2.md:15,29: a request that failed half way is taken up
\* again from its checkpoint and completes.  A stuck turn never does.
EveryRetryCompletes == \A r \in Requests : <>(r \in answered)

\* README.md:21: lease, fence and version fence together keep duplicate or
\* expired executions from promoting.  But the fence is read before an await and
\* not with the promotion.
PromotesUnderNewestFence ==
    [][\A f \in Fences :
          handlers[f].allowed /\ At(f, "promote") /\ handlers'[f].pc = "promoted" => f = issued]_chatVars

\* README.md:115: an interrupted turn is resumed by a later request of the
\* session.  When the run dies between the interrupt's checkpoint and finish, the
\* retried request answers its own question with its own text.
InterruptAnsweredByLaterRequest ==
    [][\A f \in Fences :
          /\ At(f, "invoke") /\ handlers[f].mode = "resume" /\ checkpoint.interrupt
          /\ handlers'[f].pc = "work"
          => checkpoint.turn[1] # Request(f)]_chatVars
=============================================================================
