--------------------------- MODULE TaskPromotion ---------------------------
(***************************************************************************)
(* One task, the versions its mutations make and the execution snapshot    *)
(* that is promoted for a version.                                         *)
(*                                                                         *)
(* PostgresTaskRepository, PostgresMutationRepository and                  *)
(* PostgresExecutionSnapshotRepository (repositories/postgres_business.py) *)
(* read from caches of their process, filled when the process starts, and  *)
(* write cache first, database second.  A turn of the conversation (chat   *)
(* request, agent graph) makes a version and promotes its result; the      *)
(* route POST /api/tasks/{task_id}/mutations makes versions without the    *)
(* conversation's lease.  The lease is reduced to the newest run.          *)
(*                                                                         *)
(* Who writes the task (a node in a worker thread, the route on the event  *)
(* loop) copies the cached head, puts the changed copy back, and commits   *)
(* it: three steps, without a lock between them.                           *)
(*                                                                         *)
(* Effects and checkpoints are separate steps: a process may die between   *)
(* them.  The unique keys (task_id, version), (task_id, source_message_id) *)
(* and (task_id, task_version) raise; an exception ends the run and leaves *)
(* the checkpoint at the node that raised.                                 *)
(***************************************************************************)
EXTENDS Naturals, Sequences

CONSTANTS
    Replicas,       \* API processes
    Runs,           \* slots for the chat runs in progress
    ChatMessages,   \* source_message_ids of mutations made by chat turns
    ApiMessages,    \* source_message_ids of mutations made by the route
    NoMessage,      \* none: the row or turn comes from the requirement graph
    NoReplica,      \* the replica of an idle slot
    MaxVersion,     \* bound: task versions
    MaxCrashes,     \* bound: replicas that restart
    MaxStalls,      \* bound: runs overtaken while they are alive
    MaxFailures     \* bound: exceptions in a node or in the route

ASSUME TaskAssumption ==
    /\ ChatMessages \cap ApiMessages = {}
    /\ NoMessage \notin ChatMessages \cup ApiMessages
    /\ NoReplica \notin Replicas
    /\ MaxVersion \in Nat \ {0}
    /\ {MaxCrashes, MaxStalls, MaxFailures} \subseteq Nat

VARIABLES
    db,         \* lead_tasks, lead_task_versions, task_mutations, snapshots
    cache,      \* the same, as each replica sees it
    turn,       \* the thread's checkpoint
    chat,       \* the chat runs
    newest,     \* the slot whose run holds the newest fence
    api,        \* per replica, the route's mutation
    overlapped, \* history: somebody began to write while another one of the process was
    crashes, stalls, failures

promotionVars == <<db, cache, turn, chat, newest, api, overlapped, crashes, stalls, failures>>
bounds == <<crashes, stalls, failures>>

\* The record of a mutation may name the version after the newest.
Versions == 1..(MaxVersion + 1)
Messages == ChatMessages \cup ApiMessages
Sources == Messages \cup {NoMessage}
\* A version row is told from another by its source and the replica that made it.
Row == [message : Sources, by : Replicas \cup {NoReplica}]
Validity == {"NONE", "CURRENT", "REUSABLE", "SUPERSEDED"}   \* NONE: no row
Nodes == {"load", "apply", "work", "promote", "respond"}
Turn == [next : Nodes \cup {"end"}, message : Sources, base : 0..MaxVersion, version : {0} \cup Versions]
\* A copy in hand is put back at "write" and committed at "commit".
Writing == {"write", "commit"}
Pcs == Nodes \cup Writing \cup {"idle", "save", "applied", "checked", "insert", "promoted"}

\* task: the version of the copy in hand.
Idle == [pc |-> "idle", replica |-> NoReplica, allowed |-> FALSE, task |-> 0,
         turn |-> [next |-> "end", message |-> NoMessage, base |-> 0, version |-> 0]]

\* task: the version the mutation was given.
NoCall == [pc |-> "idle", message |-> NoMessage, task |-> 0]

\* create_task has made version 1.
FirstRows == <<[message |-> NoMessage, by |-> NoReplica]>>

\* _load: what a replica's caches hold when it starts.
Requested_Forgotten(rows) == [m \in Sources |-> 0]
Requested(rows) ==
    [m \in Sources |-> IF m # NoMessage /\ \E v \in DOMAIN rows : rows[v].message = m
                       THEN CHOOSE v \in DOMAIN rows : rows[v].message = m ELSE 0]
CurrentVersions == {v \in Versions : db.snapshots[v] = "CURRENT"}
Hydrated(current) ==
    [version |-> db.active, rows |-> db.rows, requests |-> Requested(db.rows),
     saved |-> db.saved, current |-> current]

PromotionInit ==
    /\ db = [active |-> 1, rows |-> FirstRows, saved |-> [m \in Sources |-> 0],
             snapshots |-> [v \in Versions |-> "NONE"]]
    /\ cache = [p \in Replicas |-> Hydrated(0)]
    /\ turn = Idle.turn
    /\ chat = [r \in Runs |-> Idle]
    /\ newest \in Runs
    /\ api = [p \in Replicas |-> NoCall]
    /\ overlapped = FALSE
    /\ crashes = 0 /\ stalls = 0 /\ failures = 0

At(r, pc) == chat[r].pc = pc
Replica(r) == chat[r].replica
Mine(r) == chat[r].turn
Cached(r) == cache[chat[r].replica]
Live(r) == ~At(r, "idle")

\* promote after the fence check and the route's mutate run on the replica's event
\* loop without an await, so not inside each other.  The other nodes are
\* synchronous and run in worker threads beside them.
LoopFree(p) ==
    /\ api[p].pc = "idle"
    /\ \A r \in Runs : Replica(r) = p => ~At(r, "insert")

\* An exception: the run is finished FAILED and the checkpoint stays.
Fail(r) == chat' = [chat EXCEPT ![r] = Idle]

\* A checkpoint after a node: the run's own state becomes the thread's, and the
\* run goes on to the next node.
Checkpoint(r, t) ==
    /\ turn' = t
    /\ chat' = [chat EXCEPT ![r] = IF t.next = "end" THEN Idle
                                   ELSE [@ EXCEPT !.pc = t.next, !.turn = t, !.task = 0]]

Pass(r, next) ==
    /\ Checkpoint(r, [Mine(r) EXCEPT !.next = next])
    /\ UNCHANGED <<db, cache, newest, api, overlapped, bounds>>

\* _persist_task merges the copy in hand as the head, and all version rows the cache
\* holds by then; a row another replica has made under the same number raises.
Mergeable(rows) ==
    \A v \in DOMAIN rows \cap DOMAIN db.rows : rows[v] = db.rows[v]
Merged(task, rows) ==
    [db EXCEPT !.active = task, !.rows = IF Len(rows) > Len(@) THEN rows ELSE @]

\* get_task, and update_task later: the copy becomes the head whatever the head is by
\* then, and a new version gets a row, unless its number has one.
Overlaps(p) ==
    \/ api[p].pc \in Writing
    \/ \E r \in Runs : Replica(r) = p /\ chat[r].pc \in Writing
Copy(p) == overlapped' = (overlapped \/ Overlaps(p))
Put(p, task, m) ==
    cache' = [cache EXCEPT ![p].version = task,
                           ![p].rows = IF Len(@) < task
                                       THEN Append(@, [message |-> m, by |-> p]) ELSE @]

\* After the commit of a new version its message is remembered.
Persist(p, task, m) ==
    /\ db' = Merged(task, cache[p].rows)
    /\ cache' = IF m \in Messages THEN [cache EXCEPT ![p].requests[m] = task] ELSE cache

\* save_mutation: a record the cache holds is kept, and another replica's raises.
Recordable(p, m) == db.saved[m] # 0 => cache[p].saved[m] # 0
Recorded(p, m, target) == IF cache[p].saved[m] = 0 THEN target ELSE cache[p].saved[m]
Record(p, m, target) ==
    /\ cache' = [cache EXCEPT ![p].saved[m] = Recorded(p, m, target)]
    /\ db' = [db EXCEPT !.saved[m] = IF Recordable(p, m) THEN Recorded(p, m, target) ELSE @]

-----------------------------------------------------------------------------

\* The message of a new request has not made a version, nor begun to.
Fresh(m) ==
    /\ db.saved[m] = 0
    /\ \A v \in DOMAIN db.rows : db.rows[v].message # m
    /\ \A p \in Replicas : \A v \in DOMAIN cache[p].rows : cache[p].rows[v].message # m

\* A chat request takes the thread: it continues the pending turn, or begins one
\* with a message of its own.  Its replica reads the checkpoint's state.
Start(r, p, m) ==
    /\ At(r, "idle")
    /\ \A q \in Runs : Live(q) => stalls < MaxStalls
    /\ stalls' = IF \E q \in Runs : Live(q) THEN stalls + 1 ELSE stalls
    /\ newest' = r
    /\ \/ /\ turn.next # "end" /\ m = NoMessage
          /\ chat' = [chat EXCEPT ![r] = [Idle EXCEPT !.pc = turn.next, !.replica = p, !.turn = turn]]
          /\ UNCHANGED turn
       \/ /\ turn.next = "end" /\ cache[p].version < MaxVersion
          /\ m \in ChatMessages \cup {NoMessage}
          /\ m # NoMessage => Fresh(m)
          /\ LET new == [next |-> "load", message |-> m, base |-> 0, version |-> 0] IN
             /\ turn' = new
             /\ chat' = [chat EXCEPT ![r] = [Idle EXCEPT !.pc = "load", !.replica = p, !.turn = new]]
    /\ UNCHANGED <<db, cache, api, overlapped, crashes, failures>>

\* load_current_task: the mutation is planned against this version.
Load(r) ==
    /\ At(r, "load")
    /\ Checkpoint(r, [Mine(r) EXCEPT !.base = Cached(r).version, !.next = "apply"])
    /\ UNCHANGED <<db, cache, newest, api, overlapped, bounds>>

\* apply_mutation finds the mutation and the version it records, or apply_patch finds
\* the version it made, or a version is to be made, if the task still is at the
\* version planned against.  The requirement graph makes its version without asking.
Apply(r) ==
    LET m == Mine(r).message
        recorded == Cached(r).saved[m]
        known == Cached(r).requests[m]
        found(v, pc) == chat' = [chat EXCEPT ![r].turn.version = v, ![r].pc = pc]
    IN
    /\ At(r, "apply")
    /\ \/ recorded # 0 /\ found(recorded, "applied") /\ UNCHANGED overlapped
       \/ recorded = 0 /\ known # 0 /\ found(known, "save") /\ UNCHANGED overlapped
       \/ /\ recorded = 0 /\ known = 0
          /\ m \in Messages /\ Cached(r).version # Mine(r).base
          /\ Fail(r)                                   \* TASK_VERSION_CONFLICT
          /\ UNCHANGED overlapped
       \/ /\ recorded = 0 /\ known = 0
          /\ m \in Messages => Cached(r).version = Mine(r).base
          /\ Cached(r).version < MaxVersion
          /\ Copy(Replica(r))
          /\ chat' = [chat EXCEPT ![r].task = Cached(r).version + 1, ![r].pc = "write"]
    /\ UNCHANGED <<db, cache, turn, newest, api, bounds>>

\* The second and third step of a write, of a version or of the stage.
Write(r) ==
    /\ At(r, "write")
    /\ Put(Replica(r), chat[r].task, Mine(r).message)
    /\ chat' = [chat EXCEPT ![r].pc = "commit"]
    /\ UNCHANGED <<db, turn, newest, api, overlapped, bounds>>

CommitVersion(r) ==
    /\ At(r, "commit") /\ Mine(r).next = "apply"
    /\ IF Mergeable(Cached(r).rows)
       THEN /\ Persist(Replica(r), chat[r].task, Mine(r).message)
            /\ chat' = [chat EXCEPT ![r].turn.version = chat[r].task, ![r].task = 0,
                  ![r].pc = IF Mine(r).message \in Messages THEN "save" ELSE "applied"]
       ELSE Fail(r) /\ UNCHANGED <<db, cache>>
    /\ UNCHANGED <<turn, newest, api, overlapped, bounds>>

SaveMutation(r) ==
    /\ At(r, "save")
    /\ Record(Replica(r), Mine(r).message, Mine(r).base + 1)
    /\ IF Recordable(Replica(r), Mine(r).message)
       THEN chat' = [chat EXCEPT ![r].pc = "applied"] ELSE Fail(r)
    /\ UNCHANGED <<turn, newest, api, overlapped, bounds>>

ApplyDone(r) ==
    /\ At(r, "applied")
    /\ Pass(r, "work")

\* A node that sets the task's stage: set_status writes the head, version included.
SetStatus(r) ==
    /\ Copy(Replica(r))
    /\ chat' = [chat EXCEPT ![r].task = Cached(r).version, ![r].pc = "write"]
    /\ UNCHANGED <<db, cache, turn, newest, api, bounds>>

CommitStatus(r) ==
    /\ At(r, "commit") /\ Mine(r).next # "apply"
    /\ IF Mergeable(Cached(r).rows)
       THEN /\ db' = Merged(chat[r].task, Cached(r).rows)
            /\ Checkpoint(r, [Mine(r) EXCEPT !.next = IF @ = "work" THEN "promote" ELSE "end"])
       ELSE Fail(r) /\ UNCHANGED <<db, turn>>
    /\ UNCHANGED <<cache, newest, api, overlapped, bounds>>

\* Planning, research, verification and scoring; planning and scoring set the
\* stage, and a mutation of the display alone needs neither.
Work(r) == At(r, "work") /\ (SetStatus(r) \/ Pass(r, "promote"))

\* promote_execution_snapshot asks can_promote, and awaits the answer.
Check(r) ==
    /\ At(r, "promote")
    /\ chat' = [chat EXCEPT ![r].allowed = (newest = r), ![r].pc = "checked"]
    /\ UNCHANGED <<db, cache, turn, newest, api, overlapped, bounds>>

\* The version fence: the version of the state against that of the cached task.
Current_AnyVersion(r) == TRUE
Current(r) == Mine(r).version = Cached(r).version

\* A refused result is saved as SUPERSEDED.  Otherwise the first transaction of
\* the promotion makes the cached current snapshot REUSABLE.
Reject(r) ==
    /\ At(r, "checked") /\ LoopFree(Replica(r))
    /\ ~(chat[r].allowed /\ Current(r))
    /\ IF db.snapshots[Mine(r).version] = "NONE"
       THEN /\ db' = [db EXCEPT !.snapshots[Mine(r).version] = "SUPERSEDED"]
            /\ chat' = [chat EXCEPT ![r].pc = "promoted"]
       ELSE Fail(r) /\ UNCHANGED db
    /\ UNCHANGED <<cache, turn, newest, api, overlapped, bounds>>

Previous_Kept(r) == {}
Previous(r) == {v \in Versions : v = Cached(r).current}

Demote(r) ==
    /\ At(r, "checked") /\ LoopFree(Replica(r))
    /\ chat[r].allowed /\ Current(r)
    /\ db' = [db EXCEPT !.snapshots = [v \in Versions |->
                 IF v \in Previous(r) THEN "REUSABLE" ELSE @[v]]]
    /\ chat' = [chat EXCEPT ![r].pc = "insert"]
    /\ UNCHANGED <<cache, turn, newest, api, overlapped, bounds>>

\* The second transaction inserts the promoted snapshot.
Insert(r) ==
    /\ At(r, "insert")
    /\ IF db.snapshots[Mine(r).version] = "NONE"
       THEN /\ db' = [db EXCEPT !.snapshots[Mine(r).version] = "CURRENT"]
            /\ cache' = [cache EXCEPT ![Replica(r)].current = Mine(r).version]
            /\ chat' = [chat EXCEPT ![r].pc = "promoted"]
       ELSE Fail(r) /\ UNCHANGED <<db, cache>>
    /\ UNCHANGED <<turn, newest, api, overlapped, bounds>>

PromoteDone(r) ==
    /\ At(r, "promoted")
    /\ Pass(r, "respond")

\* compose_lead_response completes the task, unless it has a newer version.
Respond(r) ==
    /\ At(r, "respond")
    /\ IF Current(r) THEN SetStatus(r) ELSE Pass(r, "end")

\* POST /api/tasks/{task_id}/mutations with the version its client sees, as a new
\* mutation or as a retry.  A stale base_version changes nothing.
ApiMutate(p, m) ==
    /\ LoopFree(p)
    /\ cache[p].saved[m] = 0
    /\ cache[p].version < MaxVersion
    /\ \/ /\ cache[p].requests[m] # 0
          /\ api' = [api EXCEPT ![p] = [pc |-> "record", message |-> m, task |-> cache[p].version + 1]]
          /\ UNCHANGED overlapped
       \/ /\ cache[p].requests[m] = 0
          /\ api' = [api EXCEPT ![p] = [pc |-> "write", message |-> m, task |-> cache[p].version + 1]]
          /\ Copy(p)
    /\ UNCHANGED <<db, cache, turn, chat, newest, bounds>>

ApiWrite(p) ==
    /\ api[p].pc = "write"
    /\ Put(p, api[p].task, api[p].message)
    /\ api' = [api EXCEPT ![p].pc = "commit"]
    /\ UNCHANGED <<db, turn, chat, newest, overlapped, bounds>>

ApiCommit(p) ==
    /\ api[p].pc = "commit"
    /\ IF Mergeable(cache[p].rows)
       THEN /\ Persist(p, api[p].task, api[p].message)
            /\ api' = [api EXCEPT ![p].pc = "record"]
       ELSE /\ api' = [api EXCEPT ![p] = NoCall]
            /\ UNCHANGED <<db, cache>>
    /\ UNCHANGED <<turn, chat, newest, overlapped, bounds>>

ApiRecord(p) ==
    /\ api[p].pc = "record"
    /\ Record(p, api[p].message, api[p].task)
    /\ api' = [api EXCEPT ![p] = NoCall]
    /\ UNCHANGED <<turn, chat, newest, overlapped, bounds>>

\* An exception in a node or in the route, a transaction that fails included: what is
\* in the cache stays there.
Error ==
    /\ failures < MaxFailures
    /\ failures' = failures + 1
    /\ \/ \E r \in Runs : Live(r) /\ Fail(r) /\ UNCHANGED api
       \/ \E p \in Replicas : /\ api[p].pc # "idle" /\ api' = [api EXCEPT ![p] = NoCall]
                              /\ UNCHANGED chat
    /\ UNCHANGED <<db, cache, turn, newest, overlapped, crashes, stalls>>

\* A replica dies, with all it was doing, and starts again.
Restart(p) ==
    /\ crashes < MaxCrashes
    /\ crashes' = crashes + 1
    /\ \E current \in (IF CurrentVersions = {} THEN {0} ELSE CurrentVersions) :
          cache' = [cache EXCEPT ![p] = Hydrated(current)]
    /\ chat' = [r \in Runs |-> IF Replica(r) = p THEN Idle ELSE chat[r]]
    /\ api' = [api EXCEPT ![p] = NoCall]
    /\ UNCHANGED <<db, turn, newest, overlapped, stalls, failures>>

Step(r) ==
    \/ Load(r) \/ Apply(r) \/ Write(r) \/ CommitVersion(r) \/ SaveMutation(r) \/ ApplyDone(r)
    \/ Work(r) \/ CommitStatus(r)
    \/ Check(r) \/ Reject(r) \/ Demote(r) \/ Insert(r) \/ PromoteDone(r) \/ Respond(r)

ApiStep(p) == ApiWrite(p) \/ ApiCommit(p) \/ ApiRecord(p)

PromotionNext ==
    \/ \E r \in Runs, p \in Replicas, m \in Sources : Start(r, p, m)
    \/ \E r \in Runs : Step(r)
    \/ \E p \in Replicas, m \in ApiMessages : ApiMutate(p, m)
    \/ \E p \in Replicas : ApiStep(p) \/ Restart(p)
    \/ Error

PromotionSpec == PromotionInit /\ [][PromotionNext]_promotionVars

\* A run keeps running, and the client of a request that failed sends it again.
Continue == turn.next # "end" /\ \E r \in Runs, p \in Replicas : Start(r, p, NoMessage)
FairSpec ==
    /\ PromotionSpec
    /\ \A r \in Runs : WF_promotionVars(Step(r))
    /\ WF_promotionVars(Continue)
    /\ \A p \in Replicas : WF_promotionVars(ApiStep(p))

-----------------------------------------------------------------------------

\* Types of the variables; the head has a version row, without which _load leaves
\* the task out.
PromotionTypeOK ==
    /\ db.active \in DOMAIN db.rows /\ db.rows \in Seq(Row)
    /\ db.saved \in [Sources -> {0} \cup Versions]
    /\ db.snapshots \in [Versions -> Validity]
    /\ \A p \in Replicas :
          /\ cache[p].version \in Versions /\ cache[p].rows \in Seq(Row)
          /\ {cache[p].requests, cache[p].saved} \subseteq [Sources -> {0} \cup Versions]
          /\ cache[p].current \in {0} \cup Versions
    /\ turn \in Turn
    /\ chat \in [Runs -> [pc : Pcs, replica : Replicas \cup {NoReplica},
                         allowed : BOOLEAN, task : 0..MaxVersion, turn : Turn]]
    /\ newest \in Runs
    /\ api \in [Replicas -> [pc : Writing \cup {"idle", "record"},
                             message : ApiMessages \cup {NoMessage}, task : 0..MaxVersion]]
    /\ overlapped \in BOOLEAN
    /\ crashes \in 0..MaxCrashes /\ stalls \in 0..MaxStalls /\ failures \in 0..MaxFailures

Promotes(v) == db.snapshots[v] # "CURRENT" /\ db'.snapshots[v] = "CURRENT"

\* With one process, whatever crashes between the two transactions of a promotion,
\* a task never has two current snapshots.
OneCurrentHead == \A v, w \in CurrentVersions : v = w

\* With one process, the head only moves forward: no late, retried or overtaken
\* run promotes a version older than one that has been promoted, unless two copies
\* of the task were written at once, or the process restarted and a run was overtaken.
HeadAdvances ==
    [][\A v, w \in Versions :
          /\ ~overlapped /\ (crashes = 0 \/ stalls = 0)
          /\ Promotes(v) /\ db.snapshots[w] \in {"CURRENT", "REUSABLE"}
          => w < v]_promotionVars

\* README.md:145: the task version is checked before a promotion, and an old
\* version that finishes late never becomes the current head.  So it is while no
\* run is overtaken alive and no two copies of the task are written at once.
OnlyActiveVersionPromoted ==
    [][\A v \in Versions : stalls = 0 /\ ~overlapped /\ Promotes(v) => v = db.active]_promotionVars

\* Without the second condition it does not hold: a copy put back late undoes the
\* version of a mutation in the cache, where the version fence looks.
OldVersionNeverPromoted ==
    [][\A v \in Versions : stalls = 0 /\ Promotes(v) => v = db.active]_promotionVars

\* A mutation makes one version, whichever of its steps a crash or a retry repeats:
\* the turn's unless its run was overtaken alive, the route's unless a request failed.
AppliedOnce(messages) ==
    \A v, w \in DOMAIN db.rows :
        db.rows[v].message = db.rows[w].message /\ db.rows[v].message \in messages => v = w
MutationAppliedOnce ==
    /\ stalls = 0 => AppliedOnce(ChatMessages)
    /\ failures = 0 => AppliedOnce(ApiMessages)

\* Without the exceptions it does not hold: only after the commit is it remembered
\* that the version in the cache is this mutation's.
EachMutationOnce == AppliedOnce(Messages)

\* A version that has been made is never replaced, by another replica either.
VersionsImmutable ==
    [][\A v \in DOMAIN db.rows : v \in DOMAIN db'.rows /\ db'.rows[v] = db.rows[v]]_promotionVars

\* README.md:120: the versions of a task increase.  A replica with an old cache
\* writes its old version back when it sets the task's stage.
VersionIncreases == [][db'.active >= db.active]_promotionVars

\* FA-001_REMEDIATION_REPORT.md: a restart does not lose the execution snapshot.
\* When it comes between the two transactions of a promotion, the task has no
\* current snapshot afterwards.
RestartKeepsHead ==
    [][\A p \in Replicas : cache[p].current # 0 => cache'[p].current # 0]_promotionVars

\* RECOVERY_REPORT_PHASE2.md:15,29: a request that failed half way is taken up
\* again from its checkpoint and completes.  Where the bound on versions would
\* stop a turn, nothing is claimed.
AtBound == \E p \in Replicas : cache[p].version = MaxVersion
TurnEnds == turn.next # "end" ~> turn.next = "end" \/ AtBound
=============================================================================
