------------------------- MODULE SessionTurnsProofs -------------------------
(***************************************************************************)
(* What a turn promotes and answers, for every set of messages, patches,   *)
(* rules and candidates and every bound.                                   *)
(*                                                                         *)
(* The inductive invariant has two halves.  RepositoriesOK is about what   *)
(* every request sees: tasks whose versions only grow, mutations not ahead *)
(* of their task, heads that have leads when they have researched members. *)
(* TurnOK is about the checkpoint of the thread, node by node: which scope *)
(* may stand at it, that the version it was planned for is not ahead of    *)
(* the task, and that criteria, reused head and leads belong together as   *)
(* long as that version is the task's.                                     *)
(***************************************************************************)
EXTENDS SessionTurns, FiniteSetTheorems, TLAPS

Scopes == DOMAIN Route

\* None is no record, no scope and no answer.
NoneIsNothing == DOMAIN None = {} /\ None \notin Scopes \cup {"COMPLETED"}

-----------------------------------------------------------------------------
(* The repositories.                                                       *)

\* Tasks are numbered without gaps.
TasksOK ==
    /\ tasks = [t \in Ids |-> tasks[t]]
    /\ \E k \in 0..MaxTasks : Known = 1..k
    /\ \A t \in Known : DOMAIN tasks[t] = DOMAIN NewTask /\ tasks[t].version \in Nat

SessionOK ==
    /\ DOMAIN session = {"active", "latest", "created"}
    /\ DOMAIN session.created = Discoveries
    /\ session.active \in Known \cup {None}
    /\ Known # {} => session.latest \in Known
    /\ \A m \in Discoveries : session.created[m] \in Known \cup {None}

MutationsOK ==
    \A m \in mutations : /\ m.scope \in Scopes /\ m.version \in Nat
                         /\ m.source[1] \in Known
                         /\ m.version <= tasks[m.source[1]].version

\* Who has researched members has leads.
Scored(head) == Members(head.researched) # {} => head.leads # None

HeadsOK ==
    /\ DOMAIN heads = Ids
    /\ \A id \in Ids : heads[id] # None => Scored(heads[id])

\* What was found keeps the versions that have a snapshot.
FoundOK == "snapshots" \in DOMAIN found

RepositoriesOK == TasksOK /\ SessionOK /\ MutationsOK /\ HeadsOK

\* What other requests do to the tasks of a turn.
Grows ==
    /\ Known \subseteq Known'
    /\ \A t \in Known :
          /\ tasks[t].version <= tasks'[t].version
          /\ tasks'[t].version = tasks[t].version => tasks'[t] = tasks[t]

-----------------------------------------------------------------------------
(* The checkpoint.                                                         *)

Requiring == {"CREATE", "REQUIREMENT", "CLARIFY", "PERSIST"}
Planning == {"PLANNING", "CONFLICT"}
Loaded == {"PLAN_CHANGE", "RULE_CONFLICT"}
Changing == {"APPLY", "PERSIST_VERSION", "SELECT_LEADS", "REUSE", "FILTER", "ENRICH"}
Searching == {"RESEARCH", "VERIFY", "SCORE"}

ShapeOK ==
    /\ DOMAIN state = DOMAIN InitialState
    /\ DOMAIN turn = {"node", "message", "error"}
    /\ turn.node = "CREATE" => turn.message \in Discoveries
    /\ turn.node = "SELECT" => state.choices \subseteq Known
    /\ Scored(state.reuse)

\* The scope that may stand at a node.
ScopeOK ==
    /\ state.planned => state.scope \in Scopes
    /\ turn.node \in Requiring => ~ state.planned
    /\ turn.node \in Changing => state.planned
    /\ turn.node = "SELECT_LEADS" => state.scope \in {"NONE", "DISPLAY_ONLY"}
    /\ turn.node = "REUSE" => state.scope = "RANK_ONLY"
    /\ turn.node = "FILTER" => state.scope = "FILTER_ONLY"
    /\ turn.node = "ENRICH" => state.scope = "ENRICHMENT_REQUIRED"
    /\ turn.node \in Planning /\ state.planned => state.scope = "FULL_REPLAN"
    /\ turn.node = "RESEARCH" /\ state.planned => state.scope \in {"DISCOVERY_REQUIRED", "FULL_REPLAN"}
    /\ turn.node \in Searching /\ state.planned => state.scope \notin {"NONE", "DISPLAY_ONLY"}

\* The version of the thread is not ahead of its task.
VersionOK ==
    /\ turn.node \in (Requiring \ {"CREATE"}) \cup Planning \cup Loaded \cup Changing \cup Searching \cup {"PROMOTE", "COMPOSE"} =>
          /\ Active \in Known
          /\ state.version \in Nat
          /\ state.version <= Current.version
    /\ turn.node \in {"TARGET", "READ"} => Active \in Known \cup {None}
    /\ turn.node = "LOAD" => Active \in Known
    /\ turn.node \in Loaded \cup {"APPLY"} => state.source[1] = Active /\ state.before.version = state.version

\* The criteria ask what the task asks.
Ask(c) == AskedOf(Active, c)

CriteriaOK ==
    turn.node \in {"REUSE", "FILTER", "ENRICH", "PROMOTE"} \cup Searching
    /\ OwnScope /\ state.scope \notin {"NONE", "DISPLAY_ONLY"} /\ state.version = Current.version
        => Ask(state.criteria)

\* The head a change was planned on is the task's until the turn replaces it.
HeadOK ==
    state.planned /\ turn.node \in Planning \cup Changing \cup Searching \cup {"PROMOTE"} =>
        \/ Or(heads[Active], NoSnapshot) = state.reuse
        \/ turn.node = "PROMOTE" /\ Promoted

Researched == Or(state.researched, state.candidates)

\* The leads at hand were scored by the criteria at hand, or nothing was found,
\* or they are those of the head that is displayed.
LeadsOK ==
    turn.node = "PROMOTE" =>
        /\ ~ Partial /\ state.scope # "NONE" /\ Members(Researched) # {} => state.leads # None
        /\ OwnScope /\ state.scope \notin {"NONE", "DISPLAY_ONLY"} =>
              \/ state.leads # None /\ state.leads.criteria = state.criteria
              \/ ~ Partial /\ Members(Researched) = {}
        /\ state.planned /\ state.scope = "DISPLAY_ONLY" /\ state.reuse.leads # None =>
              state.leads = state.reuse.leads

\* Who is about to be told that the task is done has a head.
PromotedOK ==
    turn.node = "COMPOSE" /\ state.scope # "NONE" /\ state.version = Current.version =>
        heads[Active] # None /\ heads[Active].version = Current.version

TurnOK ==
    /\ ShapeOK /\ ScopeOK /\ VersionOK /\ CriteriaOK
    /\ HeadOK /\ LeadsOK /\ PromotedOK

IInv == RepositoriesOK /\ TurnOK

-----------------------------------------------------------------------------
(* What an action does to the tasks and to the session.                    *)

\* A task that has an id is in Ids and has a version.
LEMMA KnownTask ==
    ASSUME TasksOK, NEW t \in Known
    PROVE  /\ t \in Ids /\ t \in DOMAIN tasks /\ tasks[t] # None
           /\ DOMAIN tasks[t] = DOMAIN NewTask /\ tasks[t].version \in Nat
BY DEF TasksOK, Known

\* update_task.
LEMMA SavedLemma ==
    ASSUME TasksOK, SessionOK, NEW t \in Known, NEW task, Saved(t, task),
           task # None, DOMAIN task = DOMAIN NewTask, task.version \in Nat,
           tasks[t].version <= task.version,
           task.version = tasks[t].version => task = tasks[t]
    PROVE  TasksOK' /\ SessionOK' /\ Grows /\ Known' = Known /\ tasks'[t] = task
<1>1. /\ tasks' = [tasks EXCEPT ![t] = task] /\ t \in Ids /\ DOMAIN tasks = Ids
      /\ session' = [session EXCEPT !.active = t, !.latest = t]
    BY KnownTask DEF Saved, TasksOK
<1>2. tasks'[t] = task /\ \A id \in Ids : id # t => tasks'[id] = tasks[id]
    BY <1>1
<1>3. Known' = Known
    BY <1>1, <1>2 DEF Known
<1>4. TasksOK'
    BY <1>1, <1>2, <1>3 DEF TasksOK, Known
<1>5. SessionOK'
    BY <1>1, <1>3 DEF SessionOK
<1>6. Grows
    BY <1>1, <1>2, <1>3, KnownTask DEF Grows, Known
<1>7. QED
    BY <1>2, <1>3, <1>4, <1>5, <1>6

\* A change of requirements makes a version.
LEMMA ApplyLemma ==
    ASSUME NoneIsNothing, TasksOK, SessionOK, NEW t \in Known, NEW patch, Apply(t, patch)
    PROVE  /\ TasksOK' /\ SessionOK' /\ Grows /\ Known' = Known
           /\ tasks'[t].version = tasks[t].version + 1
<1>1. DOMAIN tasks[t] = DOMAIN NewTask /\ tasks[t].version \in Nat
    BY KnownTask
<1>2. DOMAIN Patched(tasks[t], patch) = DOMAIN NewTask
    BY <1>1 DEF Patched, NewTask
<1>3. Patched(tasks[t], patch).version = tasks[t].version + 1
    BY <1>1 DEF Patched, NewTask
<1>4. Patched(tasks[t], patch) # None
    BY <1>2 DEF NoneIsNothing, NewTask
<1>5. QED
    BY <1>1, <1>2, <1>3, <1>4, SavedLemma DEF Apply

LEMMA TouchedLemma ==
    ASSUME TasksOK, SessionOK, NEW t \in Known, Touched(t)
    PROVE  TasksOK' /\ SessionOK' /\ Grows /\ Known' = Known /\ tasks' = tasks
<1>1. tasks[t].version \in Nat /\ tasks[t].version <= tasks[t].version
    BY KnownTask
<1>2. TasksOK' /\ SessionOK' /\ Grows /\ Known' = Known
    BY <1>1, KnownTask, SavedLemma DEF Touched
<1>3. tasks' = [tasks EXCEPT ![t] = tasks[t]] /\ t \in Ids /\ tasks = [id \in Ids |-> tasks[id]]
    BY KnownTask DEF Touched, Saved, TasksOK
<1>4. tasks' = tasks
    BY <1>3
<1>5. QED
    BY <1>2, <1>4

\* The next task has the number after those there are.
LEMMA NewTaskLemma ==
    ASSUME NoneIsNothing, TasksOK, SessionOK, NEW m \in Discoveries,
           Cardinality(Known) + 1 \in Ids, Create(Cardinality(Known) + 1, m)
    PROVE  /\ TasksOK' /\ SessionOK' /\ Grows
           /\ Cardinality(Known) + 1 \in Known' /\ tasks'[Cardinality(Known) + 1].version = 1
<1>1. PICK k \in 0..MaxTasks : Known = 1..k
    BY DEF TasksOK
<1>2. MaxTasks \in Nat
    BY BoundsAssumption
<1>3. Cardinality(Known) = k
    BY <1>1, <1>2, FS_Interval
<1> DEFINE t == k + 1
<1> HIDE DEF t
<1>4. /\ tasks' = [tasks EXCEPT ![t] = NewTask] /\ t \in Ids /\ t \notin Known /\ DOMAIN tasks = Ids
      /\ session' = [active |-> t, latest |-> t, created |-> [session.created EXCEPT ![m] = t]]
    <2>1. Create(t, m) /\ t \in Ids
        BY <1>3 DEF t
    <2>2. k + 1 \notin 1..k
        BY <1>1
    <2>3. t \notin Known
        BY <1>1, <2>2 DEF t
    <2>4. QED
        BY <2>1, <2>3 DEF Create, TasksOK
<1>5. tasks'[t] = NewTask /\ \A id \in Ids : id # t => tasks'[id] = tasks[id]
    BY <1>4
<1>6. NewTask # None
    BY DEF NoneIsNothing, NewTask
<1>7. Known' = Known \cup {t} /\ t \in 1..MaxTasks
    BY <1>4, <1>5, <1>6 DEF Known, Ids
<1>8. Known' = 1..t
    BY <1>1, <1>2, <1>7 DEF t
<1>9. TasksOK'
    <2>1. t \in 0..MaxTasks /\ tasks' = [id \in Ids |-> tasks'[id]]
        BY <1>2, <1>4, <1>7 DEF TasksOK
    <2>2. \A id \in Known' : DOMAIN tasks'[id] = DOMAIN NewTask /\ tasks'[id].version \in Nat
        BY <1>4, <1>5, <1>7, KnownTask DEF NewTask
    <2>3. QED
        BY <2>1, <2>2, <1>8 DEF TasksOK
<1>10. SessionOK'
    BY <1>4, <1>7 DEF SessionOK
<1>11. Grows
    BY <1>4, <1>5, <1>7, KnownTask DEF Grows
<1>12. QED
    BY <1>3, <1>5, <1>7, <1>9, <1>10, <1>11 DEF NewTask, t

LEMMA SameTasksLemma ==
    ASSUME TasksOK, SessionOK, UNCHANGED tasks
    PROVE  TasksOK' /\ Grows /\ Known' = Known /\ (session' = session => SessionOK')
BY KnownTask DEF TasksOK, SessionOK, Grows, Known

\* A mutation stays behind its task.
LEMMA MutationsLemma ==
    ASSUME TasksOK, TasksOK', MutationsOK, Grows, UNCHANGED mutations
    PROVE  MutationsOK'
<1>1. SUFFICES ASSUME NEW m \in mutations
               PROVE  /\ m.scope \in Scopes /\ m.version \in Nat
                      /\ m.source[1] \in Known'
                      /\ m.version <= tasks'[m.source[1]].version
    BY DEF MutationsOK, Scopes, Route
<1>2. m.scope \in Scopes /\ m.version \in Nat /\ m.source[1] \in Known /\ m.version <= tasks[m.source[1]].version
    BY DEF MutationsOK
<1>3. m.source[1] \in Known' /\ tasks[m.source[1]].version <= tasks'[m.source[1]].version
    BY <1>2 DEF Grows
<1>4. tasks[m.source[1]].version \in Nat /\ tasks'[m.source[1]].version \in Nat
    BY <1>2, <1>3 DEF TasksOK
<1>5. QED
    BY <1>2, <1>3, <1>4
\* All that the other requests of a conversation and the database keep.
LEMMA RepositoriesLemma ==
    ASSUME RepositoriesOK, TasksOK', SessionOK', Grows, UNCHANGED <<mutations, heads>>
    PROVE  RepositoriesOK'
<1>1. MutationsOK'
    BY MutationsLemma DEF RepositoriesOK
<1>2. HeadsOK'
    BY DEF RepositoriesOK, HeadsOK
<1>3. QED
    BY <1>1, <1>2 DEF RepositoriesOK

LEMMA SameRepositories ==
    ASSUME RepositoriesOK, UNCHANGED <<tasks, session, mutations, heads>>
    PROVE  RepositoriesOK' /\ Grows /\ Known' = Known
BY SameTasksLemma, RepositoriesLemma DEF RepositoriesOK

-----------------------------------------------------------------------------
(* What an action does to the checkpoint.                                  *)

\* A node that did not end, an error, a retry or a request of someone else.
Kept ==
    /\ state' = state
    /\ turn'.node = turn.node /\ turn'.message = turn.message /\ DOMAIN turn' = DOMAIN turn

Ended(new, node) ==
    /\ state' = new
    /\ turn'.node = node /\ turn'.message = turn.message /\ DOMAIN turn' = DOMAIN turn

LEMMA CheckpointLemma ==
    ASSUME ShapeOK, NEW new, NEW node, Checkpoint(new, node)
    PROVE  Ended(new, node) \/ Kept
BY DEF ShapeOK, Checkpoint, Ended, Kept

LEMMA AnsweredLemma ==
    ASSUME ShapeOK, NEW new, NEW node, Answered(new, node)
    PROVE  Ended(new, node)
BY DEF ShapeOK, Answered, Ended

LEMMA RaiseLemma ==
    ASSUME IInv, NEW error, Raise(error)
    PROVE  Kept /\ RepositoriesOK' /\ Grows /\ UNCHANGED <<heads, found>>
<1>1. Kept /\ UNCHANGED <<tasks, session, mutations, heads, found>>
    BY DEF IInv, TurnOK, ShapeOK, Raise, Kept
<1>2. QED
    BY <1>1, SameRepositories DEF IInv

\* What others do meanwhile: a task whose version is the one the thread has is
\* the task the thread has seen.
LEMMA KeptLemma ==
    ASSUME IInv, Kept, RepositoriesOK', Grows, UNCHANGED heads,
           turn.node = "PROMOTE" => UNCHANGED found
    PROVE  IInv'
<1>1. ShapeOK' /\ ScopeOK'
    BY DEF IInv, TurnOK, ShapeOK, ScopeOK, Kept, Grows, Requiring, Planning, Loaded, Changing, Searching,
           Scopes, Route, InitialState, Scored, Members
<1>2. /\ Active' = Active
      /\ Active \in Known => /\ Active \in Known' /\ Current.version \in Nat /\ Current'.version \in Nat
                             /\ Current.version <= Current'.version
                             /\ Current'.version = Current.version => Current' = Current
    BY KnownTask DEF IInv, RepositoriesOK, TasksOK, Kept, Active, Current, Grows
<1>3. VersionOK'
    BY <1>2 DEF IInv, TurnOK, VersionOK, Kept, Requiring, Planning, Loaded, Changing, Searching
<1> DEFINE node == {"REUSE", "FILTER", "ENRICH", "PROMOTE", "COMPOSE"} \cup Searching
<1>4. ASSUME turn.node \in node, state.version = Current'.version
      PROVE  state.version = Current.version /\ Current' = Current
    BY <1>2, <1>4 DEF IInv, TurnOK, VersionOK, Changing, Searching
<1>5. CriteriaOK'
    BY <1>2, <1>4 DEF IInv, TurnOK, CriteriaOK, Ask, AskedOf, Current, OwnScope, Kept
<1>6. HeadOK' /\ LeadsOK'
    BY <1>2 DEF IInv, TurnOK, HeadOK, LeadsOK, Kept, Promoted, Partial, OwnScope, Researched, Active
<1>7. PromotedOK'
    BY <1>2, <1>4 DEF IInv, TurnOK, PromotedOK, Kept
<1>8. QED
    BY <1>1, <1>3, <1>5, <1>6, <1>7 DEF IInv, TurnOK
\* Nodes at which nothing was decided yet for the task the turn is about.
Quiet == {"IDLE", "TARGET", "SELECT", "READ", "SELECT_READ", "LOAD"} \cup Loaded

LEMMA QuietLemma ==
    ASSUME ShapeOK', VersionOK', state'.planned => state'.scope \in Scopes,
           turn'.node \in Quiet \/ (turn'.node \in Requiring /\ ~ state'.planned)
    PROVE  TurnOK'
BY DEF TurnOK, ScopeOK, CriteriaOK, HeadOK, LeadsOK, PromotedOK, Quiet, Loaded, Requiring, Planning,
       Changing, Searching, Scopes, Route

-----------------------------------------------------------------------------
(* The start of a turn.                                                    *)

LEMMA BeginLemma ==
    ASSUME IInv, NEW m, NEW node \in {"CREATE", "TARGET", "READ"}, Begin(m, node),
           node = "CREATE" => m \in Discoveries
    PROVE  IInv'
<1>1. /\ turn' = [node |-> node, message |-> m, error |-> None]
      /\ DOMAIN state' = DOMAIN InitialState /\ ~ state'.planned
      /\ state'.reuse = state.reuse
      /\ UNCHANGED <<tasks, session, mutations, heads>>
    BY DEF Begin, IInv, TurnOK, ShapeOK, InitialState
<1>2. RepositoriesOK'
    BY <1>1, SameRepositories DEF IInv
<1>3. ShapeOK'
    BY <1>1 DEF IInv, TurnOK, ShapeOK, InitialState, Scored, Members
<1>4. VersionOK'
    <2>1. state'.active \in Known' \cup {None}
        BY <1>1, SameRepositories DEF Begin, IInv, TurnOK, ShapeOK, InitialState, RepositoriesOK, SessionOK
    <2>2. QED
        BY <1>1, <2>1 DEF VersionOK, Active, Requiring, Planning, Loaded, Changing, Searching
<1>5. TurnOK'
    BY <1>1, <1>3, <1>4, QuietLemma DEF Quiet, Requiring
<1>6. QED
    BY <1>2, <1>5 DEF IInv

LEMMA RetryLemma == ASSUME IInv, Retry PROVE IInv'
<1>1. Kept /\ UNCHANGED <<tasks, session, mutations, heads, found>>
    BY DEF Retry, Kept, IInv, TurnOK, ShapeOK
<1>2. QED
    BY <1>1, SameRepositories, KeptLemma DEF IInv

LEMMA ApiActivateLemma == ASSUME IInv, NEW id \in Known, ApiActivate(id) PROVE IInv'
<1>1. Kept /\ UNCHANGED <<tasks, mutations, heads, found>> /\ session' = [session EXCEPT !.active = id]
    BY DEF ApiActivate, Kept
<1>2. TasksOK' /\ Grows /\ Known' = Known
    BY <1>1, SameTasksLemma DEF IInv, RepositoriesOK
<1>3. SessionOK'
    BY <1>1, <1>2 DEF IInv, RepositoriesOK, SessionOK
<1>4. QED
    BY <1>1, <1>2, <1>3, RepositoriesLemma, KeptLemma DEF IInv

LEMMA ApiMutateLemma ==
    ASSUME NoneIsNothing, IInv, NEW id \in Known, NEW patch, ApiMutate(id, patch) PROVE IInv'
<1>1. Kept /\ UNCHANGED <<mutations, heads, found>> /\ Apply(id, patch)
    BY DEF ApiMutate, Kept
<1>2. TasksOK' /\ SessionOK' /\ Grows
    BY <1>1, ApplyLemma DEF IInv, RepositoriesOK
<1>3. QED
    BY <1>1, <1>2, RepositoriesLemma, KeptLemma DEF IInv

-----------------------------------------------------------------------------
(* Which task a message means.                                             *)

LEMMA ResolveLemma ==
    ASSUME RepositoriesOK, state.active \in Known \cup {None}, NEW ref
    PROVE  Resolve(ref).candidates \subseteq Known
<1>1. OfBusiness(ref.business) \subseteq Known
    BY DEF OfBusiness
<1>2. Cardinality(OfBusiness(ref.business)) = 1 => OfBusiness(ref.business) # {}
    BY FS_EmptySet
<1>3. Cardinality(Known) = 1 => Known # {}
    BY FS_EmptySet
<1>4. UsesActive(ref) => state.active \in Known
    BY DEF UsesActive
<1>5. Known # {} => session.latest \in Known
    BY DEF RepositoriesOK, SessionOK
<1>6. QED
    BY <1>1, <1>2, <1>3, <1>4, <1>5 DEF Resolve

\* A question: nothing that is checked changes but the node.
LEMMA ShownLemma ==
    ASSUME IInv, UNCHANGED <<tasks, session, mutations, heads>>,
           turn'.node \in {"IDLE", "SELECT_READ"}, DOMAIN turn' = DOMAIN turn,
           DOMAIN state' = DOMAIN state, state'.planned = state.planned, state'.scope = state.scope,
           state'.reuse = state.reuse
    PROVE  IInv'
<1>1. RepositoriesOK'
    BY SameRepositories DEF IInv
<1>2. ShapeOK'
    BY DEF IInv, TurnOK, ShapeOK, InitialState, Scored, Members
<1>3. VersionOK'
    BY DEF VersionOK, Requiring, Planning, Loaded, Changing, Searching
<1>4. state'.planned => state'.scope \in Scopes
    BY DEF IInv, TurnOK, ScopeOK
<1>5. TurnOK'
    BY <1>2, <1>3, <1>4, QuietLemma DEF Quiet, Scopes, Route
<1>6. QED
    BY <1>1, <1>5 DEF IInv

LEMMA ReadTaskLemma == ASSUME IInv, ReadTask PROVE IInv'
<1>1. ASSUME NEW error, Raise(error) PROVE IInv'
    BY <1>1, RaiseLemma, KeptLemma
<1>0. turn.node = "READ"
    BY DEF ReadTask, At
<1>2. ASSUME NEW id, Checkpoint([state EXCEPT !.target = id, !.shown = Explained(id)], "IDLE"),
             UNCHANGED <<tasks, session, mutations, heads, found>>
      PROVE  IInv'
    <2>1. CASE Kept
        BY <1>2, <2>1, SameRepositories, KeptLemma DEF IInv
    <2>2. CASE Ended([state EXCEPT !.target = id, !.shown = Explained(id)], "IDLE")
        BY <1>2, <2>2, ShownLemma DEF Ended, IInv, TurnOK, ShapeOK, InitialState
    <2>3. QED
        BY <1>2, <2>1, <2>2, CheckpointLemma DEF IInv, TurnOK
<1>3. ASSUME NEW ids, Checkpoint([state EXCEPT !.choices = ids], "SELECT_READ"),
             UNCHANGED <<tasks, session, mutations, heads, found>>
      PROVE  IInv'
    <2>1. CASE Kept
        BY <1>3, <2>1, SameRepositories, KeptLemma DEF IInv
    <2>2. CASE Ended([state EXCEPT !.choices = ids], "SELECT_READ")
        BY <1>3, <2>2, ShownLemma DEF Ended, IInv, TurnOK, ShapeOK, InitialState
    <2>3. QED
        BY <1>3, <2>1, <2>2, CheckpointLemma DEF IInv, TurnOK
<1>4. QED
    BY <1>1, <1>2, <1>3 DEF ReadTask

LEMMA SelectReadLemma == ASSUME IInv, NEW a, SelectRead(a) PROVE IInv'
<1>1. CASE a.task = None
    BY <1>1, RaiseLemma, KeptLemma DEF SelectRead
<1>2. CASE a.task # None
    <2>1. /\ Answered([state EXCEPT !.target = a.task, !.shown = Explained(a.task)], "IDLE")
          /\ UNCHANGED <<tasks, session, mutations, heads, found>>
        BY <1>2 DEF SelectRead
    <2>2. Ended([state EXCEPT !.target = a.task, !.shown = Explained(a.task)], "IDLE")
        BY <2>1, AnsweredLemma DEF IInv, TurnOK
    <2>3. QED
        BY <2>1, <2>2, ShownLemma DEF Ended, IInv, TurnOK, ShapeOK, InitialState
<1>3. QED
    BY <1>1, <1>2
-----------------------------------------------------------------------------
(* A new task.                                                             *)

\* A turn that has just made or found its task.
LEMMA RequiringLemma ==
    ASSUME IInv, RepositoriesOK', turn'.node \in {"REQUIREMENT", "CLARIFY", "PERSIST"},
           DOMAIN turn' = DOMAIN turn, DOMAIN state' = DOMAIN state, state'.reuse = state.reuse,
           ~ state'.planned, state'.active \in Known',
           state'.version \in Nat, state'.version <= tasks'[state'.active].version
    PROVE  IInv'
<1>1. ShapeOK'
    BY DEF IInv, TurnOK, ShapeOK, InitialState, Scored, Members
<1>2. VersionOK'
    BY DEF VersionOK, Loaded, Active, Current
<1>3. TurnOK'
    BY <1>1, <1>2, QuietLemma DEF Requiring
<1>4. QED
    BY <1>3 DEF IInv

LEMMA CreateLeadTaskLemma == ASSUME NoneIsNothing, IInv, CreateLeadTask PROVE IInv'
<1>1. /\ turn.node = "CREATE" /\ turn.message \in Discoveries /\ ~ state.planned
      /\ DOMAIN state = DOMAIN InitialState
      /\ UNCHANGED <<mutations, heads>>
    BY DEF CreateLeadTask, At, IInv, TurnOK, ShapeOK, ScopeOK, Requiring
<1> DEFINE old == session.created[turn.message]
           new == Cardinality(Known) + 1
<1>2. CASE old # None
    <2>1. /\ UNCHANGED <<tasks, session>>
          /\ Checkpoint([state EXCEPT !.active = old, !.version = tasks[old].version], "REQUIREMENT")
        BY <1>2 DEF CreateLeadTask
    <2>2. RepositoriesOK' /\ Grows /\ Known' = Known
        BY <1>1, <2>1, SameRepositories DEF IInv
    <2>3. CASE Kept
        BY <1>1, <2>2, <2>3, KeptLemma
    <2>4. CASE Ended([state EXCEPT !.active = old, !.version = tasks[old].version], "REQUIREMENT")
        <3>1. old \in Known /\ tasks[old].version \in Nat
            BY <1>1, <1>2, KnownTask DEF IInv, RepositoriesOK, SessionOK
        <3>2. /\ state'.active = old /\ state'.version = tasks[old].version /\ ~ state'.planned
              /\ DOMAIN state' = DOMAIN state /\ state'.reuse = state.reuse
            BY <1>1, <2>4 DEF Ended, InitialState
        <3>3. QED
            BY <2>1, <2>2, <2>4, <3>1, <3>2, RequiringLemma DEF Ended
    <2>5. QED
        BY <2>1, <2>3, <2>4, CheckpointLemma DEF IInv, TurnOK
<1>3. CASE old = None
    <2>1. /\ new \in Ids /\ Create(new, turn.message)
          /\ Checkpoint([state EXCEPT !.active = new, !.version = 1], "REQUIREMENT")
        BY <1>3 DEF CreateLeadTask
    <2>2. TasksOK' /\ SessionOK' /\ Grows /\ new \in Known' /\ tasks'[new].version = 1
        BY <1>1, <2>1, NewTaskLemma DEF IInv, RepositoriesOK
    <2>3. RepositoriesOK'
        BY <1>1, <2>2, RepositoriesLemma DEF IInv
    <2>4. CASE Kept
        BY <1>1, <2>2, <2>3, <2>4, KeptLemma
    <2>5. CASE Ended([state EXCEPT !.active = new, !.version = 1], "REQUIREMENT")
        <3>1. /\ state'.active = new /\ state'.version = 1 /\ ~ state'.planned
              /\ DOMAIN state' = DOMAIN state /\ state'.reuse = state.reuse
            BY <1>1, <2>5 DEF Ended, InitialState
        <3>2. QED
            BY <2>2, <2>3, <2>5, <3>1, RequiringLemma DEF Ended
    <2>6. QED
        BY <2>1, <2>4, <2>5, CheckpointLemma DEF IInv, TurnOK
<1>4. QED
    BY <1>2, <1>3

\* What a turn that collects requirements knows.
LEMMA RequiringFacts ==
    ASSUME IInv, turn.node \in {"REQUIREMENT", "CLARIFY", "PERSIST"}
    PROVE  /\ Active \in Known /\ state.version \in Nat /\ state.version <= Current.version
           /\ ~ state.planned /\ DOMAIN state = DOMAIN InitialState
           /\ Current.version \in Nat
BY KnownTask DEF IInv, RepositoriesOK, TurnOK, ShapeOK, ScopeOK, VersionOK, Requiring, Current

LEMMA RequirementLemma == ASSUME IInv, Requirement PROVE IInv'
<1>1. PICK patch :
          /\ Checkpoint([state EXCEPT !.patch = patch], IF Missing(patch) = {} THEN "PERSIST" ELSE "CLARIFY")
          /\ UNCHANGED <<tasks, session, mutations, heads, found>> /\ turn.node = "REQUIREMENT"
    BY DEF Requirement, Collected, At
<1>2. RepositoriesOK' /\ Grows /\ Known' = Known
    BY <1>1, SameRepositories DEF IInv
<1>3. CASE Kept
    BY <1>1, <1>2, <1>3, KeptLemma
<1>4. CASE Ended([state EXCEPT !.patch = patch], IF Missing(patch) = {} THEN "PERSIST" ELSE "CLARIFY")
    <2>1. /\ state'.active = state.active /\ state'.version = state.version /\ ~ state'.planned
          /\ DOMAIN state' = DOMAIN state /\ state'.reuse = state.reuse
        BY <1>1, <1>4, RequiringFacts DEF Ended, InitialState
    <2>2. turn'.node \in {"PERSIST", "CLARIFY"}
        BY <1>4 DEF Ended
    <2>3. QED
        BY <1>1, <1>2, <1>4, <2>1, <2>2, RequiringFacts, RequiringLemma DEF Ended, Active, Current
<1>5. QED
    BY <1>1, <1>3, <1>4, CheckpointLemma DEF IInv, TurnOK

LEMMA ClarifyLemma == ASSUME IInv, NEW a, Clarify(a) PROVE IInv'
<1>1. PICK patch :
          /\ Answered([state EXCEPT !.clarification = a.patch, !.patch = patch],
                      IF Missing(patch) = {} THEN "PERSIST" ELSE "CLARIFY")
          /\ UNCHANGED <<tasks, session, mutations, heads, found>> /\ turn.node = "CLARIFY"
    BY DEF Clarify, Answer
<1>2. RepositoriesOK' /\ Grows /\ Known' = Known
    BY <1>1, SameRepositories DEF IInv
<1>3. Ended([state EXCEPT !.clarification = a.patch, !.patch = patch],
            IF Missing(patch) = {} THEN "PERSIST" ELSE "CLARIFY")
    BY <1>1, AnsweredLemma DEF IInv, TurnOK
<1>4. /\ state'.active = state.active /\ state'.version = state.version /\ ~ state'.planned
      /\ DOMAIN state' = DOMAIN state /\ state'.reuse = state.reuse
    BY <1>1, <1>3, RequiringFacts DEF Ended, InitialState
<1>5. turn'.node \in {"PERSIST", "CLARIFY"}
    BY <1>3 DEF Ended
<1>6. QED
    BY <1>1, <1>2, <1>3, <1>4, <1>5, RequiringFacts, RequiringLemma DEF Ended, Active, Current

-----------------------------------------------------------------------------
(* Business planning.                                                      *)

\* A turn at business planning, with the head that a full replan reuses.
LEMMA PlanningLemma ==
    ASSUME IInv, RepositoriesOK', UNCHANGED heads, turn'.node \in Planning,
           DOMAIN turn' = DOMAIN turn, DOMAIN state' = DOMAIN state, state'.reuse = state.reuse,
           state'.planned = state.planned, state'.scope = state.scope, state'.active = state.active,
           state.planned => state.scope = "FULL_REPLAN" /\ Or(heads[Active], NoSnapshot) = state.reuse,
           Active \in Known', state'.version \in Nat, state'.version <= tasks'[Active].version
    PROVE  IInv'
<1>1. ShapeOK'
    BY DEF IInv, TurnOK, ShapeOK, InitialState, Scored, Members, Planning
<1>2. VersionOK'
    BY DEF VersionOK, Loaded, Active, Current, Planning
<1>3. ScopeOK'
    BY DEF ScopeOK, Requiring, Planning, Loaded, Changing, Searching, Scopes, Route
<1>4. HeadOK'
    BY DEF HeadOK, Active, Planning
<1>5. CriteriaOK' /\ LeadsOK' /\ PromotedOK'
    BY DEF CriteriaOK, LeadsOK, PromotedOK, Planning, Searching
<1>6. QED
    BY <1>1, <1>2, <1>3, <1>4, <1>5 DEF IInv, TurnOK

LEMMA PersistTaskLemma == ASSUME NoneIsNothing, IInv, PersistTask PROVE IInv'
<1>1. /\ turn.node = "PERSIST" /\ Apply(Active, state.patch) /\ UNCHANGED <<mutations, heads, found>>
      /\ Checkpoint([state EXCEPT !.version = Current.version + 1], "PLANNING")
    BY DEF PersistTask, At
<1>2. /\ Active \in Known /\ ~ state.planned /\ DOMAIN state = DOMAIN InitialState
      /\ Current.version \in Nat
    BY <1>1, RequiringFacts
<1>3. /\ TasksOK' /\ SessionOK' /\ Grows /\ Known' = Known
      /\ tasks'[Active].version = Current.version + 1
    BY <1>1, <1>2, ApplyLemma DEF IInv, RepositoriesOK, Current
<1>4. RepositoriesOK'
    BY <1>1, <1>3, RepositoriesLemma DEF IInv
<1>5. CASE Kept
    BY <1>1, <1>3, <1>4, <1>5, KeptLemma
<1>6. CASE Ended([state EXCEPT !.version = Current.version + 1], "PLANNING")
    <2>1. /\ state'.active = state.active /\ state'.version = Current.version + 1
          /\ state'.planned = state.planned /\ state'.scope = state.scope
          /\ DOMAIN state' = DOMAIN state /\ state'.reuse = state.reuse
        BY <1>2, <1>6 DEF Ended, InitialState
    <2>2. QED
        BY <1>1, <1>2, <1>3, <1>4, <1>6, <2>1, PlanningLemma DEF Ended, Planning
<1>7. QED
    BY <1>1, <1>5, <1>6, CheckpointLemma DEF IInv, TurnOK

LEMMA PlanningFacts ==
    ASSUME IInv, turn.node \in Planning
    PROVE  /\ Active \in Known /\ state.version \in Nat /\ state.version <= Current.version
           /\ state.planned => /\ state.scope = "FULL_REPLAN"
                               /\ Or(heads[Active], NoSnapshot) = state.reuse
           /\ DOMAIN state = DOMAIN InitialState
           /\ Current.version \in Nat
BY KnownTask DEF IInv, RepositoriesOK, TurnOK, ShapeOK, ScopeOK, VersionOK, HeadOK, Planning, Current

LEMMA ResolveConflictLemma == ASSUME NoneIsNothing, IInv, NEW a, ResolveConflict(a) PROVE IInv'
<1>1. PICK patch : Apply(Active, patch)
    BY DEF ResolveConflict
<1>2. /\ turn.node = "CONFLICT" /\ Answered(state, "PLANNING") /\ UNCHANGED <<mutations, heads, found>>
    BY DEF ResolveConflict, Answer
<1>3. Ended(state, "PLANNING")
    BY <1>2, AnsweredLemma DEF IInv, TurnOK
<1>4. turn.node \in Planning /\ turn'.node \in Planning
    BY <1>2, <1>3 DEF Planning, Ended
<1>5. /\ TasksOK' /\ SessionOK' /\ Grows /\ Known' = Known
      /\ tasks'[Active].version = Current.version + 1
    BY <1>1, <1>4, PlanningFacts, ApplyLemma DEF IInv, RepositoriesOK, Current
<1>6. RepositoriesOK'
    BY <1>2, <1>5, RepositoriesLemma DEF IInv
<1>7. QED
    BY <1>2, <1>3, <1>4, <1>5, <1>6, PlanningFacts, PlanningLemma DEF Ended

\* The criteria of a plan hold the task's hard constraints that are valid rules.
LEMMA CompiledLemma ==
    ASSUME NEW t, NEW task, NEW official
    PROVE  /\ Compiled(t, task, official).task = t
           /\ Compiled(t, task, official).version = task.version
           /\ Compiled(t, task, official).business = task.business
           /\ Compiled(t, task, official).region = task.region
           /\ Compiled(t, task, official).target = task.target
           /\ Accepted(task.business, Of(task.constraints, "HARD")) \subseteq Compiled(t, task, official).hard
BY DEF Compiled, Criteria, Hard, Accepted

LEMMA PlanLemma == ASSUME IInv, Plan PROVE IInv'
<1>1. turn.node = "PLANNING" /\ turn.node \in Planning /\ UNCHANGED <<mutations, heads>>
    BY DEF Plan, At, Planning
<1> DEFINE new == [state EXCEPT !.version = Current.version]
<1>2. /\ Active \in Known /\ state.version \in Nat
      /\ state.planned => state.scope = "FULL_REPLAN" /\ Or(heads[Active], NoSnapshot) = state.reuse
      /\ DOMAIN state = DOMAIN InitialState /\ Current.version \in Nat
    BY <1>1, PlanningFacts
<1>3. CASE Checkpoint(new, "CONFLICT") /\ UNCHANGED <<tasks, session>>
    <2>1. RepositoriesOK' /\ Grows /\ Known' = Known
        BY <1>1, <1>3, SameRepositories DEF IInv
    <2>2. CASE Kept
        BY <1>1, <2>1, <2>2, KeptLemma
    <2>3. CASE Ended(new, "CONFLICT")
        <3>1. /\ state'.active = state.active /\ state'.version = Current.version
              /\ state'.planned = state.planned /\ state'.scope = state.scope
              /\ DOMAIN state' = DOMAIN state /\ state'.reuse = state.reuse
            BY <1>2, <2>3 DEF Ended, InitialState
        <3>2. tasks'[Active].version = Current.version
            BY <1>3 DEF Current
        <3>3. QED
            BY <1>1, <1>2, <2>1, <2>3, <3>1, <3>2, PlanningLemma DEF Ended, Planning
    <2>4. QED
        BY <1>3, <2>2, <2>3, CheckpointLemma DEF IInv, TurnOK
<1>4. ASSUME NEW official, PersistCriteria(new, official) PROVE IInv'
    <2> DEFINE criteria == Compiled(Active, Current, official)
    <2>1. Touched(Active) /\ Checkpoint([new EXCEPT !.criteria = criteria], "RESEARCH")
        BY <1>4 DEF PersistCriteria
    <2>2. TasksOK' /\ SessionOK' /\ Grows /\ Known' = Known /\ tasks' = tasks
        BY <1>2, <2>1, TouchedLemma DEF IInv, RepositoriesOK
    <2>3. RepositoriesOK'
        BY <1>1, <2>2, RepositoriesLemma DEF IInv
    <2>4. CASE Kept
        BY <1>1, <2>2, <2>3, <2>4, KeptLemma
    <2>5. CASE Ended([new EXCEPT !.criteria = criteria], "RESEARCH")
        <3> HIDE DEF criteria
        <3>1. /\ state'.active = state.active /\ state'.version = Current.version
              /\ state'.planned = state.planned /\ state'.scope = state.scope
              /\ DOMAIN state' = DOMAIN state /\ state'.reuse = state.reuse
              /\ state'.criteria = criteria
            BY <1>2, <2>5 DEF Ended, InitialState
        <3>2. turn'.node = "RESEARCH" /\ DOMAIN turn' = DOMAIN turn
            BY <2>5 DEF Ended
        <3>3. Active' = Active /\ Current' = Current /\ heads'[Active] = heads[Active]
            BY <1>1, <2>2, <3>1 DEF Active, Current
        <3>4. ShapeOK'
            BY <3>1, <3>2 DEF IInv, TurnOK, ShapeOK, InitialState, Scored, Members
        <3>5. ScopeOK'
            BY <1>2, <3>1, <3>2 DEF ScopeOK, Requiring, Planning, Loaded, Changing, Searching, Scopes, Route
        <3>6. VersionOK'
            BY <1>2, <2>2, <3>1, <3>2, <3>3 DEF VersionOK, Loaded
        <3>7. Ask(state.criteria)'
            BY <3>1, <3>3, CompiledLemma DEF Ask, AskedOf, Current, criteria
        <3>8. CriteriaOK' /\ HeadOK' /\ LeadsOK' /\ PromotedOK'
            BY <1>2, <3>1, <3>2, <3>3, <3>7 DEF CriteriaOK, HeadOK, LeadsOK, PromotedOK
        <3>9. QED
            BY <2>3, <3>4, <3>5, <3>6, <3>8 DEF IInv, TurnOK
    <2>6. QED
        BY <2>1, <2>4, <2>5, CheckpointLemma DEF IInv, TurnOK
<1>5. QED
    BY <1>3, <1>4 DEF Plan
-----------------------------------------------------------------------------
(* A change of a task.                                                     *)

\* A turn that knows which task it changes.
LEMMA TargetLemma ==
    ASSUME IInv, NEW id \in Known, TasksOK', Grows, SessionOK', UNCHANGED <<tasks, mutations, heads>>,
           Ended([state EXCEPT !.active = id, !.target = id], "LOAD")
    PROVE  IInv'
<1>1. /\ state'.active = id /\ state'.planned = state.planned /\ state'.scope = state.scope
      /\ DOMAIN state' = DOMAIN state /\ state'.reuse = state.reuse
      /\ turn'.node = "LOAD" /\ DOMAIN turn' = DOMAIN turn
    BY DEF Ended, IInv, TurnOK, ShapeOK, InitialState
<1>2. RepositoriesOK'
    BY RepositoriesLemma DEF IInv
<1>3. ShapeOK'
    BY <1>1 DEF IInv, TurnOK, ShapeOK, InitialState, Scored, Members
<1>4. VersionOK'
    BY <1>1 DEF VersionOK, Requiring, Planning, Loaded, Changing, Searching, Active, Grows
<1>5. TurnOK'
    BY <1>1, <1>3, <1>4, QuietLemma DEF Quiet, IInv, TurnOK, ScopeOK, Scopes, Route
<1>6. QED
    BY <1>2, <1>5 DEF IInv

LEMMA ActivateLemma ==
    ASSUME IInv, NEW id \in Known, UNCHANGED <<tasks, mutations, heads>>,
           session' = [session EXCEPT !.active = id]
    PROVE  RepositoriesOK' /\ Grows /\ Known' = Known
<1>1. TasksOK' /\ Grows /\ Known' = Known
    BY SameTasksLemma DEF IInv, RepositoriesOK
<1>2. SessionOK'
    BY <1>1 DEF IInv, RepositoriesOK, SessionOK
<1>3. QED
    BY <1>1, <1>2, RepositoriesLemma DEF IInv

LEMMA ResolveTargetLemma == ASSUME IInv, ResolveTarget PROVE IInv'
<1>0. turn.node = "TARGET"
    BY DEF ResolveTarget, At
<1>1. ASSUME NEW id \in Known, Activated(id, "LOAD", Checkpoint), UNCHANGED <<tasks, mutations, heads>>
      PROVE  IInv'
    <2>1. /\ session' = [session EXCEPT !.active = id]
          /\ Checkpoint([state EXCEPT !.active = id, !.target = id], "LOAD")
        BY <1>1 DEF Activated
    <2>2. RepositoriesOK' /\ Grows
        BY <1>1, <2>1, ActivateLemma
    <2>3. CASE Kept
        BY <1>0, <1>1, <2>2, <2>3, KeptLemma
    <2>4. CASE Ended([state EXCEPT !.active = id, !.target = id], "LOAD")
        BY <1>1, <2>2, <2>4, TargetLemma DEF RepositoriesOK
    <2>5. QED
        BY <2>1, <2>3, <2>4, CheckpointLemma DEF IInv, TurnOK
<1>2. ASSUME NEW ids \in SUBSET Known, Checkpoint([state EXCEPT !.choices = ids], "SELECT"),
             UNCHANGED <<tasks, session, mutations, heads>>
      PROVE  IInv'
    <2>1. RepositoriesOK' /\ Grows /\ Known' = Known
        BY <1>2, SameRepositories DEF IInv
    <2>2. CASE Kept
        BY <1>0, <1>2, <2>1, <2>2, KeptLemma
    <2>3. CASE Ended([state EXCEPT !.choices = ids], "SELECT")
        <3>1. /\ state'.planned = state.planned /\ state'.scope = state.scope /\ state'.choices = ids
              /\ DOMAIN state' = DOMAIN state /\ state'.reuse = state.reuse
              /\ turn'.node = "SELECT" /\ DOMAIN turn' = DOMAIN turn
            BY <2>3 DEF Ended, IInv, TurnOK, ShapeOK, InitialState
        <3>2. ShapeOK'
            BY <2>1, <3>1 DEF IInv, TurnOK, ShapeOK, InitialState, Scored, Members
        <3>3. VersionOK'
            BY <3>1 DEF VersionOK, Requiring, Planning, Loaded, Changing, Searching
        <3>4. TurnOK'
            BY <3>1, <3>2, <3>3, QuietLemma DEF Quiet, IInv, TurnOK, ScopeOK, Scopes, Route
        <3>5. QED
            BY <2>1, <3>4 DEF IInv
    <2>4. QED
        BY <1>2, <2>2, <2>3, CheckpointLemma DEF IInv, TurnOK
<1>3. ASSUME NEW error, Raise(error) PROVE IInv'
    BY <1>3, RaiseLemma, KeptLemma
<1>4. Resolve(turn.message.ref).candidates \in SUBSET Known
    BY ResolveLemma DEF ResolveTarget, At, IInv, TurnOK, VersionOK, Active
<1>5. QED
    BY <1>1, <1>2, <1>3, <1>4 DEF ResolveTarget

LEMMA SelectTaskLemma == ASSUME IInv, NEW a, SelectTask(a) PROVE IInv'
<1>1. CASE a.task \notin state.choices
    BY <1>1, RaiseLemma, KeptLemma DEF SelectTask
<1>2. CASE a.task \in state.choices
    <2>1. /\ turn.node = "SELECT" /\ UNCHANGED <<tasks, mutations, heads>>
          /\ session' = [session EXCEPT !.active = a.task]
          /\ Answered([state EXCEPT !.active = a.task, !.target = a.task], "LOAD")
        BY <1>2 DEF SelectTask, Activated, Answer
    <2>2. a.task \in Known
        BY <1>2, <2>1 DEF IInv, TurnOK, ShapeOK
    <2>3. RepositoriesOK' /\ Grows
        BY <2>1, <2>2, ActivateLemma
    <2>4. Ended([state EXCEPT !.active = a.task, !.target = a.task], "LOAD")
        BY <2>1, AnsweredLemma DEF IInv, TurnOK
    <2>5. QED
        BY <2>1, <2>2, <2>3, <2>4, TargetLemma DEF RepositoriesOK
<1>3. QED
    BY <1>1, <1>2

\* Whatever a change invalidates, its scope is one of the seven.
LEMMA ScopeLemma ==
    ASSUME NEW before, NEW after, NEW reuse PROVE Scope(before, after, reuse) \in Scopes
<1>1. \A hard : HardScope(hard, reuse) \in Scopes
    BY DEF HardScope, Scopes, Route
<1>2. CountScope(before.target, after.target, reuse) \in Scopes
    BY DEF CountScope, Scopes, Route
<1>3. QED
    BY <1>1, <1>2 DEF Scope, Scopes, Route

\* The head that is reused has leads when it has researched members.
LEMMA ReusableLemma ==
    ASSUME RepositoriesOK, NEW t \in Known
    PROVE  Reusable(t).head = Or(heads[t], NoSnapshot) /\ Scored(Reusable(t).head)
<1>1. Reusable(t).head = Or(heads[t], NoSnapshot)
    BY DEF Reusable
<1>2. Scored(NoSnapshot)
    BY DEF Scored, NoSnapshot, Members
<1>3. t \in Ids
    BY DEF Known
<1>4. QED
    BY <1>1, <1>2, <1>3 DEF Or, RepositoriesOK, HeadsOK

\* The task is loaded: what the change is planned against.
LEMMA LoadTaskLemma == ASSUME IInv, LoadTask PROVE IInv'
<1> DEFINE new == [state EXCEPT !.before = Current, !.version = Current.version,
                                !.source = <<Active, Current.version, turn.message>>]
<1>1. /\ turn.node = "LOAD" /\ UNCHANGED <<tasks, session, mutations, heads>>
      /\ Checkpoint(new, "PLAN_CHANGE")
    BY DEF LoadTask, At
<1>2. RepositoriesOK' /\ Grows /\ Known' = Known
    BY <1>1, SameRepositories DEF IInv
<1>3. Active \in Known /\ Current.version \in Nat
    BY <1>1, KnownTask DEF IInv, TurnOK, VersionOK, RepositoriesOK, Current
<1>4. CASE Kept
    BY <1>1, <1>2, <1>4, KeptLemma
<1>5. CASE Ended(new, "PLAN_CHANGE")
    <2>1. /\ state'.active = Active /\ state'.version = Current.version /\ state'.before = Current
          /\ state'.source = <<Active, Current.version, turn.message>> /\ state'.planned = state.planned
          /\ state'.reuse = state.reuse /\ state'.scope = state.scope /\ DOMAIN state' = DOMAIN state
          /\ turn'.node = "PLAN_CHANGE" /\ DOMAIN turn' = DOMAIN turn
        BY <1>5 DEF Ended, IInv, TurnOK, ShapeOK, InitialState, Active
    <2>2. Active' = Active /\ Current' = Current
        BY <1>1, <2>1 DEF Active, Current
    <2>3. ShapeOK'
        BY <2>1 DEF IInv, TurnOK, ShapeOK, InitialState, Scored, Members
    <2>4. VersionOK'
        BY <1>2, <1>3, <2>1, <2>2 DEF VersionOK
    <2>5. TurnOK'
        BY <2>1, <2>3, <2>4, QuietLemma DEF Quiet, Loaded, IInv, TurnOK, ScopeOK, Scopes, Route
    <2>6. QED
        BY <1>2, <2>5 DEF IInv
<1>6. QED
    BY <1>1, <1>4, <1>5, CheckpointLemma DEF IInv, TurnOK

\* What a turn knows of the task it has loaded.
LEMMA LoadedFacts ==
    ASSUME IInv, turn.node \in Loaded
    PROVE  /\ Active \in Known /\ state.version \in Nat /\ state.version <= Current.version
           /\ state.source[1] = Active /\ state.before.version = state.version
BY DEF IInv, TurnOK, VersionOK

\* A change that is planned for the task as it was loaded.
LEMMA PlannedLemma ==
    ASSUME IInv, NEW patch, turn.node \in Loaded,
           Ended(Planned(patch), "APPLY"), UNCHANGED <<tasks, session, mutations, heads>>
    PROVE  IInv'
<1>1. RepositoriesOK' /\ Grows /\ Known' = Known
    BY SameRepositories DEF IInv
<1>2. Active \in Known
    BY LoadedFacts
<1> DEFINE reuse == Reusable(Active)
<1>3. /\ state'.active = Active /\ state'.version = state.version /\ state'.before = state.before
      /\ state'.source = state.source /\ state'.planned = TRUE
      /\ state'.reuse = reuse.head
      /\ state'.scope = Scope(state.before, Patched(state.before, patch), reuse)
      /\ DOMAIN state' = DOMAIN state
      /\ turn'.node = "APPLY" /\ DOMAIN turn' = DOMAIN turn
    BY DEF Ended, Planned, IInv, TurnOK, ShapeOK, InitialState, Active
<1>4. reuse.head = Or(heads[Active], NoSnapshot) /\ Scored(reuse.head)
    BY <1>2, ReusableLemma DEF IInv
<1>5. state'.scope \in Scopes
    BY <1>3, ScopeLemma
<1> HIDE DEF reuse
<1>6. Active' = Active /\ Current' = Current
    BY <1>3 DEF Active, Current
<1>7. ShapeOK'
    BY <1>3, <1>4 DEF IInv, TurnOK, ShapeOK, InitialState, Scored, Members
<1>8. ScopeOK'
    BY <1>3, <1>5 DEF ScopeOK, Requiring, Planning, Loaded, Changing, Searching, Scopes, Route
<1>9. VersionOK'
    BY <1>1, <1>3, <1>6, LoadedFacts DEF VersionOK
<1>10. HeadOK'
    BY <1>3, <1>4, <1>6 DEF HeadOK
<1>11. CriteriaOK' /\ LeadsOK' /\ PromotedOK'
    BY <1>3 DEF CriteriaOK, LeadsOK, PromotedOK, Searching
<1>12. QED
    BY <1>1, <1>7, <1>8, <1>9, <1>10, <1>11 DEF IInv, TurnOK

LEMMA PlanChangeLemma == ASSUME IInv, PlanChange PROVE IInv'
<1>1. /\ turn.node = "PLAN_CHANGE" /\ UNCHANGED <<tasks, session, mutations, heads>>
    BY DEF PlanChange, At
<1>2. RepositoriesOK' /\ Grows /\ Known' = Known
    BY <1>1, SameRepositories DEF IInv
<1>3. CASE Kept
    BY <1>1, <1>2, <1>3, KeptLemma
<1>4. CASE Ended(state, "RULE_CONFLICT")
    <2>1. state' = state /\ turn'.node = "RULE_CONFLICT" /\ DOMAIN turn' = DOMAIN turn
        BY <1>4 DEF Ended
    <2>2. ShapeOK'
        BY <2>1 DEF IInv, TurnOK, ShapeOK, InitialState, Scored, Members
    <2>3. VersionOK'
        <3>1. Active' = Active /\ Current' = Current
            BY <1>1, <2>1 DEF Active, Current
        <3>2. QED
            BY <1>1, <1>2, <2>1, <3>1, LoadedFacts DEF VersionOK, Loaded, Requiring, Planning, Changing, Searching
    <2>4. TurnOK'
        BY <2>1, <2>2, <2>3, QuietLemma DEF Quiet, Loaded, IInv, TurnOK, ScopeOK, Scopes, Route
    <2>5. QED
        BY <1>2, <2>4 DEF IInv
<1>5. CASE Ended(Planned(turn.message.patch), "APPLY")
    BY <1>1, <1>5, PlannedLemma DEF Loaded
<1>6. Checkpoint(state, "RULE_CONFLICT") \/ Checkpoint(Planned(turn.message.patch), "APPLY")
    BY DEF PlanChange
<1>7. QED
    BY <1>3, <1>4, <1>5, <1>6, CheckpointLemma DEF IInv, TurnOK

LEMMA ChangeAgainLemma == ASSUME IInv, NEW a, ChangeAgain(a) PROVE IInv'
<1>1. ASSUME NEW error, Raise(error) PROVE IInv'
    BY <1>1, RaiseLemma, KeptLemma
<1>2. ASSUME Answered(Planned(a.patch), "APPLY"), UNCHANGED <<tasks, session, mutations, heads>>,
             turn.node = "RULE_CONFLICT"
      PROVE  IInv'
    BY <1>2, AnsweredLemma, PlannedLemma DEF IInv, TurnOK, Loaded
<1>3. QED
    BY <1>1, <1>2 DEF ChangeAgain, Answer
-----------------------------------------------------------------------------
(* The nodes of a turn that is planned.                                    *)

Running == Planning \cup Changing \cup Searching

\* What a turn on its way knows.
LEMMA RunningFacts ==
    ASSUME IInv, turn.node \in Running \cup {"PROMOTE", "COMPOSE"}
    PROVE  /\ Active \in Known /\ state.version \in Nat /\ state.version <= Current.version
           /\ Current.version \in Nat
           /\ DOMAIN state = DOMAIN InitialState
BY KnownTask DEF IInv, RepositoriesOK, TurnOK, ShapeOK, VersionOK, Current, Running, Planning, Loaded, Changing, Searching

\* From one node to the next.
LEMMA MoveLemma ==
    ASSUME IInv, RepositoriesOK', UNCHANGED heads, Known' = Known,
           turn.node \in Running, turn'.node \in (Running \ {"APPLY"}) \cup {"PROMOTE"},
           DOMAIN turn' = DOMAIN turn, DOMAIN state' = DOMAIN state, state'.reuse = state.reuse,
           state'.planned = state.planned, state'.active = state.active,
           state'.version \in Nat, state'.version <= tasks'[Active].version,
           ScopeOK', CriteriaOK', LeadsOK'
    PROVE  IInv'
<1>1. ShapeOK'
    BY DEF IInv, TurnOK, ShapeOK, InitialState, Scored, Members, Running, Planning, Loaded, Changing, Searching
<1>2. VersionOK'
    BY RunningFacts DEF VersionOK, Active, Current, Running, Planning, Loaded, Changing, Searching
<1>3. HeadOK'
    BY DEF HeadOK, Active, IInv, TurnOK, Running, Planning, Loaded, Changing, Searching
<1>4. PromotedOK'
    BY DEF PromotedOK, Running, Planning, Loaded, Changing, Searching
<1>5. QED
    BY <1>1, <1>2, <1>3, <1>4 DEF IInv, TurnOK

\* The version a mutation made is the thread's, or the task has moved on.
LEMMA MutatedLemma ==
    ASSUME IInv, RepositoriesOK', UNCHANGED heads, Known' = Known, turn.node = "APPLY",
           NEW version \in Nat, NEW scope \in Scopes, version <= tasks'[Active].version,
           Ended([state EXCEPT !.version = version, !.scope = scope], "PERSIST_VERSION")
    PROVE  IInv'
<1>1. /\ state'.active = state.active /\ state'.version = version /\ state'.scope = scope
      /\ state'.planned = state.planned /\ DOMAIN state' = DOMAIN state /\ state'.reuse = state.reuse
      /\ turn'.node = "PERSIST_VERSION" /\ DOMAIN turn' = DOMAIN turn
    BY DEF Ended, IInv, TurnOK, ShapeOK, InitialState
<1>2. state.planned /\ turn.node \in Running
    BY DEF IInv, TurnOK, ScopeOK, Running, Changing
<1>3. ScopeOK'
    BY <1>1, <1>2 DEF ScopeOK, Requiring, Planning, Loaded, Changing, Searching, Scopes, Route
<1>4. CriteriaOK' /\ LeadsOK'
    BY <1>1 DEF CriteriaOK, LeadsOK, Searching
<1>5. QED
    BY <1>1, <1>2, <1>3, <1>4, MoveLemma DEF Running, Changing

LEMMA ApplyMutationLemma == ASSUME NoneIsNothing, IInv, ApplyMutation PROVE IInv'
<1>1. /\ turn.node = "APPLY" /\ UNCHANGED heads
      /\ state.planned /\ state.scope \in Scopes
      /\ Active \in Known /\ state.version \in Nat /\ state.version <= Current.version
      /\ Current.version \in Nat
      /\ state.source[1] = Active /\ state.before.version = state.version
      /\ DOMAIN state = DOMAIN InitialState
    BY RunningFacts DEF ApplyMutation, At, IInv, TurnOK, ScopeOK, VersionOK, Changing, Running
<1> DEFINE done == {m \in mutations : m.source = state.source}
           next == state.before.version + 1
           version == IF state.scope = "NONE" THEN state.before.version ELSE next
           mutation == [source |-> state.source, scope |-> state.scope, version |-> version]
<1>2. ASSUME NEW m \in done, UNCHANGED <<tasks, session, mutations>>,
             Checkpoint([state EXCEPT !.version = m.version, !.scope = m.scope], "PERSIST_VERSION")
      PROVE  IInv'
    <2>1. RepositoriesOK' /\ Grows /\ Known' = Known
        BY <1>1, <1>2, SameRepositories DEF IInv
    <2>2. m.version \in Nat /\ m.scope \in Scopes /\ m.version <= tasks'[Active].version
        BY <1>1, <1>2 DEF IInv, RepositoriesOK, MutationsOK
    <2>3. CASE Kept
        BY <1>1, <2>1, <2>3, KeptLemma
    <2>4. CASE Ended([state EXCEPT !.version = m.version, !.scope = m.scope], "PERSIST_VERSION")
        BY <1>1, <2>1, <2>2, <2>4, MutatedLemma
    <2>5. QED
        BY <1>2, <2>3, <2>4, CheckpointLemma DEF IInv, TurnOK
<1>3. ASSUME NEW error, Raise(error) PROVE IInv'
    BY <1>3, RaiseLemma, KeptLemma
<1>4. ASSUME state.scope # "NONE" => Current.version = state.before.version,
             mutations' = mutations \cup {mutation},
             IF state.scope = "NONE" THEN UNCHANGED <<tasks, session>> ELSE Apply(Active, state.patch),
             Checkpoint([state EXCEPT !.version = version], "PERSIST_VERSION")
      PROVE  IInv'
    <2>1. /\ TasksOK' /\ SessionOK' /\ Grows /\ Known' = Known
          /\ version \in Nat /\ version <= tasks'[Active].version
        <3>1. CASE state.scope = "NONE"
            BY <1>1, <1>4, <3>1, SameTasksLemma DEF IInv, RepositoriesOK, Current
        <3>2. CASE state.scope # "NONE"
            BY <1>1, <1>4, <3>2, ApplyLemma DEF IInv, RepositoriesOK, Current
        <3>3. QED
            BY <3>1, <3>2
    <2> HIDE DEF version
    <2>2. MutationsOK'
        <3>1. SUFFICES ASSUME NEW m \in mutations'
                       PROVE  /\ m.scope \in Scopes /\ m.version \in Nat /\ m.source[1] \in Known'
                              /\ m.version <= tasks'[m.source[1]].version
            BY DEF MutationsOK, Scopes, Route
        <3>2. CASE m \in mutations
            <4>1. m.scope \in Scopes /\ m.version \in Nat /\ m.source[1] \in Known
                  /\ m.version <= tasks[m.source[1]].version
                BY <3>2 DEF IInv, RepositoriesOK, MutationsOK
            <4>2. m.source[1] \in Known' /\ tasks[m.source[1]].version <= tasks'[m.source[1]].version
                BY <2>1, <4>1 DEF Grows
            <4>3. tasks[m.source[1]].version \in Nat /\ tasks'[m.source[1]].version \in Nat
                BY <2>1, <4>1, <4>2 DEF TasksOK, IInv, RepositoriesOK
            <4>4. QED
                BY <4>1, <4>2, <4>3
        <3>3. CASE m = mutation
            BY <1>1, <2>1, <3>3
        <3>4. QED
            BY <1>4, <3>2, <3>3
    <2>3. RepositoriesOK'
        BY <1>1, <2>1, <2>2 DEF IInv, RepositoriesOK, HeadsOK
    <2>4. CASE Kept
        BY <1>1, <2>1, <2>3, <2>4, KeptLemma
    <2>5. CASE Ended([state EXCEPT !.version = version], "PERSIST_VERSION")
        <3>1. /\ state'.active = state.active /\ state'.version = version /\ state'.scope = state.scope
              /\ state'.planned = state.planned /\ DOMAIN state' = DOMAIN state /\ state'.reuse = state.reuse
              /\ turn'.node = "PERSIST_VERSION" /\ DOMAIN turn' = DOMAIN turn
            BY <1>1, <2>5 DEF Ended, InitialState, IInv, TurnOK, ShapeOK
        <3>2. ScopeOK'
            BY <1>1, <3>1 DEF ScopeOK, Requiring, Planning, Loaded, Changing, Searching, Scopes, Route
        <3>3. CriteriaOK' /\ LeadsOK'
            BY <3>1 DEF CriteriaOK, LeadsOK, Searching
        <3>4. QED
            BY <1>1, <2>1, <2>3, <3>1, <3>2, <3>3, MoveLemma DEF Running, Changing
    <2>6. QED
        BY <1>4, <2>4, <2>5, CheckpointLemma DEF IInv, TurnOK
<1>5. QED
    BY <1>2, <1>3, <1>4 DEF ApplyMutation

\* The criteria of a change ask what the changed task asks.
LEMMA NextCriteriaLemma == Ask(NextCriteria)
BY DEF NextCriteria, Ask, AskedOf, Accepted, Current, CriteriaFromTask, Criteria

LEMMA PersistNewVersionLemma == ASSUME IInv, PersistNewVersion PROVE IInv'
<1>1. turn.node = "PERSIST_VERSION" /\ UNCHANGED <<tasks, session, mutations, heads>>
    BY DEF PersistNewVersion, At
<1>2. RepositoriesOK' /\ Grows /\ Known' = Known
    BY <1>1, SameRepositories DEF IInv
<1>3. /\ turn.node \in Running /\ state.planned /\ state.scope \in Scopes /\ state.version \in Nat
      /\ state.version <= Current.version /\ DOMAIN state = DOMAIN InitialState
    BY <1>1, RunningFacts DEF IInv, TurnOK, ScopeOK, Running, Changing
<1>4. CASE Kept
    BY <1>1, <1>2, <1>4, KeptLemma
<1>5. ASSUME NEW new, Ended(new, Route[state.scope]), DOMAIN new = DOMAIN state,
             <<new.active, new.version, new.scope>> = <<state.active, state.version, state.scope>>,
             <<new.planned, new.reuse>> = <<state.planned, state.reuse>>,
             state.scope \in {"NONE", "DISPLAY_ONLY", "FULL_REPLAN"} \/ Ask(new.criteria)
      PROVE  IInv'
    <2>1. /\ state'.active = state.active /\ state'.version = state.version /\ state'.scope = state.scope
          /\ state'.planned = state.planned /\ DOMAIN state' = DOMAIN state /\ state'.reuse = state.reuse
          /\ state'.criteria = new.criteria
          /\ turn'.node = Route[state.scope] /\ DOMAIN turn' = DOMAIN turn
        BY <1>5 DEF Ended
    <2>2. \/ state.scope \in {"NONE", "DISPLAY_ONLY"} /\ turn'.node = "SELECT_LEADS"
          \/ state.scope = "RANK_ONLY" /\ turn'.node = "REUSE"
          \/ state.scope = "FILTER_ONLY" /\ turn'.node = "FILTER"
          \/ state.scope = "ENRICHMENT_REQUIRED" /\ turn'.node = "ENRICH"
          \/ state.scope = "DISCOVERY_REQUIRED" /\ turn'.node = "RESEARCH"
          \/ state.scope = "FULL_REPLAN" /\ turn'.node = "PLANNING"
        BY <1>3, <2>1 DEF Scopes, Route
    <2>3. ScopeOK'
        BY <1>3, <2>1, <2>2 DEF ScopeOK, Requiring, Planning, Loaded, Changing, Searching, Scopes, Route
    <2>4. CriteriaOK'
        <3>1. CASE state.scope \in {"NONE", "DISPLAY_ONLY", "FULL_REPLAN"}
            BY <3>1, <2>1, <2>2 DEF CriteriaOK, Searching
        <3>2. CASE Ask(new.criteria)
            BY <1>1, <2>1, <3>2 DEF CriteriaOK, Ask, AskedOf, Current, AskedOf, Active, Current
        <3>3. QED
            BY <1>5, <3>1, <3>2
    <2>5. LeadsOK'
        BY <2>2 DEF LeadsOK
    <2>6. turn'.node \in (Running \ {"APPLY"}) \cup {"PROMOTE"}
        BY <2>2 DEF Running, Planning, Loaded, Changing, Searching
    <2>7. QED
        BY <1>1, <1>2, <1>3, <2>1, <2>3, <2>4, <2>5, <2>6, MoveLemma DEF Current
<1>6. CASE state.scope \in {"NONE", "DISPLAY_ONLY", "FULL_REPLAN"} /\ Ended(state, Route[state.scope])
    BY <1>5, <1>6
<1>7. CASE Ended([state EXCEPT !.criteria = NextCriteria], Route[state.scope])
    <2> DEFINE new == [state EXCEPT !.criteria = NextCriteria]
    <2>1. /\ DOMAIN new = DOMAIN state /\ new.criteria = NextCriteria
          /\ <<new.active, new.version, new.scope>> = <<state.active, state.version, state.scope>>
          /\ <<new.planned, new.reuse>> = <<state.planned, state.reuse>>
        BY <1>3 DEF InitialState
    <2>2. Ask(new.criteria) /\ Ended(new, Route[state.scope])
        BY <1>7, <2>1, NextCriteriaLemma
    <2> HIDE DEF new
    <2>3. QED
        BY <1>5, <2>1, <2>2
<1>8. QED
    BY <1>4, <1>6, <1>7, CheckpointLemma DEF PersistNewVersion, IInv, TurnOK
-----------------------------------------------------------------------------
(* What each scope runs again.                                             *)

\* A node that leaves the repositories alone, or only the enterprises found.
LEMMA StillLemma ==
    ASSUME IInv, UNCHANGED <<tasks, session, mutations, heads>>, turn.node \in Running,
           NEW new, NEW node \in Searching \cup {"PROMOTE"}, Checkpoint(new, node),
           <<new.active, new.version, new.criteria>> = <<state.active, state.version, state.criteria>>,
           <<new.planned, new.reuse>> = <<state.planned, state.reuse>>, DOMAIN new = DOMAIN state,
           Ended(new, node) => ScopeOK' /\ CriteriaOK' /\ LeadsOK'
    PROVE  IInv'
<1>1. RepositoriesOK' /\ Grows /\ Known' = Known
    BY SameRepositories DEF IInv
<1>2. CASE Kept
    BY <1>1, <1>2, KeptLemma DEF Running, Planning, Changing, Searching
<1>3. CASE Ended(new, node)
    <2>1. /\ state'.active = state.active /\ state'.version = state.version
          /\ state'.planned = state.planned /\ DOMAIN state' = DOMAIN state /\ state'.reuse = state.reuse
          /\ turn'.node = node /\ DOMAIN turn' = DOMAIN turn
        BY <1>3 DEF Ended
    <2>2. state'.version \in Nat /\ state'.version <= tasks'[Active].version
        BY <2>1, RunningFacts DEF Current
    <2>3. node \in (Running \ {"APPLY"}) \cup {"PROMOTE"}
        BY DEF Running, Planning, Loaded, Changing, Searching
    <2>4. QED
        BY <1>1, <1>3, <2>1, <2>2, <2>3, MoveLemma
<1>4. QED
    BY <1>2, <1>3, CheckpointLemma DEF IInv, TurnOK

\* Criteria that asked what the task asks still do, after a node with the same.
LEMMA SameCriteriaLemma ==
    ASSUME IInv, UNCHANGED tasks, turn.node \in {"REUSE", "FILTER", "ENRICH"} \cup Searching,
           state'.active = state.active, state'.version = state.version,
           state'.criteria = state.criteria, state'.planned = state.planned,
           state'.scope = state.scope \/ (state.planned /\ turn.node = "FILTER")
    PROVE  CriteriaOK'
<1>1. Active' = Active /\ Current' = Current
    BY DEF Active, Current
<1>2. CASE state'.scope = state.scope
    BY <1>1, <1>2 DEF IInv, TurnOK, CriteriaOK, Ask, AskedOf, Current, OwnScope
<1>3. CASE state.planned /\ turn.node = "FILTER"
    BY <1>1, <1>3 DEF IInv, TurnOK, CriteriaOK, ScopeOK, Ask, AskedOf, Current, OwnScope
<1>4. QED
    BY <1>2, <1>3

LEMMA SelectLeadsLemma == ASSUME IInv, SelectLeads PROVE IInv'
<1> DEFINE leads == Or(state.reuse.leads, state.leads)
           new == [state EXCEPT !.leads = leads, !.verified = leads]
<1>1. /\ turn.node = "SELECT_LEADS" /\ UNCHANGED <<tasks, session, mutations, heads>>
      /\ Checkpoint(new, "PROMOTE")
    BY DEF SelectLeads, At
<1>2. /\ turn.node \in Running /\ state.planned /\ state.scope \in {"NONE", "DISPLAY_ONLY"}
      /\ DOMAIN state = DOMAIN InitialState
    BY <1>1, RunningFacts DEF IInv, TurnOK, ScopeOK, Running, Changing
<1> HIDE DEF leads
<1>3. /\ <<new.active, new.version, new.criteria>> = <<state.active, state.version, state.criteria>>
      /\ <<new.planned, new.reuse, new.scope>> = <<state.planned, state.reuse, state.scope>>
      /\ DOMAIN new = DOMAIN state /\ new.leads = leads
    BY <1>2 DEF InitialState
<1> HIDE DEF new
<1>4. ASSUME Ended(new, "PROMOTE") PROVE ScopeOK' /\ CriteriaOK' /\ LeadsOK'
    <2>1. turn'.node = "PROMOTE" /\ state' = new
        BY <1>4 DEF Ended
    <2>2. ScopeOK'
        BY <1>2, <1>3, <2>1 DEF ScopeOK, Requiring, Planning, Loaded, Changing, Searching, Scopes, Route
    <2>3. CriteriaOK'
        BY <1>2, <1>3, <2>1 DEF CriteriaOK
    <2>4. LeadsOK'
        BY <1>2, <1>3, <2>1 DEF LeadsOK, Partial, leads, Or
    <2>5. QED
        BY <2>2, <2>3, <2>4
<1>5. QED
    BY <1>1, <1>2, <1>3, <1>4, StillLemma

LEMMA ReuseProfilesLemma == ASSUME IInv, ReuseProfiles PROVE IInv'
<1> DEFINE new == [state EXCEPT !.profiles = found.run[Active]]
<1>1. /\ turn.node = "REUSE" /\ UNCHANGED <<tasks, session, mutations, heads>>
      /\ Checkpoint(new, "SCORE")
    BY DEF ReuseProfiles, At
<1>2. /\ turn.node \in Running /\ state.planned /\ state.scope = "RANK_ONLY"
      /\ DOMAIN state = DOMAIN InitialState
    BY <1>1, RunningFacts DEF IInv, TurnOK, ScopeOK, Running, Changing
<1>3. /\ <<new.active, new.version, new.criteria>> = <<state.active, state.version, state.criteria>>
      /\ <<new.planned, new.reuse, new.scope>> = <<state.planned, state.reuse, state.scope>>
      /\ DOMAIN new = DOMAIN state
    BY <1>2 DEF InitialState
<1> HIDE DEF new
<1>4. ASSUME Ended(new, "SCORE") PROVE ScopeOK' /\ CriteriaOK' /\ LeadsOK'
    <2>1. turn'.node = "SCORE" /\ state' = new
        BY <1>4 DEF Ended
    <2>2. ScopeOK'
        BY <1>2, <1>3, <2>1 DEF ScopeOK, Requiring, Planning, Loaded, Changing, Searching, Scopes, Route
    <2>3. CriteriaOK'
        BY <1>1, <1>3, <2>1, SameCriteriaLemma
    <2>4. LeadsOK'
        BY <2>1 DEF LeadsOK
    <2>5. QED
        BY <2>2, <2>3, <2>4
<1>5. QED
    BY <1>1, <1>2, <1>3, <1>4, StillLemma DEF Searching

LEMMA EnrichLemma == ASSUME IInv, Enrich PROVE IInv'
<1> DEFINE set == Or(state.reuse.researched, state.reuse.filtered)
           new == [state EXCEPT !.researched = set, !.candidates = set, !.needed = TRUE, !.reused = {}]
<1>1. turn.node = "ENRICH"
    BY DEF Enrich, At
<1>2. CASE Raise("REUSABLE_ARTIFACT_MISSING")
    BY <1>2, RaiseLemma, KeptLemma
<1>3. CASE Checkpoint(new, "VERIFY") /\ UNCHANGED <<tasks, session, mutations, heads, found>>
    <2>1. /\ turn.node \in Running /\ state.planned /\ state.scope = "ENRICHMENT_REQUIRED"
          /\ DOMAIN state = DOMAIN InitialState
        BY <1>1, RunningFacts DEF IInv, TurnOK, ScopeOK, Running, Changing
    <2> HIDE DEF set
    <2>2. /\ <<new.active, new.version, new.criteria>> = <<state.active, state.version, state.criteria>>
          /\ <<new.planned, new.reuse, new.scope>> = <<state.planned, state.reuse, state.scope>>
          /\ DOMAIN new = DOMAIN state
        BY <2>1 DEF InitialState
    <2> HIDE DEF new
    <2>3. ASSUME Ended(new, "VERIFY") PROVE ScopeOK' /\ CriteriaOK' /\ LeadsOK'
        <3>1. turn'.node = "VERIFY" /\ state' = new
            BY <2>3 DEF Ended
        <3>2. ScopeOK'
            BY <2>1, <2>2, <3>1 DEF ScopeOK, Requiring, Planning, Loaded, Changing, Searching, Scopes, Route
        <3>3. CriteriaOK'
            BY <1>1, <1>3, <2>2, <3>1, SameCriteriaLemma
        <3>4. LeadsOK'
            BY <3>1 DEF LeadsOK
        <3>5. QED
            BY <3>2, <3>3, <3>4
    <2>4. QED
        BY <1>3, <2>1, <2>2, <2>3, StillLemma DEF Searching
<1>4. QED
    BY <1>2, <1>3 DEF Enrich

LEMMA VerifyLemma == ASSUME IInv, Verify PROVE IInv'
<1>1. turn.node = "VERIFY"
    BY DEF Verify, At
<1>2. ASSUME NEW error, Raise(error) PROVE IInv'
    BY <1>2, RaiseLemma, KeptLemma
<1>3. ASSUME NEW set, NEW run, NEW profiles, UNCHANGED <<tasks, session, mutations, heads>>,
             Checkpoint([state EXCEPT !.researched = set, !.verification = run, !.profiles = profiles], "SCORE")
      PROVE  IInv'
    <2> DEFINE new == [state EXCEPT !.researched = set, !.verification = run, !.profiles = profiles]
    <2>1. turn.node \in Running /\ DOMAIN state = DOMAIN InitialState
        BY <1>1, RunningFacts DEF Running, Searching
    <2>2. /\ <<new.active, new.version, new.criteria>> = <<state.active, state.version, state.criteria>>
          /\ <<new.planned, new.reuse, new.scope>> = <<state.planned, state.reuse, state.scope>>
          /\ DOMAIN new = DOMAIN state
        BY <2>1 DEF InitialState
    <2>3. Checkpoint(new, "SCORE")
        BY <1>3
    <2> HIDE DEF new
    <2>4. ASSUME Ended(new, "SCORE") PROVE ScopeOK' /\ CriteriaOK' /\ LeadsOK'
        <3>1. turn'.node = "SCORE" /\ state' = new
            BY <2>4 DEF Ended
        <3>2. ScopeOK'
            BY <1>1, <2>2, <3>1
               DEF ScopeOK, Requiring, Planning, Loaded, Changing, Searching, Scopes, Route, IInv, TurnOK
        <3>3. CriteriaOK'
            BY <1>1, <1>3, <2>2, <3>1, SameCriteriaLemma DEF Searching
        <3>4. LeadsOK'
            BY <3>1 DEF LeadsOK
        <3>5. QED
            BY <3>2, <3>3, <3>4
    <2>5. QED
        BY <1>3, <2>1, <2>2, <2>3, <2>4, StillLemma DEF Searching
<1>4. QED
    BY <1>2, <1>3 DEF Verify
LEMMA FilterExistingLemma == ASSUME IInv, FilterExisting PROVE IInv'
<1>1. turn.node = "FILTER"
    BY DEF FilterExisting, At
<1>2. ASSUME NEW error, Raise(error) PROVE IInv'
    BY <1>2, RaiseLemma, KeptLemma
<1>3. turn.node \in Running /\ DOMAIN state = DOMAIN InitialState /\ state.planned /\ state.scope = "FILTER_ONLY"
    BY <1>1, RunningFacts DEF Running, Changing, IInv, TurnOK, ScopeOK
<1>4. ASSUME NEW new, NEW node \in Searching, UNCHANGED <<tasks, session, mutations, heads>>,
             Checkpoint(new, node), DOMAIN new = DOMAIN state,
             <<new.active, new.version, new.criteria>> = <<state.active, state.version, state.criteria>>,
             <<new.planned, new.reuse>> = <<state.planned, state.reuse>>,
             IF node = "RESEARCH" THEN new.scope = "DISCOVERY_REQUIRED" ELSE new.scope = state.scope
      PROVE  IInv'
    <2>1. ASSUME Ended(new, node) PROVE ScopeOK' /\ CriteriaOK' /\ LeadsOK'
        <3>1. turn'.node = node /\ state' = new
            BY <2>1 DEF Ended
        <3>2. ScopeOK'
            BY <1>3, <1>4, <3>1 DEF ScopeOK, Requiring, Planning, Loaded, Changing, Searching, Scopes, Route
        <3>3. CriteriaOK'
            BY <1>1, <1>3, <1>4, <3>1, SameCriteriaLemma
        <3>4. LeadsOK'
            BY <3>1 DEF LeadsOK, Searching
        <3>5. QED
            BY <3>2, <3>3, <3>4
    <2>2. QED
        BY <1>3, <1>4, <2>1, StillLemma
<1> DEFINE parent == Or(state.reuse.researched, state.reuse.raw)
           selected == {c \in Members(parent) : Meets(c, state.criteria.hard)}
           reused == selected \cap found.links[Active] \cap found.profiled
           fresh == SetOf(state.criteria, selected \ reused)
           filtered == [state EXCEPT !.filtered = SetOf(state.criteria, selected), !.reused = reused,
                                     !.count = Cardinality(selected), !.needed = fresh.members # {}]
           new == IF fresh.members = {} THEN [filtered EXCEPT !.profiles = reused]
                  ELSE [filtered EXCEPT !.researched = fresh, !.candidates = fresh]
           wider == [new EXCEPT !.scope = "DISCOVERY_REQUIRED", !.needed = FALSE]
<1>5. \/ Raise("REUSABLE_ARTIFACT_MISSING")
      \/ /\ \/ Checkpoint(wider, "RESEARCH")
            \/ Checkpoint(new, IF new.needed THEN "VERIFY" ELSE "SCORE")
         /\ UNCHANGED <<tasks, session, mutations, heads, found>>
    BY DEF FilterExisting
<1> HIDE DEF selected, reused, fresh
<1>6. /\ <<filtered.active, filtered.version, filtered.criteria>> = <<state.active, state.version, state.criteria>>
      /\ <<filtered.planned, filtered.reuse, filtered.scope>> = <<state.planned, state.reuse, state.scope>>
      /\ DOMAIN filtered = DOMAIN InitialState
    BY <1>3 DEF InitialState
<1> HIDE DEF filtered
<1>7. /\ <<new.active, new.version, new.criteria>> = <<state.active, state.version, state.criteria>>
      /\ <<new.planned, new.reuse, new.scope>> = <<state.planned, state.reuse, state.scope>>
      /\ DOMAIN new = DOMAIN InitialState
    BY <1>6 DEF InitialState
<1> HIDE DEF new
<1>8. /\ <<wider.active, wider.version, wider.criteria>> = <<state.active, state.version, state.criteria>>
      /\ <<wider.planned, wider.reuse>> = <<state.planned, state.reuse>>
      /\ wider.scope = "DISCOVERY_REQUIRED" /\ DOMAIN wider = DOMAIN InitialState
    BY <1>7 DEF InitialState
<1> HIDE DEF wider
<1>9. CASE Checkpoint(wider, "RESEARCH") /\ UNCHANGED <<tasks, session, mutations, heads, found>>
    BY <1>3, <1>4, <1>8, <1>9 DEF Searching
<1>10. CASE /\ Checkpoint(new, IF new.needed THEN "VERIFY" ELSE "SCORE")
            /\ UNCHANGED <<tasks, session, mutations, heads, found>>
    <2>1. PICK node \in {"VERIFY", "SCORE"} : Checkpoint(new, node)
        BY <1>10
    <2>2. QED
        BY <1>3, <1>4, <1>7, <1>10, <2>1 DEF Searching
<1>11. QED
    BY <1>2, <1>5, <1>9, <1>10

\* A turn that researches for no change, or for one that needs it, does not
\* take over the sets of an older head.
LEMMA FullLemma ==
    ASSUME NoneIsNothing, ScopeOK, OwnScope, turn.node = "RESEARCH" PROVE ~ Partial
<1>1. CASE state.planned
    BY <1>1 DEF ScopeOK, Partial
<1>2. CASE state.scope = None
    BY <1>2 DEF NoneIsNothing, Partial, Scopes, Route
<1>3. QED
    BY <1>1, <1>2 DEF OwnScope

LEMMA ResearchLemma == ASSUME NoneIsNothing, IInv, Research PROVE IInv'
<1>1. turn.node = "RESEARCH" /\ UNCHANGED <<tasks, session, mutations, heads>>
    BY DEF Research, At
<1>2. turn.node \in Running /\ DOMAIN state = DOMAIN InitialState
    BY <1>1, RunningFacts DEF Running, Searching
<1>3. PICK raw, kept, count :
          /\ kept = SetOf(state.criteria, kept.members)
          /\ Checkpoint([state EXCEPT !.plan = state.criteria, !.raw = raw, !.filtered = kept,
                                      !.researched = kept, !.candidates = kept, !.verified = kept,
                                      !.count = count],
                        AfterResearch(kept.members))
    BY DEF Research, SetOf
<1> DEFINE new == [state EXCEPT !.plan = state.criteria, !.raw = raw, !.filtered = kept,
                                !.researched = kept, !.candidates = kept, !.verified = kept,
                                !.count = count]
<1>4. /\ <<new.active, new.version, new.criteria>> = <<state.active, state.version, state.criteria>>
      /\ <<new.planned, new.reuse, new.scope>> = <<state.planned, state.reuse, state.scope>>
      /\ DOMAIN new = DOMAIN state /\ new.researched = kept /\ new.leads = state.leads
    BY <1>2 DEF InitialState
<1>5. Checkpoint(new, AfterResearch(kept.members))
    BY <1>3
<1> HIDE DEF new
<1>6. kept # None
    BY <1>3 DEF NoneIsNothing, SetOf
<1>7. AfterResearch(kept.members) = IF kept.members = {} THEN "PROMOTE" ELSE "VERIFY"
    BY DEF AfterResearch
<1>8. ASSUME Ended(new, AfterResearch(kept.members)) PROVE ScopeOK' /\ CriteriaOK' /\ LeadsOK'
    <2>1. state' = new /\ turn'.node = IF kept.members = {} THEN "PROMOTE" ELSE "VERIFY"
        BY <1>7, <1>8 DEF Ended
    <2>2. ScopeOK'
        BY <1>1, <1>4, <2>1
           DEF ScopeOK, Requiring, Planning, Loaded, Changing, Searching, Scopes, Route, IInv, TurnOK
    <2>3. CriteriaOK'
        BY <1>1, <1>4, <2>1, SameCriteriaLemma DEF Searching
    <2>4. LeadsOK'
        <3>1. CASE kept.members # {}
            BY <2>1, <3>1 DEF LeadsOK
        <3>2. CASE kept.members = {}
            <4>1. Researched' = kept /\ Members(Researched)' = {}
                BY <1>4, <1>6, <2>1, <3>2 DEF Researched, Or, Members
            <4>2. OwnScope' => ~ Partial'
                BY <1>1, <1>4, <2>1, FullLemma DEF IInv, TurnOK, OwnScope, Partial
            <4>3. state'.planned => state'.scope # "DISPLAY_ONLY"
                BY <1>1, <1>4, <2>1 DEF IInv, TurnOK, ScopeOK
            <4>4. QED
                BY <4>1, <4>2, <4>3 DEF LeadsOK
        <3>3. QED
            BY <3>1, <3>2
    <2>5. QED
        BY <2>2, <2>3, <2>4
<1>9. AfterResearch(kept.members) \in Searching \cup {"PROMOTE"}
    BY <1>7 DEF Searching
<1>10. QED
    BY <1>1, <1>2, <1>4, <1>5, <1>8, <1>9, StillLemma

LEMMA ScoreLeadsLemma == ASSUME NoneIsNothing, IInv, ScoreLeads PROVE IInv'
<1>1. PICK leads :
          /\ leads = [task |-> leads.task, version |-> leads.version, criteria |-> state.criteria,
                      members |-> leads.members]
          /\ Checkpoint([state EXCEPT !.leads = leads, !.verified = leads], "PROMOTE")
    BY DEF ScoreLeads
<1>2. turn.node = "SCORE" /\ Touched(Active) /\ UNCHANGED <<mutations, heads, found>>
    BY DEF ScoreLeads, At
<1>3. /\ turn.node \in Running /\ Active \in Known /\ DOMAIN state = DOMAIN InitialState
      /\ state.version \in Nat /\ state.version <= Current.version
    BY <1>2, RunningFacts DEF Running, Searching
<1>4. TasksOK' /\ SessionOK' /\ Grows /\ Known' = Known /\ tasks' = tasks
    BY <1>2, <1>3, TouchedLemma DEF IInv, RepositoriesOK
<1>5. RepositoriesOK'
    BY <1>2, <1>4, RepositoriesLemma DEF IInv
<1>6. leads # None /\ leads.criteria = state.criteria
    BY <1>1 DEF NoneIsNothing
<1>7. CASE Kept
    BY <1>2, <1>4, <1>5, <1>7, KeptLemma
<1>8. CASE Ended([state EXCEPT !.leads = leads, !.verified = leads], "PROMOTE")
    <2>1. /\ state'.active = state.active /\ state'.version = state.version /\ state'.scope = state.scope
          /\ state'.planned = state.planned /\ state'.reuse = state.reuse /\ state'.criteria = state.criteria
          /\ DOMAIN state' = DOMAIN state /\ state'.leads = leads
          /\ turn'.node = "PROMOTE" /\ DOMAIN turn' = DOMAIN turn
        BY <1>3, <1>8 DEF Ended, InitialState
    <2>2. ScopeOK'
        BY <2>1 DEF ScopeOK, Requiring, Planning, Loaded, Changing, Searching, Scopes, Route, IInv, TurnOK
    <2>3. CriteriaOK'
        BY <1>2, <1>4, <2>1, SameCriteriaLemma DEF Searching
    <2>4. LeadsOK'
        BY <1>2, <1>6, <2>1 DEF LeadsOK, IInv, TurnOK, ScopeOK, Searching
    <2>5. QED
        BY <1>2, <1>3, <1>4, <1>5, <2>1, <2>2, <2>3, <2>4, MoveLemma DEF Current
<1>9. QED
    BY <1>1, <1>7, <1>8, CheckpointLemma DEF IInv, TurnOK

-----------------------------------------------------------------------------
(* The new head and the answer.                                            *)

\* A head that was made of what the turn has is a record with leads for its
\* researched members.
LEMMA SnapshotLemma ==
    ASSUME NoneIsNothing, IInv, turn.node = "PROMOTE", state.scope # "NONE"
    PROVE  Snapshot # None /\ Snapshot.version = state.version /\ Scored(Snapshot)
<1>1. Snapshot # None /\ Snapshot.version = state.version
    BY DEF NoneIsNothing, Snapshot
<1>2. CASE Partial
    <2>1. Snapshot.researched = state.reuse.researched /\ Snapshot.leads = HeadLeads
        BY <1>2 DEF Snapshot
    <2>2. state.reuse.leads # None => HeadLeads # None
        BY DEF HeadLeads, Or
    <2>3. QED
        BY <1>1, <2>1, <2>2 DEF Scored, IInv, TurnOK, ShapeOK
<1>3. CASE ~ Partial
    <2>1. Snapshot.researched = Researched /\ Snapshot.leads = HeadLeads
        BY <1>3 DEF Snapshot, Researched
    <2>2. state.leads # None => HeadLeads # None
        BY DEF HeadLeads, Or
    <2>3. QED
        BY <1>1, <1>3, <2>1, <2>2 DEF Scored, IInv, TurnOK, LeadsOK
<1>4. QED
    BY <1>2, <1>3

LEMMA PromoteLemma == ASSUME NoneIsNothing, IInv, FoundOK, Promote PROVE IInv'
<1> DEFINE stands == state.scope = "NONE" \/ state.version # Current.version
<1>1. /\ turn.node = "PROMOTE" /\ UNCHANGED <<tasks, session, mutations>>
      /\ heads' = IF stands THEN heads ELSE [heads EXCEPT ![Active] = Snapshot]
      /\ Checkpoint(state, "COMPOSE")
      /\ \/ state.scope = "NONE" /\ UNCHANGED found
         \/ <<Active, state.version>> \in found'.snapshots
    BY DEF Promote, At, FoundOK
<1>2. /\ Active \in Known /\ Active \in Ids /\ state.version \in Nat /\ state.version <= Current.version
      /\ DOMAIN state = DOMAIN InitialState /\ DOMAIN heads = Ids
    BY <1>1, RunningFacts DEF Known, IInv, RepositoriesOK, HeadsOK
<1>3. \A id \in Ids : heads'[id] = heads[id] \/ (id = Active /\ ~ stands /\ heads'[id] = Snapshot)
    BY <1>1, <1>2
<1>4. ~ stands => /\ heads'[Active] = Snapshot /\ Snapshot # None /\ Scored(Snapshot)
                  /\ Snapshot.version = state.version
    BY <1>1, <1>2, SnapshotLemma
<1>5. RepositoriesOK' /\ Grows /\ Known' = Known
    <2>1. TasksOK' /\ SessionOK' /\ Grows /\ Known' = Known
        BY <1>1, SameTasksLemma DEF IInv, RepositoriesOK
    <2>2. MutationsOK'
        BY <1>1, <2>1, MutationsLemma DEF IInv, RepositoriesOK
    <2>3. DOMAIN heads' = Ids
        BY <1>1, <1>2
    <2>4. HeadsOK'
        BY <1>3, <1>4, <2>3 DEF HeadsOK, IInv, RepositoriesOK, Scored, Members, Ids
    <2>5. QED
        BY <2>1, <2>2, <2>4 DEF RepositoriesOK
<1>6. CASE Kept
    <2>1. /\ state' = state /\ turn'.node = "PROMOTE" /\ DOMAIN turn' = DOMAIN turn
          /\ Active' = Active /\ Current' = Current
        BY <1>1, <1>6 DEF Kept, Active, Current
    <2>2. ShapeOK' /\ ScopeOK' /\ VersionOK'
        BY <1>1, <1>2, <1>5, <2>1
           DEF IInv, TurnOK, ShapeOK, ScopeOK, VersionOK, Requiring, Planning, Loaded, Changing, Searching,
               Scopes, Route, InitialState, Scored, Members
    <2>3. CriteriaOK' /\ LeadsOK' /\ PromotedOK'
        BY <1>1, <2>1 DEF IInv, TurnOK, CriteriaOK, Ask, AskedOf, Current, LeadsOK, PromotedOK, OwnScope, Partial, Researched
    <2>4. HeadOK'
        BY <1>1, <2>1 DEF IInv, TurnOK, HeadOK, Promoted, Active
    <2>5. QED
        BY <1>5, <2>2, <2>3, <2>4 DEF IInv, TurnOK
<1>7. CASE Ended(state, "COMPOSE")
    <2>1. /\ state' = state /\ turn'.node = "COMPOSE" /\ DOMAIN turn' = DOMAIN turn
          /\ Active' = Active /\ Current' = Current
        BY <1>1, <1>7 DEF Ended, Active, Current
    <2>2. ShapeOK' /\ ScopeOK' /\ VersionOK'
        BY <1>1, <1>2, <1>5, <2>1
           DEF IInv, TurnOK, ShapeOK, ScopeOK, VersionOK, Requiring, Planning, Loaded, Changing, Searching,
               Scopes, Route, InitialState, Scored, Members
    <2>3. CriteriaOK' /\ LeadsOK' /\ HeadOK'
        BY <2>1 DEF CriteriaOK, LeadsOK, HeadOK, Planning, Loaded, Changing, Searching
    <2>4. PromotedOK'
        BY <1>4, <2>1 DEF PromotedOK
    <2>5. QED
        BY <1>5, <2>2, <2>3, <2>4 DEF IInv, TurnOK
<1>8. QED
    BY <1>1, <1>6, <1>7, CheckpointLemma DEF IInv, TurnOK

LEMMA PromoteAgainLemma == ASSUME IInv, PromoteAgain PROVE IInv'
<1>1. /\ turn.node = "PROMOTE" /\ turn'.node = "PROMOTE" /\ DOMAIN turn' = DOMAIN turn
      /\ UNCHANGED <<tasks, session, mutations, found, state>> /\ Promoted
    BY DEF PromoteAgain, At, IInv, TurnOK, ShapeOK
<1>2. PICK head \in {heads[Active], None} : heads' = [heads EXCEPT ![Active] = head]
    BY DEF PromoteAgain
<1>3. RepositoriesOK' /\ Grows /\ Known' = Known
    <2>1. TasksOK' /\ SessionOK' /\ Grows /\ Known' = Known
        BY <1>1, SameTasksLemma DEF IInv, RepositoriesOK
    <2>2. MutationsOK'
        BY <1>1, <2>1, MutationsLemma DEF IInv, RepositoriesOK
    <2>3. DOMAIN heads' = Ids /\ \A id \in Ids : heads'[id] \in {heads[id], None}
        BY <1>2 DEF IInv, RepositoriesOK, HeadsOK
    <2>4. HeadsOK'
        BY <2>3 DEF IInv, RepositoriesOK, HeadsOK, Scored, Members, Ids
    <2>5. QED
        BY <2>1, <2>2, <2>4 DEF RepositoriesOK
<1>4. Active' = Active /\ Current' = Current /\ Promoted' = Promoted
    BY <1>1 DEF Active, Current, Promoted
<1>5. ShapeOK' /\ ScopeOK' /\ VersionOK'
    BY <1>1, <1>3, <1>4
       DEF IInv, TurnOK, ShapeOK, ScopeOK, VersionOK, Requiring, Planning, Loaded, Changing, Searching,
           Scopes, Route, InitialState, Scored, Members
<1>6. CriteriaOK' /\ LeadsOK' /\ PromotedOK'
    BY <1>1, <1>4 DEF IInv, TurnOK, CriteriaOK, Ask, AskedOf, Current, LeadsOK, PromotedOK, OwnScope, Partial, Researched
<1>7. HeadOK'
    BY <1>1, <1>4 DEF HeadOK
<1>8. QED
    BY <1>3, <1>5, <1>6, <1>7 DEF IInv, TurnOK

LEMMA ComposeLemma == ASSUME IInv, Compose PROVE IInv'
<1>1. /\ turn.node = "COMPOSE" /\ UNCHANGED <<mutations, heads, found>>
      /\ UNCHANGED <<tasks, session>> \/ Touched(Active)
    BY DEF Compose, At
<1>2. Active \in Known /\ DOMAIN state = DOMAIN InitialState
    BY <1>1, RunningFacts
<1>3. TasksOK' /\ SessionOK' /\ Grows
    BY <1>1, <1>2, TouchedLemma, SameTasksLemma DEF IInv, RepositoriesOK
<1>4. RepositoriesOK'
    BY <1>1, <1>3, RepositoriesLemma DEF IInv
<1>5. PICK response : Checkpoint([state EXCEPT !.response = response], "IDLE")
    BY DEF Compose
<1>6. CASE Kept
    BY <1>1, <1>3, <1>4, <1>6, KeptLemma
<1>7. CASE Ended([state EXCEPT !.response = response], "IDLE")
    <2>1. /\ state'.planned = state.planned /\ state'.scope = state.scope /\ state'.reuse = state.reuse
          /\ DOMAIN state' = DOMAIN state /\ turn'.node = "IDLE" /\ DOMAIN turn' = DOMAIN turn
        BY <1>2, <1>7 DEF Ended, InitialState
    <2>2. ShapeOK'
        BY <2>1 DEF IInv, TurnOK, ShapeOK, InitialState, Scored, Members
    <2>3. VersionOK'
        BY <2>1 DEF VersionOK, Requiring, Planning, Loaded, Changing, Searching
    <2>4. TurnOK'
        BY <2>1, <2>2, <2>3, QuietLemma DEF Quiet, IInv, TurnOK, ScopeOK, Scopes, Route
    <2>5. QED
        BY <1>4, <2>4 DEF IInv
<1>8. QED
    BY <1>5, <1>6, <1>7, CheckpointLemma DEF IInv, TurnOK
-----------------------------------------------------------------------------
(* The invariant.                                                          *)

LEMMA InitLemma == ASSUME Init PROVE IInv
<1>1. Known = {} /\ Known = 1..0 /\ 0 \in 0..MaxTasks
    BY BoundsAssumption DEF Init, Known
<1>2. TasksOK
    BY <1>1 DEF Init, TasksOK
<1>3. SessionOK
    BY <1>1 DEF Init, SessionOK
<1>4. MutationsOK /\ HeadsOK
    BY DEF Init, MutationsOK, HeadsOK
<1>5. /\ state = InitialState /\ turn.node = "IDLE" /\ DOMAIN turn = {"node", "message", "error"}
      /\ ~ state.planned /\ state.reuse = NoSnapshot
    BY DEF Init, InitialState
<1>6. ShapeOK
    BY <1>5 DEF ShapeOK, Scored, Members, NoSnapshot
<1>7. ScopeOK /\ VersionOK
    BY <1>5 DEF ScopeOK, VersionOK, Requiring, Planning, Loaded, Changing, Searching
<1>8. TurnOK
    BY <1>5, <1>6, <1>7 DEF TurnOK, CriteriaOK, HeadOK, LeadsOK, PromotedOK, Searching
<1>9. QED
    BY <1>2, <1>3, <1>4, <1>8 DEF IInv, RepositoriesOK

LEMMA NodeLemma == ASSUME NoneIsNothing, IInv, FoundOK, Node PROVE IInv'
<1>1. CASE CreateLeadTask \/ Requirement \/ PersistTask \/ Plan
    BY <1>1, CreateLeadTaskLemma, RequirementLemma, PersistTaskLemma, PlanLemma
<1>2. CASE ResolveTarget \/ LoadTask \/ PlanChange \/ ApplyMutation \/ PersistNewVersion
    BY <1>2, ResolveTargetLemma, LoadTaskLemma, PlanChangeLemma, ApplyMutationLemma, PersistNewVersionLemma
<1>3. CASE SelectLeads \/ ReuseProfiles \/ FilterExisting \/ Enrich
    BY <1>3, SelectLeadsLemma, ReuseProfilesLemma, FilterExistingLemma, EnrichLemma
<1>4. CASE Research \/ Verify \/ ScoreLeads
    BY <1>4, ResearchLemma, VerifyLemma, ScoreLeadsLemma
<1>5. CASE Promote \/ PromoteAgain \/ Compose \/ ReadTask
    BY <1>5, PromoteLemma, PromoteAgainLemma, ComposeLemma, ReadTaskLemma
<1>6. QED
    BY <1>1, <1>2, <1>3, <1>4, <1>5 DEF Node

\* Links, profiles, runs, rules and snapshots stay what they are.
LEMMA FoundLemma == ASSUME FoundOK, [Next]_vars PROVE FoundOK'
<1>1. SUFFICES ASSUME Next, found' # found PROVE FoundOK'
    BY DEF vars, FoundOK
<1>2. ~ (Discover \/ Change \/ Read \/ Retry)
    BY <1>1 DEF Discover, Change, Read, Retry, Begin
<1>3. ASSUME NEW a PROVE ~ (Clarify(a) \/ ResolveConflict(a) \/ SelectTask(a) \/ ChangeAgain(a) \/ SelectRead(a))
    BY <1>1 DEF Clarify, ResolveConflict, SelectTask, ChangeAgain, SelectRead, Raise
<1>4. ~ (CreateLeadTask \/ Requirement \/ PersistTask)
    BY <1>1 DEF CreateLeadTask, Requirement, PersistTask
<1>5. ~ (ResolveTarget \/ LoadTask \/ PlanChange \/ ApplyMutation \/ PersistNewVersion)
    BY <1>1 DEF ResolveTarget, LoadTask, PlanChange, ApplyMutation, PersistNewVersion, Raise
<1>6. ~ (SelectLeads \/ ReuseProfiles \/ FilterExisting \/ Enrich \/ Research)
    BY <1>1 DEF SelectLeads, ReuseProfiles, FilterExisting, Enrich, Research, Raise
<1>7. ~ (ScoreLeads \/ PromoteAgain \/ Compose \/ ReadTask)
    BY <1>1 DEF ScoreLeads, PromoteAgain, Compose, ReadTask, Raise
<1>8. ASSUME NEW id PROVE ~ ApiActivate(id) /\ \A patch : ~ ApiMutate(id, patch)
    BY <1>1 DEF ApiActivate, ApiMutate
<1>9. Plan \/ Verify \/ Promote => FoundOK'
    BY <1>1 DEF Plan, Verify, Promote, Raise, FoundOK
<1>10. QED
    BY <1>1, <1>2, <1>3, <1>4, <1>5, <1>6, <1>7, <1>8, <1>9 DEF Next, Node

LEMMA StepLemma == ASSUME NoneIsNothing, IInv, FoundOK, [Next]_vars PROVE IInv'
<1>1. CASE Discover \/ Change \/ Read
    BY <1>1, BeginLemma DEF Discover, Change, Read
<1>2. CASE Retry
    BY <1>2, RetryLemma
<1>3. ASSUME NEW a \in Answers,
             Clarify(a) \/ ResolveConflict(a) \/ SelectTask(a) \/ ChangeAgain(a) \/ SelectRead(a)
      PROVE  IInv'
    BY <1>3, ClarifyLemma, ResolveConflictLemma, SelectTaskLemma, ChangeAgainLemma, SelectReadLemma
<1>4. CASE Node
    BY <1>4, NodeLemma
<1>5. ASSUME NEW id \in Known, ApiActivate(id) \/ \E patch \in Patches : ApiMutate(id, patch)
      PROVE  IInv'
    BY <1>5, ApiActivateLemma, ApiMutateLemma
<1>6. CASE UNCHANGED vars
    <2>1. RepositoriesOK'
        BY <1>6, SameRepositories DEF vars, IInv
    <2>2. Active' = Active /\ Current' = Current /\ Known' = Known
        BY <1>6 DEF vars, Active, Current, Known
    <2>3. Promoted' = Promoted
        BY <1>6 DEF vars, Active, Promoted
    <2>4. ShapeOK' /\ ScopeOK' /\ VersionOK'
        BY <1>6, <2>2 DEF vars, IInv, TurnOK, ShapeOK, ScopeOK, VersionOK, Scored
    <2>5. CriteriaOK' /\ HeadOK' /\ PromotedOK'
        BY <1>6, <2>2, <2>3 DEF vars, IInv, TurnOK, CriteriaOK, Ask, AskedOf, Current, HeadOK, PromotedOK, OwnScope
    <2>6. LeadsOK'
        BY <1>6 DEF vars, IInv, TurnOK, LeadsOK, OwnScope, Partial, Researched
    <2>7. QED
        BY <2>1, <2>4, <2>5, <2>6 DEF IInv, TurnOK
<1>7. QED
    BY <1>1, <1>2, <1>3, <1>4, <1>5, <1>6 DEF Next

\* The invariant of a conversation, whatever is said, applied through the API
\* or run twice.
THEOREM Invariance == ASSUME NoneIsNothing PROVE Spec => []IInv
<1>1. Init => IInv /\ FoundOK
    BY InitLemma DEF Init, FoundOK
<1>2. IInv /\ FoundOK /\ [Next]_vars => IInv' /\ FoundOK'
    BY StepLemma, FoundLemma
<1>3. QED
    BY <1>1, <1>2, PTL DEF Spec
-----------------------------------------------------------------------------
(* What a step does to the heads and to the answer.                        *)

\* Only a promotion makes or demotes a head.
LEMMA HeadsLemma == ASSUME Next, heads' # heads PROVE Promote \/ PromoteAgain
<1>1. ~ (Discover \/ Change \/ Read \/ Retry)
    BY DEF Discover, Change, Read, Retry, Begin
<1>2. ASSUME NEW a PROVE ~ (Clarify(a) \/ ResolveConflict(a) \/ SelectTask(a) \/ ChangeAgain(a) \/ SelectRead(a))
    BY DEF Clarify, ResolveConflict, SelectTask, ChangeAgain, SelectRead, Raise
<1>3. ~ (CreateLeadTask \/ Requirement \/ PersistTask \/ Plan)
    BY DEF CreateLeadTask, Requirement, PersistTask, Plan
<1>4. ~ (ResolveTarget \/ LoadTask \/ PlanChange \/ ApplyMutation \/ PersistNewVersion)
    BY DEF ResolveTarget, LoadTask, PlanChange, ApplyMutation, PersistNewVersion, Raise
<1>5. ~ (SelectLeads \/ ReuseProfiles \/ FilterExisting \/ Enrich)
    BY DEF SelectLeads, ReuseProfiles, FilterExisting, Enrich, Raise
<1>6. ~ (Research \/ Verify \/ ScoreLeads \/ Compose \/ ReadTask)
    BY DEF Research, Verify, ScoreLeads, Compose, ReadTask, Raise
<1>7. ASSUME NEW id PROVE ~ ApiActivate(id) /\ \A patch : ~ ApiMutate(id, patch)
    BY DEF ApiActivate, ApiMutate
<1>8. QED
    BY <1>1, <1>2, <1>3, <1>4, <1>5, <1>6, <1>7 DEF Next, Node

\* The head that a promotion makes, and the one it was planned on.
LEMMA NewHeadLemma ==
    ASSUME NoneIsNothing, IInv, Next, NEW id \in Ids, NewHead(id)
    PROVE  /\ turn.node = "PROMOTE" /\ id = Active /\ heads'[id] = Snapshot
           /\ state.scope # "NONE" /\ state.version = Current.version
           /\ Snapshot.version = state.version
           /\ state.planned => Or(heads[id], NoSnapshot) = state.reuse
<1>1. Promote
    <2>1. CASE PromoteAgain
        <3>1. DOMAIN heads = Ids
            BY DEF IInv, RepositoriesOK, HeadsOK
        <3>2. heads'[id] \in {heads[id], None}
            BY <2>1, <3>1 DEF PromoteAgain
        <3>3. QED
            BY <3>2 DEF NewHead
    <2>2. QED
        BY <2>1, HeadsLemma DEF NewHead
<1>2. turn.node = "PROMOTE" /\ DOMAIN heads = Ids
    BY <1>1 DEF Promote, At, IInv, RepositoriesOK, HeadsOK
<1>3. /\ state.scope # "NONE" /\ state.version = Current.version
      /\ heads' = [heads EXCEPT ![Active] = Snapshot]
    BY <1>1 DEF Promote, NewHead
<1>4. id = Active /\ heads'[id] = Snapshot
    BY <1>2, <1>3 DEF NewHead
<1>5. state.planned => Or(heads[id], NoSnapshot) = state.reuse
    BY <1>1, <1>2, <1>3, <1>4 DEF Promote, IInv, TurnOK, HeadOK
<1>6. Snapshot.version = state.version
    BY DEF Snapshot
<1>7. QED
    BY <1>2, <1>3, <1>4, <1>5, <1>6

\* Only a composed response answers.
LEMMA ResponseLemma ==
    ASSUME IInv, Next, state'.response \notin {None, state.response} PROVE Compose
<1>1. "response" \in DOMAIN state
    BY DEF IInv, TurnOK, ShapeOK, InitialState
<1>2. ~ (Discover \/ Change \/ Read \/ Retry)
    BY <1>1 DEF Discover, Change, Read, Retry, Begin
<1>3. ASSUME NEW new, NEW node, Checkpoint(new, node) \/ Answered(new, node)
      PROVE  new.response # state.response
    BY <1>3 DEF Checkpoint, Answered
<1>4. ASSUME NEW a PROVE ~ (Clarify(a) \/ ResolveConflict(a))
    BY <1>1 DEF Clarify, ResolveConflict, Checkpoint, Answered
<1>5. ASSUME NEW a PROVE ~ SelectTask(a)
    BY <1>1 DEF SelectTask, Activated, Raise, Checkpoint, Answered
<1>6. ASSUME NEW patch PROVE Planned(patch).response = state.response
    BY <1>1 DEF Planned
<1>7. ASSUME NEW a PROVE ~ ChangeAgain(a)
    BY <1>3, <1>6 DEF ChangeAgain, Raise
<1>8. ASSUME NEW a PROVE ~ SelectRead(a)
    BY <1>1 DEF SelectRead, Raise, Checkpoint, Answered
<1>9. ~ CreateLeadTask
    BY <1>1 DEF CreateLeadTask, Checkpoint, Answered
<1>10. ~ (Requirement \/ PersistTask)
    BY <1>1 DEF Requirement, Collected, PersistTask, Checkpoint, Answered
<1>11. ~ Plan
    BY <1>1 DEF Plan, PersistCriteria, Checkpoint, Answered
<1>12. ~ ResolveTarget
    BY <1>1 DEF ResolveTarget, Activated, Raise, Checkpoint, Answered
<1>13. ~ (LoadTask \/ PlanChange)
    BY <1>1, <1>3, <1>6 DEF LoadTask, PlanChange, Checkpoint
<1>14. ~ ApplyMutation
    BY <1>1 DEF ApplyMutation, Raise, Checkpoint, Answered
<1>15. ~ PersistNewVersion
    BY <1>1 DEF PersistNewVersion, Checkpoint, Answered
<1>16. ~ (SelectLeads \/ ReuseProfiles)
    BY <1>1 DEF SelectLeads, ReuseProfiles, Checkpoint, Answered
<1>17. ~ FilterExisting
    BY <1>1 DEF FilterExisting, Raise, Checkpoint, Answered
<1>18. ~ Enrich
    BY <1>1 DEF Enrich, Raise, Checkpoint, Answered
<1>19. ~ Research
    BY <1>1 DEF Research, Checkpoint, Answered
<1>20. ~ Verify
    BY <1>1 DEF Verify, Raise, Checkpoint, Answered
<1>21. ~ (ScoreLeads \/ Promote \/ PromoteAgain)
    BY <1>1 DEF ScoreLeads, Promote, PromoteAgain, Checkpoint, Answered
<1>22. ~ ReadTask
    BY <1>1 DEF ReadTask, Raise, Checkpoint, Answered
<1>23. ASSUME NEW id PROVE ~ ApiActivate(id) /\ \A patch : ~ ApiMutate(id, patch)
    BY DEF ApiActivate, ApiMutate
<1>24. QED
    BY <1>2, <1>4, <1>5, <1>7, <1>8, <1>9, <1>10, <1>11, <1>12, <1>13, <1>14, <1>15, <1>16,
       <1>17, <1>18, <1>19, <1>20, <1>21, <1>22, <1>23 DEF Next, Node

-----------------------------------------------------------------------------
(* What a turn promotes and answers.                                       *)

\* A turn that says it is done has promoted the head of the task's version: a
\* promotion that was skipped means that the version has changed, and the
\* version that the turn is about never comes back.
THEOREM OwnVersionAnswered == ASSUME NoneIsNothing PROVE Spec => AnswersOwnVersion
<1> DEFINE Done == state.response = None /\ state'.response = "COMPLETED" /\ OwnScope /\ state.scope # "NONE"
           Own == heads[Active] # None /\ heads[Active].version = Current.version
<1>1. ASSUME IInv, Next, Done PROVE Own
    <2>1. state'.response \notin {None, state.response}
        BY <1>1 DEF NoneIsNothing
    <2>2. Compose
        BY <1>1, <2>1, ResponseLemma
    <2>3. turn.node = "COMPOSE"
        BY <2>2 DEF Compose, At
    <2>4. state.version = Current.version
        <3>1. "response" \in DOMAIN state
            BY <1>1 DEF IInv, TurnOK, ShapeOK, InitialState
        <3>2. SUFFICES ASSUME state.version # Current.version PROVE FALSE
            OBVIOUS
        <3>3. Checkpoint([state EXCEPT !.response = "SUPERSEDED"], "IDLE")
            BY <2>2, <3>2 DEF Compose
        <3>4. state'.response \in {"SUPERSEDED", state.response}
            BY <3>1, <3>3 DEF Checkpoint
        <3>5. QED
            BY <1>1, <2>1, <3>4
    <2>5. QED
        BY <1>1, <2>3, <2>4 DEF IInv, TurnOK, PromotedOK
<1>2. IInv /\ [Next]_vars => [Done => Own]_vars
    BY <1>1
<1>3. QED
    BY <1>2, Invariance, PTL DEF Spec, AnswersOwnVersion

\* The criteria of a new head ask what its task asks, all its hard constraints
\* that are valid rules among them, whichever node made them: a version that
\* another request made in between stops the promotion.
THEOREM CriteriaAsked == ASSUME NoneIsNothing PROVE Spec => CriteriaAskWhatTaskAsks
<1> DEFINE P(id) == NewHead(id) /\ OwnScope /\ state.scope # "DISPLAY_ONLY" =>
                        AskedOf(id, heads'[id].criteria) /\ heads'[id].version = tasks[id].version
<1>1. ASSUME IInv, Next, NEW id \in Ids PROVE P(id)
    <2>1. SUFFICES ASSUME NewHead(id), OwnScope, state.scope # "DISPLAY_ONLY" PROVE P(id)
        OBVIOUS
    <2>2. /\ turn.node = "PROMOTE" /\ id = Active /\ heads'[id] = Snapshot
          /\ state.scope # "NONE" /\ state.version = Current.version
          /\ Snapshot.version = state.version
        BY <1>1, <2>1, NewHeadLemma
    <2>3. Ask(state.criteria)
        BY <1>1, <2>1, <2>2 DEF IInv, TurnOK, CriteriaOK
    <2>4. Snapshot.criteria = state.criteria
        BY <2>1 DEF Snapshot
    <2>5. QED
        BY <2>2, <2>3, <2>4 DEF Ask, AskedOf, Current
<1>2. IInv /\ [Next]_vars => [\A id \in Ids : P(id)]_vars
    BY <1>1
<1>3. QED
    BY <1>2, Invariance, PTL DEF Spec, CriteriaAskWhatTaskAsks

\* A partial run takes over the plan, the raw set and the researched set of
\* the head it replaces: the one it was planned on is still there.
THEOREM UniverseKept == ASSUME NoneIsNothing PROVE Spec => PartialKeepsUniverse
<1> DEFINE P(id) == NewHead(id) /\ state.planned
                    /\ state.scope \notin {"DISCOVERY_REQUIRED", "FULL_REPLAN"} =>
                        \E old \in {Or(heads[id], NoSnapshot)} :
                           <<heads'[id].plan, heads'[id].raw, heads'[id].researched>>
                              = <<old.plan, old.raw, old.researched>>
<1>1. ASSUME IInv, Next, NEW id \in Ids PROVE P(id)
    <2>1. SUFFICES ASSUME NewHead(id), state.planned,
                          state.scope \notin {"DISCOVERY_REQUIRED", "FULL_REPLAN"}
                   PROVE  P(id)
        OBVIOUS
    <2>2. heads'[id] = Snapshot /\ state.scope # "NONE" /\ Or(heads[id], NoSnapshot) = state.reuse
        BY <1>1, <2>1, NewHeadLemma
    <2>3. Partial
        BY <1>1, <2>1, <2>2 DEF IInv, TurnOK, ScopeOK, Scopes, Route, Partial
    <2>4. /\ Snapshot.plan = state.reuse.plan /\ Snapshot.raw = state.reuse.raw
          /\ Snapshot.researched = state.reuse.researched
        BY <2>3 DEF Snapshot
    <2>5. QED
        BY <2>2, <2>4
<1>2. IInv /\ [Next]_vars => [\A id \in Ids : P(id)]_vars
    BY <1>1
<1>3. QED
    BY <1>2, Invariance, PTL DEF Spec, PartialKeepsUniverse

\* The leads of a new head were scored by its criteria, unless it has nothing
\* to score or displays a head whose leads were not.
THEOREM LineageIsKept == ASSUME NoneIsNothing PROVE Spec => LineageKept
<1> DEFINE P(id) == NewHead(id) /\ OwnScope /\ Members(heads'[id].researched) # {}
                    /\ (state.scope = "DISPLAY_ONLY" => heads[id] # None /\ Chained(heads[id]))
                        => Chained(heads'[id])
<1>1. ASSUME IInv, Next, NEW id \in Ids PROVE P(id)
    <2>1. SUFFICES ASSUME NewHead(id), OwnScope, Members(heads'[id].researched) # {},
                          state.scope = "DISPLAY_ONLY" => heads[id] # None /\ Chained(heads[id])
                   PROVE  Chained(heads'[id])
        OBVIOUS
    <2>2. /\ turn.node = "PROMOTE" /\ heads'[id] = Snapshot /\ state.scope # "NONE"
          /\ state.planned => Or(heads[id], NoSnapshot) = state.reuse
        BY <1>1, <2>1, NewHeadLemma
    <2>3. Snapshot.leads = HeadLeads
        BY DEF Snapshot
    <2>4. CASE state.scope = "DISPLAY_ONLY"
        <3>1. state.planned
            BY <2>1, <2>4 DEF OwnScope, NoneIsNothing, Scopes, Route
        <3>2. state.reuse = heads[id] /\ Chained(state.reuse)
            BY <2>1, <2>2, <2>4, <3>1 DEF Or
        <3>3. /\ Snapshot.researched = state.reuse.researched
              /\ Snapshot.criteria = state.reuse.criteria
            BY <2>4 DEF Snapshot, Partial
        <3>4. state.reuse.leads # None
            BY <1>1, <2>1, <2>2, <3>3 DEF IInv, TurnOK, ShapeOK, Scored
        <3>5. state.leads = state.reuse.leads
            BY <1>1, <2>2, <2>4, <3>1, <3>4 DEF IInv, TurnOK, LeadsOK
        <3>6. QED
            BY <2>2, <2>3, <3>2, <3>3, <3>4, <3>5 DEF Chained, HeadLeads, Or
    <2>5. CASE state.scope # "DISPLAY_ONLY"
        <3>1. \/ state.leads # None /\ state.leads.criteria = state.criteria
              \/ ~ Partial /\ Members(Researched) = {}
            BY <1>1, <2>1, <2>2, <2>5 DEF IInv, TurnOK, LeadsOK
        <3>2. ~ Partial => Snapshot.researched = Researched
            BY DEF Snapshot, Researched
        <3>3. Snapshot.criteria = state.criteria
            BY <2>5 DEF Snapshot
        <3>4. QED
            BY <2>1, <2>2, <2>3, <3>1, <3>2, <3>3 DEF Chained, HeadLeads, Or
    <2>6. QED
        BY <2>4, <2>5
<1>2. IInv /\ [Next]_vars => [\A id \in Ids : P(id)]_vars
    BY <1>1
<1>3. QED
    BY <1>2, Invariance, PTL DEF Spec, LineageKept
=============================================================================
