---------------------------- MODULE SessionTurns ----------------------------
(***************************************************************************)
(* The turns of one conversation: the main graph of agent/graph.py with    *)
(* its requirement, planning and mutation subgraphs, and the state that    *)
(* the checkpoint carries from one turn to the next.                       *)
(*                                                                         *)
(* One node of the graph is one step.  A node writes to the repositories   *)
(* and then its result is checkpointed; a crash in between runs the node   *)
(* again (Checkpoint).  Another request may change or activate a task      *)
(* between two nodes.  The research and verification subgraphs, which have *)
(* modules of their own, are one step each, without failures.  Artifacts   *)
(* (criteria, plans, sets) are the values their ids stand for.             *)
(***************************************************************************)
EXTENDS Integers, FiniteSets, FiniteSetsExt

CONSTANTS
    None,                    \* a field that is not set
    Businesses, Candidates,  \* candidates are numbers, the better ones first
    Data,                    \* [candidate -> [field -> value or None]]
    Catalog,                 \* businesses that rules may be of
    Malformed,               \* constraints that normalizer or validator refuse
    Official,                \* [business -> the hard constraints documents demand]
    Marketing,               \* [business -> soft constraints]
    Pushable,                \* fields a provider can filter by
    CandidateFields,         \* fields a candidate may have
    VerifiedFields,          \* fields that every verified profile has
    Discoveries, Changes, Reads, Answers,   \* what the user may say
    Patches,                 \* what POST /tasks/{id}/mutations may ask
    MaxTasks, MaxMessages, MaxAnswers, MaxRequests, MaxCrashes

ASSUME BoundsAssumption ==
    {MaxTasks, MaxMessages, MaxAnswers, MaxRequests, MaxCrashes} \subseteq Nat

VARIABLES
    tasks,       \* [id -> the task's head, or None]
    session,     \* its active task, the task updated last, and who created which
    mutations,   \* what was applied, by task and source message
    heads,       \* [id -> the current execution snapshot, or None]
    found,       \* links and profiles of enterprises, verification runs, known rules,
                 \* and the versions of tasks that have a snapshot
    state,       \* AgentState: what the thread's checkpoint carries
    turn,        \* the node to run next, and what the turn was asked
    used         \* bounds: messages and answers of the user, other requests, crashes

vars == <<tasks, session, mutations, heads, found, state, turn, used>>

Ids == 1..MaxTasks
Known == {t \in Ids : tasks[t] # None}
Slots == {"business", "region", "target"}
Or(a, b) == IF a # None THEN a ELSE b

-----------------------------------------------------------------------------
(* Tasks and patches.                                                      *)

NewTask == [business |-> None, region |-> None, target |-> None, constraints |-> {},
            required |-> {}, version |-> 1]

NoPatch == [business |-> None, region |-> None, target |-> None, constraints |-> {}, required |-> None]

\* A constraint of a patch replaces the one on its field, or only removes it.
Constrained(constraints, patch) ==
    LET named == {c.field : c \in patch.constraints}
    IN  {c \in constraints : c.field \notin named}
        \cup {[field |-> c.field, kind |-> c.kind, value |-> c.value] :
                  c \in {x \in patch.constraints : x.op # "REMOVE"}}

Patched(task, patch) ==
    [task EXCEPT !.business = Or(patch.business, @), !.region = Or(patch.region, @),
                 !.target = Or(patch.target, @), !.required = Or(patch.required, @),
                 !.constraints = Constrained(@, patch), !.version = @ + 1]

\* update_task also makes the task the session's active one; so does a change
\* of its status, which is all that Touched stands for.
Saved(t, task) ==
    /\ tasks' = [tasks EXCEPT ![t] = task]
    /\ session' = [session EXCEPT !.active = t, !.latest = t]

Touched(t) == Saved(t, tasks[t])

Apply(t, patch) == Saved(t, Patched(tasks[t], patch))

Create(t, message) ==
    /\ tasks' = [tasks EXCEPT ![t] = NewTask]
    /\ session' = [active |-> t, latest |-> t, created |-> [session.created EXCEPT ![message] = t]]

-----------------------------------------------------------------------------
(* Criteria.                                                               *)

Of(constraints, kind) == {[field |-> c.field, value |-> c.value] :
                             c \in {x \in constraints : x.kind = kind}}
FieldsOf(constraints) == {c.field : c \in constraints}

Criteria(t, task, hard, soft, required) ==
    [task |-> t, version |-> task.version, business |-> task.business,
     region |-> task.region, target |-> task.target,
     hard |-> hard, soft |-> soft, required |-> required]

Clash(a, b) == a.field = b.field /\ a.value # b.value

\* Of two rules that clash the one of the lower source is dropped: marketing's
\* for the user's preference, and that for a hard rule.
Surviving(rules, stronger) == {r \in rules : \A s \in stronger : ~ Clash(r, s)}

\* Rules that cannot be normalized or validated are left out with a warning, and
\* so are all those of a business that is not in the catalog.
Accepted(business, rules) == IF business \in Catalog THEN rules \ Malformed ELSE {}

Hard(task, official) ==
    Accepted(task.business,
             {[field |-> "region", value |-> task.region]} \cup Of(task.constraints, "HARD") \cup official)

\* What the rules of a plan amount to: the region and the user's constraints,
\* those of documents, and the preferences that survive.
Compiled(t, task, official) ==
    LET hard == Hard(task, official)
        soft == Surviving(Accepted(task.business, Of(task.constraints, "SOFT")), hard)
        market == Accepted(task.business, Marketing[task.business])
    IN  Criteria(t, task, hard, soft \cup Surviving(market, hard \cup soft), {})

CriteriaFromTask(t, task) ==
    Criteria(t, task, Of(task.constraints, "HARD"), Of(task.constraints, "SOFT"), task.required)

Blocking(official, hard) == \E o \in official, h \in hard : Clash(o, h)

Meets(c, hard) == \A h \in hard : Data[c][h.field] \in {None, h.value}

-----------------------------------------------------------------------------
(* Which task a message means.                                             *)

OfBusiness(b) == {t \in Known : tasks[t].business = b}

\* The active task is the one that the turn began with.
UsesActive(ref) == state.active # None /\ (ref.active \/ (~ ref.vague /\ ref.business = None))

Resolve(ref) ==
    LET one(t) == [status |-> "RESOLVED", candidates |-> {t}]
        several(ts) == [status |-> "AMBIGUOUS", candidates |-> ts]
        named == OfBusiness(ref.business)
    IN  IF ref.task # None
        THEN IF ref.task \in Known THEN one(ref.task) ELSE [status |-> "NOT_FOUND", candidates |-> {}]
        ELSE IF ref.business # None /\ named # {}
        THEN IF Cardinality(named) = 1 THEN one(CHOOSE t \in named : TRUE) ELSE several(named)
        ELSE IF UsesActive(ref) THEN one(state.active)
        ELSE IF Cardinality(Known) = 1 THEN one(CHOOSE t \in Known : TRUE)
        ELSE IF ref.latest /\ Known # {} THEN one(session.latest)
        ELSE IF Known # {} THEN several(Known)
        ELSE [status |-> "NOT_FOUND", candidates |-> {}]

-----------------------------------------------------------------------------
(* What a change of requirements invalidates.                              *)

Members(set) == IF set = None THEN {} ELSE set.members

NoSnapshot == [task |-> None, version |-> 0, criteria |-> None, plan |-> None, raw |-> None,
               filtered |-> None, researched |-> None, verified |-> None, leads |-> None]

\* ArtifactReuseAnalyzer: the head's artifacts, and the last verification run.
Reusable(t) ==
    LET head == Or(heads[t], NoSnapshot)
        sets == {head.raw, head.filtered, head.researched}
        pool == IF Members(head.raw) # {} THEN Members(head.raw) ELSE Members(head.researched)
        hard == IF head.plan = None THEN {} ELSE FieldsOf(head.plan.hard)
        profiles == IF heads[t] = None THEN {} ELSE found.run[t]
    IN  [head       |-> head,
         candidate  |-> IF pool = {} THEN {}
                        ELSE {f \in CandidateFields : \A c \in pool : Data[c][f] # None},
         verified   |-> IF profiles = {} THEN {} ELSE VerifiedFields,
         pushdown   |-> hard \cap Pushable,
         discovery  |-> {"region"} \cup (hard \cap Pushable),
         enrichment |-> IF head.plan = None THEN {} ELSE hard \cup head.plan.required,
         scored     |-> Cardinality(Members(head.leads)),
         profiles   |-> Cardinality(profiles),
         largest    |-> Max({Cardinality(Members(s)) : s \in sets})]

Changed(old, new) == FieldsOf((old \ new) \cup (new \ old))

HardScope(hard, reuse) ==
    CASE hard \subseteq reuse.candidate -> "FILTER_ONLY"
      [] ~ hard \subseteq reuse.candidate /\ hard \cap reuse.discovery = {}
         /\ hard \subseteq reuse.enrichment -> "ENRICHMENT_REQUIRED"
      [] OTHER -> "DISCOVERY_REQUIRED"

CountScope(before, after, reuse) ==
    IF after = before THEN "DISCOVERY_REQUIRED"
    ELSE IF (before # None /\ after < before) \/ after <= reuse.scored THEN "DISPLAY_ONLY"
    ELSE IF after <= reuse.profiles THEN "RANK_ONLY"
    ELSE IF after <= reuse.largest THEN "FILTER_ONLY"
    ELSE "DISCOVERY_REQUIRED"

\* classify_invalidation, on the patched copy of the task.
Scope(before, after, reuse) ==
    LET hardBefore == Of(before.constraints, "HARD")
        hardAfter == Of(after.constraints, "HARD")
        requested == after.required \ before.required
        hard == Changed(hardBefore, hardAfter)
        soft == Changed(Of(before.constraints, "SOFT"), Of(after.constraints, "SOFT"))
        pushed == (FieldsOf(hardBefore) \ FieldsOf(hardAfter)) \cap reuse.pushdown
    IN  CASE [after EXCEPT !.version = before.version] = before -> "NONE"
          [] after.business # before.business -> "FULL_REPLAN"
          [] OTHER ->
        CASE after.region # before.region -> "DISCOVERY_REQUIRED"
          [] OTHER ->
        CASE requested # {} -> IF requested \subseteq reuse.verified
                               THEN "DISPLAY_ONLY" ELSE "ENRICHMENT_REQUIRED"
          [] requested = {} /\ pushed # {} -> "DISCOVERY_REQUIRED"
          [] requested = {} /\ pushed = {} /\ hard # {} -> HardScope(hard, reuse)
          [] requested = {} /\ hard = {} /\ soft # {} ->
                               IF soft \subseteq reuse.verified
                               THEN "RANK_ONLY" ELSE "ENRICHMENT_REQUIRED"
          [] OTHER -> CountScope(before.target, after.target, reuse)

-----------------------------------------------------------------------------
(* A node ends with its checkpoint.  After a crash in between it runs      *)
(* again, on what it has left in the repositories.                         *)

Checkpoint(new, node) ==
    \/ /\ state' = new
       /\ turn' = [turn EXCEPT !.node = node, !.error = None]
       /\ UNCHANGED used
    \/ /\ used.crashes < MaxCrashes
       /\ used' = [used EXCEPT !.crashes = @ + 1]
       /\ UNCHANGED <<state, turn>>

\* An error in a node leaves it pending.
Raise(error) ==
    /\ turn' = [turn EXCEPT !.error = error]
    /\ UNCHANGED <<tasks, session, mutations, heads, found, state, used>>

At(node) == turn.node = node /\ turn.error = None
Waiting == {"CLARIFY", "CONFLICT", "SELECT", "SELECT_READ", "RULE_CONFLICT"}
Message == used.messages < MaxMessages /\ used' = [used EXCEPT !.messages = @ + 1]

Active == state.active
Current == tasks[Active]

InitialState ==
    [active |-> None, target |-> None, version |-> 0, source |-> None, patch |-> None,
     clarification |-> None, before |-> None, criteria |-> None, plan |-> None,
     raw |-> None, filtered |-> None, researched |-> None, candidates |-> None, count |-> 0,
     verification |-> None, profiles |-> {}, reused |-> {}, needed |-> FALSE,
     leads |-> None, verified |-> None, scope |-> None, planned |-> FALSE, reuse |-> NoSnapshot,
     choices |-> {}, shown |-> None, response |-> None]

Init ==
    /\ tasks = [id \in Ids |-> None]
    /\ session = [active |-> None, latest |-> None, created |-> [m \in Discoveries |-> None]]
    /\ mutations = {}
    /\ heads = [id \in Ids |-> None]
    /\ found = [links |-> [id \in Ids |-> {}], profiled |-> {}, run |-> [id \in Ids |-> {}],
                rules |-> {}, snapshots |-> {}]
    /\ state = InitialState
    /\ turn = [node |-> "IDLE", message |-> None, error |-> None]
    /\ used = [messages |-> 0, answers |-> 0, requests |-> 0, crashes |-> 0]

\* load_context and classify_intent: a change needs an active task.
Begin(m, node) ==
    /\ At("IDLE") /\ Message
    /\ turn' = [node |-> node, message |-> m, error |-> None]
    /\ state' = [state EXCEPT !.active = session.active, !.response = None, !.planned = FALSE,
                              !.shown = None,
                              !.version = IF session.active = None THEN @
                                          ELSE tasks[session.active].version]
    /\ UNCHANGED <<tasks, session, mutations, heads, found>>

Discover ==
    \E m \in Discoveries :
        /\ session.created[m] = None => Cardinality(Known) < MaxTasks
        /\ Begin(m, "CREATE")
Change == session.active # None /\ \E m \in Changes : Begin(m, "TARGET")
Read == \E m \in Reads : Begin(m, "READ")

\* The next message runs a node that failed again.
Retry ==
    /\ turn.error # None /\ turn.node \notin Waiting /\ Message
    /\ turn' = [turn EXCEPT !.error = None]
    /\ UNCHANGED <<tasks, session, mutations, heads, found, state>>

-----------------------------------------------------------------------------
(* A new task: the requirement subgraph.                                   *)

\* The same text in the same session is the task it created before.
CreateLeadTask ==
    /\ At("CREATE")
    /\ \E new \in {Cardinality(Known) + 1}, old \in {session.created[turn.message]} :
         IF old # None
         THEN /\ Checkpoint([state EXCEPT !.active = old, !.version = tasks[old].version], "REQUIREMENT")
              /\ UNCHANGED <<tasks, session>>
         ELSE /\ new \in Ids
              /\ Create(new, turn.message)
              /\ Checkpoint([state EXCEPT !.active = new, !.version = 1], "REQUIREMENT")
    /\ UNCHANGED <<mutations, heads, found>>

\* merge_task_patch: the slots of the task unless the patch names them.
Merged(patch) ==
    [patch EXCEPT !.business = Or(@, Current.business), !.region = Or(@, Current.region),
                  !.target = Or(@, Current.target)]

Missing(patch) == {slot \in Slots : patch[slot] = None}

Collected(new, patch) ==
    Checkpoint([new EXCEPT !.patch = patch], IF Missing(patch) = {} THEN "PERSIST" ELSE "CLARIFY")

\* What is read is the last clarification of the thread, if there was one.
Requirement ==
    /\ At("REQUIREMENT")
    /\ Collected(state, Merged(Or(state.clarification, turn.message.patch)))
    /\ UNCHANGED <<tasks, session, mutations, heads, found>>

\* A clarification overwrites what it names, and the constraints always.
Clarified(old, new) ==
    [slot \in DOMAIN old |-> IF slot = "constraints" THEN new.constraints ELSE Or(new[slot], old[slot])]

Answer(node) == turn.node = node /\ used.answers < MaxAnswers
Answered(new, node) ==
    /\ state' = new
    /\ turn' = [turn EXCEPT !.node = node, !.error = None]
    /\ used' = [used EXCEPT !.answers = @ + 1]

Clarify(a) ==
    /\ Answer("CLARIFY")
    /\ LET patch == Merged(Clarified(state.patch, a.patch))
       IN  Answered([state EXCEPT !.clarification = a.patch, !.patch = patch],
                    IF Missing(patch) = {} THEN "PERSIST" ELSE "CLARIFY")
    /\ UNCHANGED <<tasks, session, mutations, heads, found>>

PersistTask ==
    /\ At("PERSIST")
    /\ Apply(Active, state.patch)
    /\ Checkpoint([state EXCEPT !.version = Current.version + 1], "PLANNING")
    /\ UNCHANGED <<mutations, heads, found>>

-----------------------------------------------------------------------------
(* Business planning.                                                      *)

\* The rules that documents were once found to hold stay known.
Extracted(official) == IF official = {} THEN found.rules ELSE found.rules \cup {Current.business}

PersistCriteria(new, official) ==
    /\ Touched(Active)
    /\ Checkpoint([new EXCEPT !.criteria = Compiled(Active, Current, official)], "RESEARCH")

\* The rules of documents are found, or their retrieval fails.
Plan ==
    /\ At("PLANNING")
    /\ \E official \in {Official[Current.business], {}} :
         /\ found' = [found EXCEPT !.rules = Extracted(official)]
         /\ LET new == [state EXCEPT !.version = Current.version]
            IN  IF Blocking(official \cap Hard(Current, official), Hard(Current, {}))
                THEN Checkpoint(new, "CONFLICT") /\ UNCHANGED <<tasks, session>>
                ELSE PersistCriteria(new, official)
    /\ UNCHANGED <<mutations, heads>>

\* Whatever the conflict was about, what changes is the number of members.
ResolveConflict(a) ==
    /\ Answer("CONFLICT")
    /\ LET asked == IF a.members = None
                    THEN [field |-> "members", op |-> "REMOVE", kind |-> "HARD", value |-> "none"]
                    ELSE [field |-> "members", op |-> "ADD", kind |-> "HARD", value |-> a.members]
       IN  Apply(Active, [NoPatch EXCEPT !.constraints = {asked}])
    /\ Answered(state, "PLANNING")
    /\ UNCHANGED <<mutations, heads, found>>

-----------------------------------------------------------------------------
(* A change of a task: the mutation subgraph.                              *)

\* The task meant becomes the active one.
Activated(id, node, Step(_, _)) ==
    /\ session' = [session EXCEPT !.active = id]
    /\ Step([state EXCEPT !.active = id, !.target = id], node)

ResolveTarget ==
    /\ At("TARGET")
    /\ \E resolution \in {Resolve(turn.message.ref)} :
         \/ /\ resolution.status = "RESOLVED"
            /\ \E id \in resolution.candidates : Activated(id, "LOAD", Checkpoint)
            /\ UNCHANGED <<tasks, mutations, heads, found>>
         \/ /\ resolution.status = "AMBIGUOUS"
            /\ Checkpoint([state EXCEPT !.choices = resolution.candidates], "SELECT")
            /\ UNCHANGED <<tasks, session, mutations, heads, found>>
         \/ resolution.status = "NOT_FOUND" /\ Raise("TASK_NOT_FOUND")

SelectTask(a) ==
    /\ Answer("SELECT")
    /\ \/ /\ a.task \in state.choices
          /\ Activated(a.task, "LOAD", Answered)
          /\ UNCHANGED <<tasks, mutations, heads, found>>
       \/ /\ a.task \notin state.choices /\ turn.error = None
          /\ Raise("TASK_REFERENCE_AMBIGUOUS")

\* load_current_task and parse_mutation: the task as it is now is what the change
\* is planned against, also after the question that follows.
LoadTask ==
    /\ At("LOAD")
    /\ Checkpoint([state EXCEPT !.before = Current, !.version = Current.version,
                               !.source = <<Active, Current.version, turn.message>>], "PLAN_CHANGE")
    /\ UNCHANGED <<tasks, session, mutations, heads, found>>

\* validate_patch: a hard constraint against the official rules known so far.
Conflicting(patch) ==
    /\ Current.business \in found.rules
    /\ Blocking(Official[Current.business], {c \in patch.constraints : c.op = "ADD" /\ c.kind = "HARD"})

\* build_mutation_preview to build_reexecution_plan, which only read.
Planned(patch) ==
    LET reuse == Reusable(Active)
    IN  [state EXCEPT !.patch = patch, !.reuse = reuse.head, !.planned = TRUE,
                      !.scope = Scope(state.before, Patched(state.before, patch), reuse)]

PlanChange ==
    /\ At("PLAN_CHANGE")
    /\ IF Conflicting(turn.message.patch) THEN Checkpoint(state, "RULE_CONFLICT")
       ELSE \E new \in {Planned(turn.message.patch)} : Checkpoint(new, "APPLY")
    /\ UNCHANGED <<tasks, session, mutations, heads, found>>

ChangeAgain(a) ==
    /\ Answer("RULE_CONFLICT")
    /\ IF Conflicting(a.patch) THEN turn.error = None /\ Raise("RULE_CONFLICT")
       ELSE /\ \E new \in {Planned(a.patch)} : Answered(new, "APPLY")
            /\ UNCHANGED <<tasks, session, mutations, heads, found>>

\* Applied unless it was before; a version that moved since it was planned is
\* an error, each time the node runs.
ApplyMutation ==
    /\ At("APPLY")
    /\ LET done == {m \in mutations : m.source = state.source}
           next == state.before.version + 1
           mutation == [source |-> state.source, scope |-> state.scope,
                        version |-> IF state.scope = "NONE" THEN state.before.version ELSE next]
       IN  \/ /\ done # {}
              /\ \E m \in done : Checkpoint([state EXCEPT !.version = m.version, !.scope = m.scope], "PERSIST_VERSION")
              /\ UNCHANGED <<tasks, session, mutations>>
           \/ /\ done = {} /\ state.scope # "NONE" /\ Current.version # state.before.version
              /\ Raise("TASK_VERSION_CONFLICT")
           \/ /\ done = {} /\ (state.scope # "NONE" => Current.version = state.before.version)
              /\ mutations' = mutations \cup {mutation}
              /\ IF state.scope = "NONE" THEN UNCHANGED <<tasks, session>>
                 ELSE Apply(Active, state.patch)
              /\ Checkpoint([state EXCEPT !.version = mutation.version], "PERSIST_VERSION")
    /\ UNCHANGED <<heads, found>>

\* The task's own constraints, and the old criteria's on fields not changed.
Carried(old, changed) == {c \in old : c.field \notin changed}

\* Mutant: from the task as it was planned for.
NextCriteria_Variant == CriteriaFromTask(Active, state.before)

NextCriteria ==
    LET own == CriteriaFromTask(Active, Current)
        old == state.criteria
        changed == Changed(state.before.constraints, Patched(state.before, state.patch).constraints)
    IN  IF old = None THEN own
        ELSE [own EXCEPT !.hard = @ \cup Carried(old.hard, changed), !.soft = @ \cup Carried(old.soft, changed),
                         !.required = IF @ = {} THEN old.required ELSE @]

Route == [NONE |-> "SELECT_LEADS", DISPLAY_ONLY |-> "SELECT_LEADS", RANK_ONLY |-> "REUSE",
          FILTER_ONLY |-> "FILTER", ENRICHMENT_REQUIRED |-> "ENRICH",
          DISCOVERY_REQUIRED |-> "RESEARCH", FULL_REPLAN |-> "PLANNING"]

PersistNewVersion ==
    /\ At("PERSIST_VERSION")
    /\ IF state.scope \in {"NONE", "DISPLAY_ONLY", "FULL_REPLAN"} THEN Checkpoint(state, Route[state.scope])
       ELSE \E criteria \in {NextCriteria} :
                Checkpoint([state EXCEPT !.criteria = criteria], Route[state.scope])
    /\ UNCHANGED <<tasks, session, mutations, heads, found>>

-----------------------------------------------------------------------------
(* What each scope runs again.                                             *)

SetOf(criteria, members) == [criteria |-> criteria, members |-> members]

SelectLeads ==
    /\ At("SELECT_LEADS")
    /\ LET leads == Or(state.reuse.leads, state.leads)
       IN  Checkpoint([state EXCEPT !.leads = leads, !.verified = leads], "PROMOTE")
    /\ UNCHANGED <<tasks, session, mutations, heads, found>>

ReuseProfiles ==
    /\ At("REUSE")
    /\ Checkpoint([state EXCEPT !.profiles = found.run[Active]], "SCORE")
    /\ UNCHANGED <<tasks, session, mutations, heads, found>>

\* A pool that has become too small is searched again.
FilterExisting ==
    /\ At("FILTER")
    /\ LET parent == Or(state.reuse.researched, state.reuse.raw)
           selected == {c \in Members(parent) : Meets(c, state.criteria.hard)}
           reused == selected \cap found.links[Active] \cap found.profiled
           fresh == SetOf(state.criteria, selected \ reused)
           filtered == [state EXCEPT !.filtered = SetOf(state.criteria, selected), !.reused = reused,
                                     !.count = Cardinality(selected), !.needed = fresh.members # {}]
           new == IF fresh.members = {} THEN [filtered EXCEPT !.profiles = reused]
                  ELSE [filtered EXCEPT !.researched = fresh, !.candidates = fresh]
       IN  \/ /\ parent = None
              /\ Raise("REUSABLE_ARTIFACT_MISSING")
           \/ /\ parent # None
              /\ IF Cardinality(selected) < Current.target
                 THEN Checkpoint([new EXCEPT !.scope = "DISCOVERY_REQUIRED", !.needed = FALSE], "RESEARCH")
                 ELSE Checkpoint(new, IF new.needed THEN "VERIFY" ELSE "SCORE")
              /\ UNCHANGED <<tasks, session, mutations, heads, found>>

Enrich ==
    /\ At("ENRICH")
    /\ \E set \in {Or(state.reuse.researched, state.reuse.filtered)} :
         IF set = None THEN Raise("REUSABLE_ARTIFACT_MISSING")
         ELSE /\ Checkpoint([state EXCEPT !.researched = set, !.candidates = set, !.needed = TRUE,
                                          !.reused = {}], "VERIFY")
              /\ UNCHANGED <<tasks, session, mutations, heads, found>>

\* Mutant: an empty search is tried again.
AfterResearch_Variant(members) == IF members = {} THEN "RESEARCH" ELSE "VERIFY"
AfterResearch(members) == IF members = {} THEN "PROMOTE" ELSE "VERIFY"

\* The research subgraph for the criteria at hand: with an older version of the
\* task its batches are empty.
Research ==
    /\ At("RESEARCH")
    /\ LET criteria == state.criteria
           stale == tasks[criteria.task].version # criteria.version
           pushed == {h \in criteria.hard : h.field \in Pushable}
           raw == {c \in Candidates : ~ stale /\ Data[c].region = criteria.region /\ Meets(c, pushed)}
           kept == SetOf(criteria, {c \in raw : Meets(c, criteria.hard)})
       IN  Checkpoint([state EXCEPT !.plan = criteria, !.raw = SetOf(criteria, raw), !.filtered = kept,
                                    !.researched = kept, !.candidates = kept, !.verified = kept,
                                    !.count = Cardinality(kept.members)],
                      AfterResearch(kept.members))
    /\ UNCHANGED <<tasks, session, mutations, heads, found>>

\* The verification subgraph: every enterprise the task was ever linked to gets
\* a profile, in the run that the thread began with.  merge_verified_profiles.
Verify ==
    /\ At("VERIFY")
    /\ LET set == Or(state.researched, state.candidates)
           linked == found.links[Active] \cup Members(set)
           run == Or(state.verification, Active)
           reused == IF state.scope \in {"FILTER_ONLY", "ENRICHMENT_REQUIRED"} THEN state.reused ELSE {}
       IN  \/ Members(set) = {} /\ Raise("RESEARCHED_CANDIDATE_SET_NOT_FOUND")
           \/ /\ Members(set) # {}
              /\ found' = [found EXCEPT !.links[Active] = linked, !.profiled = @ \cup linked, !.run[run] = linked]
              /\ Checkpoint([state EXCEPT !.researched = set, !.verification = run,
                                          !.profiles = linked \cup reused], "SCORE")
              /\ UNCHANGED <<tasks, session, mutations, heads>>

\* The best: those that meet more of the preferences, then the better ones.
Better(c, d, soft) ==
    LET misses(x) == Cardinality({s \in soft : Data[x][s.field] # s.value})
    IN  misses(c) < misses(d) \/ (misses(c) = misses(d) /\ c < d)
Top(n, members, soft) ==
    {c \in members : Cardinality({d \in members : Better(d, c, soft)}) < n}

ScoreLeads ==
    /\ At("SCORE")
    /\ \E leads \in {[task |-> Active, version |-> Current.version, criteria |-> state.criteria,
                      members |-> Top(Current.target, state.profiles, state.criteria.soft)]} :
           Checkpoint([state EXCEPT !.leads = leads, !.verified = leads], "PROMOTE")
    /\ Touched(Active)
    /\ UNCHANGED <<mutations, heads, found>>

\* Mutant: only what runs nothing again is partial.
Partial_Variant == state.scope \in {"DISPLAY_ONLY", "RANK_ONLY"}
Partial == state.scope \in {"DISPLAY_ONLY", "RANK_ONLY", "FILTER_ONLY", "ENRICHMENT_REQUIRED"}

\* Mutant: the replaced head's come first.
HeadLeads_Variant == Or(state.reuse.leads, state.leads)
HeadLeads == Or(state.leads, state.reuse.leads)

\* The new head: what a partial scope leaves alone comes from the old one.
Snapshot ==
    LET source == IF Partial THEN state.reuse ELSE state
    IN  [task |-> Active, version |-> state.version,
         criteria |-> IF state.scope = "DISPLAY_ONLY" THEN state.reuse.criteria ELSE state.criteria,
         plan |-> source.plan, raw |-> source.raw,
         filtered |-> IF state.scope = "FILTER_ONLY" THEN state.filtered ELSE source.filtered,
         researched |-> IF Partial THEN state.reuse.researched ELSE Or(state.researched, state.candidates),
         verified |-> Or(state.verified, state.reuse.verified),
         leads |-> HeadLeads]

\* A version has one snapshot: the node that runs again after its insert fails on
\* the unique key, whatever became of the version.
Promoted == <<Active, state.version>> \in found.snapshots

Promote ==
    /\ At("PROMOTE")
    /\ IF state.scope = "NONE" THEN UNCHANGED <<heads, found>>
       ELSE /\ ~ Promoted
            /\ found' = [found EXCEPT !.snapshots = @ \cup {<<Active, state.version>>}]
            /\ heads' = IF state.version # Current.version THEN heads
                        ELSE [heads EXCEPT ![Active] = Snapshot]
    /\ Checkpoint(state, "COMPOSE")
    /\ UNCHANGED <<tasks, session, mutations>>

\* By then the head has been demoted: the process knows it until it starts again.
PromoteAgain ==
    /\ At("PROMOTE") /\ state.scope # "NONE" /\ Promoted
    /\ turn' = [turn EXCEPT !.error = "UNIQUE_VIOLATION"]
    /\ \E head \in IF state.version = Current.version THEN {heads[Active], None} ELSE {heads[Active]} :
          heads' = [heads EXCEPT ![Active] = head]
    /\ UNCHANGED <<tasks, session, mutations, found, state, used>>

\* Mutant: no comparison of versions.
Compose_Variant ==
    /\ At("COMPOSE")
    /\ Checkpoint([state EXCEPT !.response = "COMPLETED"], "IDLE")
    /\ Touched(Active)
    /\ UNCHANGED <<mutations, heads, found>>

Compose ==
    /\ At("COMPOSE")
    /\ IF state.version # Current.version
       THEN Checkpoint([state EXCEPT !.response = "SUPERSEDED"], "IDLE") /\ UNCHANGED <<tasks, session>>
       ELSE Checkpoint([state EXCEPT !.response = "COMPLETED"], "IDLE") /\ Touched(Active)
    /\ UNCHANGED <<mutations, heads, found>>

-----------------------------------------------------------------------------
(* Questions about a task, and other requests.                             *)

\* The criteria explained are the head's, or those the thread has.
Explained(id) == IF heads[id] = None THEN state.criteria ELSE heads[id].criteria

ReadTask ==
    /\ At("READ")
    /\ \E resolution \in {Resolve(turn.message.ref)} :
         \/ /\ resolution.status = "RESOLVED"
            /\ \E id \in resolution.candidates :
                   Checkpoint([state EXCEPT !.target = id, !.shown = Explained(id)], "IDLE")
            /\ UNCHANGED <<tasks, session, mutations, heads, found>>
         \/ /\ resolution.status = "AMBIGUOUS"
            /\ Checkpoint([state EXCEPT !.choices = resolution.candidates], "SELECT_READ")
            /\ UNCHANGED <<tasks, session, mutations, heads, found>>
         \/ resolution.status = "NOT_FOUND" /\ Raise("TASK_REFERENCE_AMBIGUOUS")

SelectRead(a) ==
    /\ Answer("SELECT_READ")
    /\ IF a.task = None THEN turn.error = None /\ Raise("TASK_REFERENCE_AMBIGUOUS")
       ELSE /\ a.task \in Known
            /\ Answered([state EXCEPT !.target = a.task, !.shown = Explained(a.task)], "IDLE")
            /\ UNCHANGED <<tasks, session, mutations, heads, found>>

Request == used.requests < MaxRequests /\ used' = [used EXCEPT !.requests = @ + 1]

\* POST /tasks/{id}/mutations, for the version it has: nothing is run again.
ApiMutate(id, patch) ==
    /\ Request
    /\ LET task == tasks[id]
           hard == {c \in patch.constraints : c.op = "ADD" /\ c.kind = "HARD"}
       IN  /\ ~ (task.business \in found.rules /\ Blocking(Official[task.business], hard))
           /\ Scope(task, Patched(task, patch), Reusable(id)) # "NONE"
           /\ Apply(id, patch)
    /\ UNCHANGED <<mutations, heads, found, state, turn>>

ApiActivate(id) ==
    /\ Request
    /\ session' = [session EXCEPT !.active = id]
    /\ UNCHANGED <<tasks, mutations, heads, found, state, turn>>

-----------------------------------------------------------------------------

Node ==
    \/ CreateLeadTask \/ Requirement \/ PersistTask \/ Plan
    \/ ResolveTarget \/ LoadTask \/ PlanChange \/ ApplyMutation \/ PersistNewVersion
    \/ SelectLeads \/ ReuseProfiles \/ FilterExisting \/ Enrich \/ Research \/ Verify
    \/ ScoreLeads \/ Promote \/ PromoteAgain \/ Compose \/ ReadTask

Next ==
    \/ Discover \/ Change \/ Read \/ Retry
    \/ \E a \in Answers : Clarify(a) \/ ResolveConflict(a) \/ SelectTask(a) \/ ChangeAgain(a) \/ SelectRead(a)
    \/ Node
    \/ \E id \in Known : ApiActivate(id) \/ \E patch \in Patches : ApiMutate(id, patch)

Spec == Init /\ [][Next]_vars

\* The server runs a turn on until it ends.
FairSpec == Spec /\ WF_vars(Node)

-----------------------------------------------------------------------------
(* Properties.                                                             *)

Nodes == {"IDLE", "CREATE", "REQUIREMENT", "PERSIST", "PLANNING", "TARGET", "LOAD", "PLAN_CHANGE", "APPLY",
          "PERSIST_VERSION", "SELECT_LEADS", "REUSE", "FILTER", "ENRICH", "RESEARCH", "VERIFY",
          "SCORE", "PROMOTE", "COMPOSE", "READ"} \cup Waiting

\* Types: a task that is active, named or updated last exists; a head is its
\* task's and not of a later version (models of app/domain and AgentState).
TypeOK ==
    /\ {session.active, session.latest, state.active, state.target} \subseteq Known \cup {None}
    /\ \A id \in Known : tasks[id].version \in Nat \ {0} /\ tasks[id].constraints \subseteq
           [field : CandidateFields, kind : {"HARD", "SOFT"}, value : STRING]
    /\ \A id \in Ids : heads[id] # None => heads[id].task = id /\ heads[id].version <= tasks[id].version
    /\ turn.node \in Nodes
    /\ state.count \in 0..Cardinality(Candidates)
    /\ used \in [messages : 0..MaxMessages, answers : 0..MaxAnswers, requests : 0..MaxRequests, crashes : 0..MaxCrashes]

\* The scope was decided in this turn, or never: reexecution.py:227 reads
\* whatever the last change of the thread left there.
OwnScope == state.planned \/ state.scope = None

NewHead(id) == heads'[id] \notin {heads[id], None}

\* What a head was found for is what its task asks: the criteria are those of
\* its version and hold each of the task's hard constraints that is a valid rule,
\* whichever node made them and whatever other requests changed meanwhile
\* (nodes.py:195, reexecution.py:209; a display change keeps the criteria it shows).
AskedOf(id, c) ==
    /\ c.task = id /\ c.version = tasks[id].version
    /\ <<c.business, c.region, c.target>> = <<tasks[id].business, tasks[id].region, tasks[id].target>>
    /\ Accepted(tasks[id].business, Of(tasks[id].constraints, "HARD")) \subseteq c.hard
CriteriaAskWhatTaskAsks ==
    [][\A id \in Ids : NewHead(id) /\ OwnScope /\ state.scope # "DISPLAY_ONLY" =>
         AskedOf(id, heads'[id].criteria) /\ heads'[id].version = tasks[id].version]_vars

\* A change that is displayed, ranked, filtered or enriched again keeps the
\* search of the head it replaces (README.md:130: the scope says what is
\* run again; reexecution.py:232).
PartialKeepsUniverse ==
    [][\A id \in Ids : NewHead(id) /\ state.planned
          /\ state.scope \notin {"DISCOVERY_REQUIRED", "FULL_REPLAN"} =>
         \E old \in {Or(heads[id], NoSnapshot)} :
            <<heads'[id].plan, heads'[id].raw, heads'[id].researched>> = <<old.plan, old.raw, old.researched>>]_vars

\* A head chains its artifacts: its leads were scored by its criteria
\* (README.md:145; reexecution.py:246).
Chained(head) == head.leads # None => head.leads.criteria = head.criteria

\* A turn that found something promotes a chained head, unless it displays
\* one that was not.
LineageKept ==
    [][\A id \in Ids : NewHead(id) /\ OwnScope /\ Members(heads'[id].researched) # {}
          /\ (state.scope = "DISPLAY_ONLY" => heads[id] # None /\ Chained(heads[id]))
             => Chained(heads'[id])]_vars

\* Who is told that the task is done has a head for the version of the task,
\* also when it changed or a node ran twice on the way (response.py:12).
AnswersOwnVersion ==
    [][state.response = None /\ state'.response = "COMPLETED" /\ OwnScope /\ state.scope # "NONE" =>
         heads[Active] # None /\ heads[Active].version = Current.version]_vars

\* A turn answers, asks the user or fails; it does not go round (graph.py:122).
TurnEnds == turn.node \notin Waiting \cup {"IDLE"} /\ turn.error = None
            ~> turn.node \in Waiting \cup {"IDLE"} \/ turn.error # None

\* README.md:145, of every head: the code breaks it.
LineageChained == \A id \in Ids : heads[id] # None => Chained(heads[id])

\* A turn's requirements come from what the user said in it: broken by the
\* clarification that stays in the thread (requirement/nodes.py:24).
RequirementsAreOwn ==
    [][turn.node = "REQUIREMENT" /\ turn'.node # "REQUIREMENT" =>
         state'.patch = Merged(turn.message.patch)]_vars

\* A clarification adds to what was said: broken by nodes.py:93.
ClarificationAdds ==
    [][turn.node = "CLARIFY" /\ state'.patch # state.patch =>
         state.patch.constraints \subseteq state'.patch.constraints]_vars

\* A head's sets are of its own task: broken by a scope, a lead set or a
\* verification run that an earlier turn left (reexecution.py:213).
HeadOfTask ==
    \A id \in Ids : heads[id] # None =>
        /\ heads[id].criteria # None => heads[id].criteria.task = id
        /\ heads[id].leads # None => heads[id].leads.task = id

\* Without that exception it does not hold: the requirement graph stores what the
\* language model read, and planning leaves out the rules it cannot normalize or
\* validate (requirement/nodes.py:135, business_planning/nodes.py:122).
EveryConstraintAsked ==
    [][\A id \in Ids : NewHead(id) /\ OwnScope /\ state.scope # "DISPLAY_ONLY" =>
         Of(tasks[id].constraints, "HARD") \subseteq heads'[id].criteria.hard]_vars

\* No constraint that the task has not: broken by one removed through the API,
\* which the next change carries over from the old criteria (nodes.py:206).
CriteriaForget ==
    [][\A id \in Ids : NewHead(id) /\ OwnScope /\ state.scope # "DISPLAY_ONLY" =>
         heads'[id].criteria.hard \subseteq
             Of(tasks[id].constraints, "HARD") \cup Official[tasks[id].business]
             \cup {[field |-> "region", value |-> tasks[id].region]}]_vars
=============================================================================
