---------------------------- MODULE Verification ----------------------------
(* The verification subgraph over the turns of a conversation (agent/      *)
(* subgraphs/verification), the services its nodes call and the rows they  *)
(* leave: which enterprises the candidates of a set are, what the source   *)
(* records of the candidates say of them, whether it agrees, the bounded   *)
(* search for what is missing, and the leads made of it.  Every node is a  *)
(* step, its checkpoint the variable state; targeted_verification awaits,  *)
(* and has a step for each enterprise.  The process may die in any node.   *)
(* A source record is cut into one answer per field, a field's value and   *)
(* confidence are what Says gives its answer.                              *)
EXTENDS EntityResolution, Integers, FiniteSetsExt, Functions

CONSTANTS
    Answer,           \* what a provider may say of a field of a candidate
    Says,             \* its field, value and confidence, and the field it is asked for
    Found,            \* the answers research has for a candidate
    Extra,            \* those targeted calls may add
    Required,         \* the fields of criteria, scoring profile and legal_name
    HardRequired,     \* those without which an enterprise is not a lead
    MinSources,       \* of each field: how many agreeing records verify it
    MinConfidence,
    Sets,             \* the candidate sets research may leave
    MaxRounds, MaxCalls, MaxCallsPerEntity,  \* the budget of targeted verification
    TopN,
    MaxTurns, MaxVersion, MaxFaults          \* bounds

ASSUME VerificationAssumption ==
    /\ Sets \subseteq (SUBSET Candidate) \ {{}}
    /\ IsFiniteSet(Candidate) /\ IsFiniteSet(Required) /\ \A c \in Candidate : IsFiniteSet(Extra[c])
    /\ Found \in [Candidate -> Seq(Answer)] /\ Extra \in [Candidate -> SUBSET Answer]
    /\ \A f \in Required : MinSources[f] \in Nat
    /\ MaxRounds \in 0..3 /\ {MaxCalls, MaxCallsPerEntity, TopN, MinConfidence} \subseteq Nat
    /\ {MaxTurns, MaxFaults} \subseteq Nat /\ MaxVersion \in Nat \ {0}

VARIABLES
    version,      \* the active version of the task
    state,        \* the checkpoint: keys of AgentState, next node and turn
    work,         \* of targeted_verification: enterprises left, calls used
    resolved,     \* how many resolution runs there are
    links,        \* which enterprise a candidate belongs to, and since which run
    linkRows,     \* the table of those
    relations,    \* between enterprises of a resolution run
    runs,         \* the verification runs: the resolution run each is of
    sources,      \* the answers in the source records of each candidate
    evidence,     \* field, value, record, and when it was saved
    profiles,     \* of each enterprise, the fields of its latest profile
    faults

vars == <<version, state, work, resolved, links, linkRows, relations, runs, sources,
          evidence, profiles, faults>>

Enterprise == [run : 1..resolved, of : SUBSET Candidate]
Nodes == {"resolve_entities", "collect_evidence", "resolve_fields", "targeted_verification",
          "build_verified_profiles", "score_leads", "end"}
Idle == [left |-> {}, calls |-> 0]

Init ==
    /\ version = 1 /\ resolved = 0
    /\ state = [node |-> "end", turn |-> 0, criteria |-> 1, set |-> {}, resolution |-> 0,
                ids |-> {}, run |-> 0, round |-> 0, unresolved |-> {}, profiles |-> {}, leads |-> {}]
    /\ work = Idle
    /\ links = <<>> /\ linkRows = {} /\ relations = {} /\ runs = <<>>
    /\ sources = Found /\ evidence = {} /\ profiles = <<>>
    /\ faults = 0

Goto(node) == [state EXCEPT !.node = node]
\* What is new replaces what there is for the same key.
Updated(old, new) ==
    [k \in DOMAIN new \cup DOMAIN old |-> IF k \in DOMAIN new THEN new[k] ELSE old[k]]

\* A turn with a new candidate set.  Its research sets the candidate set and the
\* criteria; every other key of the state keeps the value of the turn before.
NewTurn ==
    /\ state.node = "end" /\ state.turn < MaxTurns
    /\ \E set \in Sets :
          state' = [Goto("resolve_entities") EXCEPT !.turn = @ + 1, !.set = set, !.criteria = version]
    /\ UNCHANGED <<version, work, resolved, links, linkRows, relations, runs, sources, evidence,
                   profiles, faults>>

-----------------------------------------------------------------------------

\* The rows of the clusters of a new resolution run.
Links(clusters, n) ==
    [c \in UNION clusters |-> [enterprise |-> [run |-> n, of |-> CHOOSE k \in clusters : c \in k],
                               run |-> n]]
Rows(new) == {[candidate |-> c, link |-> new[c]] : c \in DOMAIN new}

Relations(new) ==
    {[from |-> new[p[1]].enterprise, to |-> new[p[2]].enterprise, relation |-> Decision[p]] :
        p \in {q \in Pairs(DOMAIN new) : /\ Decision[q] # "SAME_ENTITY"
                                         /\ new[q[1]].enterprise # new[q[2]].enterprise}}

\* list_for_task: every enterprise that a candidate of the task belongs to.
ListForTask(l) == {l[c].enterprise : c \in DOMAIN l}

ResolveEntities ==
    /\ state.node = "resolve_entities"
    /\ resolved' = resolved + 1
    /\ \E new \in {Links(Clusters[state.set], resolved + 1)} :
          /\ links' = Updated(links, new)
          /\ linkRows' = linkRows \cup Rows(new)
          /\ relations' = relations \cup Relations(new)
    /\ state' = [Goto("collect_evidence") EXCEPT !.resolution = resolved + 1, !.ids = ListForTask(links')]
    /\ UNCHANGED <<version, work, runs, sources, evidence, profiles, faults>>

-----------------------------------------------------------------------------

\* What is saved at a time gets a number of its own.
Now(all) == Max({v.at : v \in all} \cup {0}) + 1
At(values, now) == {[v EXCEPT !.at = now] : v \in values}

\* Mutant: a value that was saved before is saved again.
SaveEvidence_Again(all, new) == all \cup UNION {At(new, now) : now \in {Now(all)}}

\* Evidence of the same field, record and value replaces the one saved before.
SaveEvidence(all, new) == all \cup UNION {At(new \ At(all, 0), now) : now \in {Now(all)}}

Evidence(enterprise, c, i, answer) ==
    [enterprise |-> enterprise, field |-> Says[answer].field, value |-> Says[answer].value,
     source |-> <<c, i>>, at |-> 0]

\* Mutant: one candidate stands for its enterprise.
LinkedCandidates_Primary(n) ==
    {c \in DOMAIN links : links[c].run = n /\ c = CHOOSE d \in links[c].enterprise.of : TRUE}

\* The candidates that a resolution run linked last.
LinkedCandidates(n) == {c \in DOMAIN links : links[c].run = n}

Extracted(candidates) ==
    UNION {{Evidence(links[c].enterprise, c, i, sources[c][i]) : i \in DOMAIN sources[c]} :
           c \in candidates}

\* The number of offices is evidence too, from the record of the first office.
Offices(all, e) == {v \in all : v.enterprise = e /\ v.field = "office_location"}
CountOf(offices) == Cardinality({v.value : v \in offices})
OfficeCounts(all, candidates) ==
    LET first(e) == CHOOSE v \in Offices(all, e) : \A w \in Offices(all, e) : v.at <= w.at
    IN  {[enterprise |-> e, field |-> "office_count", value |-> CountOf(Offices(all, e)),
          source |-> first(e).source, at |-> 0] :
            e \in {d \in {links[c].enterprise : c \in candidates} : Offices(all, d) # {}}}

Collected(candidates) ==
    UNION {SaveEvidence(all, OfficeCounts(all, candidates)) :
           all \in {SaveEvidence(evidence, Extracted(candidates))}}

\* The run in the state is taken again, if there is one.
CollectEvidence ==
    LET all == IF state.run = 0 THEN Append(runs, state.resolution) ELSE runs
        run == IF state.run = 0 THEN Len(all) ELSE state.run
    IN
    /\ state.node = "collect_evidence"
    /\ runs' = all
    /\ \E linked \in {LinkedCandidates(all[run])} : evidence' = Collected(linked)
    /\ state' = [Goto("resolve_fields") EXCEPT !.run = run]
    /\ UNCHANGED <<version, work, resolved, links, linkRows, relations, sources, profiles, faults>>

-----------------------------------------------------------------------------

Of(e, f) == {v \in evidence : v.enterprise = e /\ v.field = f}
Group(all, value) == {v \in all : v.value = value}
Values(all) == {v.value : v \in all}

\* Agreement makes each of the records more credible, twice at the most.
Confidence(group) ==
    LET base(v) == IF v.field = "office_count" THEN 75
                   ELSE Says[sources[v.source[1]][v.source[2]]].confidence
        size == Cardinality(group)
    IN  MapThenSumSet(base, group) \div size + 6 * (Min({size, 3}) - 1)

\* The best group of agreeing evidence; of equal ones, that which was saved first.
Primary(all) ==
    LET group(x) == Group(all, x)
        ranks == {[value |-> x, by |-> <<Confidence(group(x)), Cardinality(group(x)),
                                         -Min({v.at : v \in group(x)})>>] : x \in Values(all)}
        better(g, h) == \E k \in 1..3 : g[k] > h[k] /\ \A l \in 1..(k - 1) : g[l] = h[l]
    IN  (CHOOSE r \in ranks : \A s \in ranks \ {r} : ~better(s.by, r.by)).value

Status(all, f) ==
    IF all = {} THEN "MISSING"
    ELSE IF Cardinality(Values(all)) > 1 THEN "CONFLICTING"
    ELSE IF Confidence(all) < MinConfidence THEN "UNVERIFIED"
    ELSE IF Cardinality(all) >= MinSources[f] THEN "VERIFIED" ELSE "PARTIAL"

\* A field and all that was said of it.
Field(e, f) ==
    LET all == Of(e, f) IN
    [status |-> Status(all, f), values |-> Values(all),
     primary |-> IF all = {} THEN None ELSE Primary(all)]
Fields(e) == [f \in Required |-> Field(e, f)]

Lacking(e) == {f \in Required : Status(Of(e, f), f) \in {"MISSING", "UNVERIFIED"}}

MoreEvidence(unresolved) == unresolved # {} /\ state.round < MaxRounds

\* Resolving and the choice between another round and the profiles.
ResolveFields ==
    /\ state.node = "resolve_fields"
    /\ \E unresolved \in {{e \in state.ids : Lacking(e) # {}}} :
          IF MoreEvidence(unresolved)
          THEN /\ state' = [Goto("targeted_verification") EXCEPT !.unresolved = unresolved]
               /\ work' = [left |-> unresolved, calls |-> 0]
          ELSE /\ state' = [Goto("build_verified_profiles") EXCEPT !.unresolved = unresolved]
               /\ work' = Idle
    /\ UNCHANGED <<version, resolved, links, linkRows, relations, runs, sources, evidence, profiles, faults>>

\* Mutant: a round is not counted.
NextRound_Uncounted == [Goto("collect_evidence") EXCEPT !.unresolved = {}]

NextRound == [Goto("collect_evidence") EXCEPT !.round = @ + 1, !.unresolved = {}]

\* The task has moved on: the round ends where it is.
Superseded ==
    /\ state.node = "targeted_verification" /\ work.left # {} /\ version # state.criteria
    /\ state' = NextRound /\ work' = Idle
    /\ UNCHANGED <<version, resolved, links, linkRows, relations, runs, sources, evidence, profiles, faults>>

\* What the enterprise lacks is asked for within the budget, of the providers that
\* may know it; what they answer is a new record of a candidate of the enterprise.
Enrich(e) ==
    /\ state.node = "targeted_verification" /\ e \in work.left /\ version = state.criteria
    /\ \E lacking \in {Lacking(e)}, linked \in {{c \in DOMAIN links : links[c].enterprise = e}} :
          LET calls == work.calls + Min({Cardinality(lacking), MaxCallsPerEntity})
              affordable == lacking # {} /\ calls <= MaxCalls
              c == CHOOSE d \in linked : TRUE
          IN
          /\ work' = [left |-> work.left \ {e}, calls |-> IF affordable THEN calls ELSE work.calls]
          /\ IF affordable /\ linked # {}
             THEN \E got \in SUBSET {a \in Extra[c] : Says[a].asked \in lacking} :
                  \E list \in {SetToSeq(got)} :
                     /\ sources' = [sources EXCEPT ![c] = @ \o list]
                     /\ evidence' = SaveEvidence(evidence,
                           {Evidence(e, c, Len(sources[c]) + k, list[k]) : k \in DOMAIN list})
             ELSE UNCHANGED <<sources, evidence>>
    /\ UNCHANGED <<version, state, resolved, links, linkRows, relations, runs, profiles, faults>>

EndRound ==
    /\ state.node = "targeted_verification" /\ work.left = {}
    /\ state' = NextRound /\ work' = Idle
    /\ UNCHANGED <<version, resolved, links, linkRows, relations, runs, sources, evidence, profiles, faults>>

-----------------------------------------------------------------------------

BuildVerifiedProfiles ==
    /\ state.node = "build_verified_profiles"
    /\ profiles' = Updated(profiles, [e \in state.ids |-> Fields(e)])
    /\ state' = [Goto("score_leads") EXCEPT !.profiles = state.ids]
    /\ UNCHANGED <<version, work, resolved, links, linkRows, relations, runs, sources, evidence, faults>>

StatusOf(e) == {profiles[e][f].status : f \in Required}
Scorable(e) == \A f \in HardRequired : profiles[e][f].status \notin {"MISSING", "UNVERIFIED"}

\* Enterprises without a conflict come before those with one; the order of their
\* scores is left open.
ScoreLeads ==
    LET scorable == {e \in state.profiles : Scorable(e)}
        clear == {e \in scorable : "CONFLICTING" \notin StatusOf(e)}
    IN
    /\ state.node = "score_leads"
    /\ \E leads \in SUBSET scorable :
          /\ Cardinality(leads) = Min({TopN, Cardinality(scorable)})
          /\ leads \subseteq clear \/ clear \subseteq leads
          /\ state' = [Goto("end") EXCEPT !.leads = leads]
    /\ UNCHANGED <<version, work, resolved, links, linkRows, relations, runs, sources, evidence,
                   profiles, faults>>

-----------------------------------------------------------------------------

\* Another request makes a version.
Mutate ==
    /\ version < MaxVersion
    /\ version' = version + 1
    /\ UNCHANGED <<state, work, resolved, links, linkRows, relations, runs, sources, evidence,
                   profiles, faults>>

\* The process dies within a node, which a new one starts again.  It reads the tables:
\* of the links of a candidate the one that the database returns last.
Restarted(rows) ==
    /\ faults < MaxFaults /\ state.node # "end"
    /\ faults' = faults + 1
    /\ linkRows' = rows
    /\ \E chosen \in [{row.candidate : row \in rows} -> {row.link : row \in rows}] :
          /\ \A c \in DOMAIN chosen : [candidate |-> c, link |-> chosen[c]] \in rows
          /\ links' = chosen
    /\ work' = IF state.node = "targeted_verification"
               THEN [left |-> state.unresolved, calls |-> 0] ELSE Idle
    /\ UNCHANGED <<version, state, relations, profiles>>

Restart == Restarted(linkRows) /\ UNCHANGED <<resolved, runs, sources, evidence>>

\* Some clusters of the run were saved.
DieResolving ==
    /\ state.node = "resolve_entities"
    /\ resolved' = resolved + 1
    /\ \E saved \in SUBSET Clusters[state.set] :
          Restarted(linkRows \cup Rows(Links(saved, resolved + 1)))
    /\ UNCHANGED <<runs, sources, evidence>>

\* A run was saved, which the state does not have yet, and the evidence of some of the
\* candidates, or all of it.
DieCollecting ==
    LET all == IF state.run = 0 THEN Append(runs, state.resolution) ELSE runs
        linked == LinkedCandidates(all[IF state.run = 0 THEN Len(all) ELSE state.run])
    IN
    /\ state.node = "collect_evidence"
    /\ runs' = all
    /\ \E some \in SUBSET linked :
          evidence' \in {SaveEvidence(evidence, Extracted(some)), Collected(linked)}
    /\ Restarted(linkRows)
    /\ UNCHANGED <<resolved, sources>>

Step ==
    \/ ResolveEntities \/ CollectEvidence \/ ResolveFields \/ Superseded
    \/ (\E e \in work.left : Enrich(e)) \/ EndRound \/ BuildVerifiedProfiles \/ ScoreLeads

Next == NewTurn \/ Step \/ Mutate \/ Restart \/ DieResolving \/ DieCollecting

Spec == Init /\ [][Next]_vars
\* A turn that stopped half way is continued, so the graph keeps stepping.
FairSpec == Spec /\ WF_vars(Step)

-----------------------------------------------------------------------------

\* Types of the variables.
TypeOK ==
    /\ version \in 1..MaxVersion /\ state.node \in Nodes /\ state.turn \in 0..MaxTurns
    /\ state.run \in 0..Len(runs) /\ state.resolution \in 0..resolved /\ state.round \in 0..MaxRounds
    /\ state.ids \cup state.unresolved \cup state.leads \cup work.left \subseteq Enterprise
    /\ work.left \subseteq state.ids /\ work.calls \in 0..MaxCalls
    /\ \A c \in DOMAIN links : [candidate |-> c, link |-> links[c]] \in linkRows
    /\ \A r \in DOMAIN runs : runs[r] \in 1..resolved
    /\ \A c \in Candidate : IsPrefix(Found[c], sources[c])
    /\ \A v \in evidence : /\ v.enterprise \in Enterprise
                                  /\ v.source[2] \in DOMAIN sources[v.source[1]]
    /\ DOMAIN profiles \subseteq Enterprise /\ state.profiles \subseteq DOMAIN profiles
    /\ faults \in 0..MaxFaults

\* A field of a profile is VERIFIED only if enough records agree on it, each counted
\* once, however often its node was retried, its round repeated or its run taken again.
VerifiedNeedsAgreement ==
    \A e \in DOMAIN profiles, f \in Required : profiles[e][f].status = "VERIFIED" =>
        Cardinality({v.source : v \in Group(Of(e, f), profiles[e][f].primary)})
            >= MinSources[f]

\* When the verification run is of this turn's resolution, and the links are: whatever
\* the records of the set's candidates say reaches their enterprise's profile, and
\* where they contradict each other the profile says so.
OfThisTurn ==
    /\ runs[state.run] = state.resolution
    /\ \A c \in state.set : links[c].run = state.resolution
EvidenceReachesProfiles ==
    state.node = "score_leads" /\ OfThisTurn =>
        \A c \in state.set : \A i \in DOMAIN sources[c] :
            LET said == Says[sources[c][i]]
                field == profiles[links[c].enterprise][said.field]
            IN  said.field \in Required =>
                    /\ said.value \in field.values
                    /\ Cardinality(field.values) > 1 => field.status = "CONFLICTING"

\* The rounds of a verification end.
VerificationEnds == state.node # "end" ~> state.node = "end"

\* README.md:201: different credit codes are never one enterprise, and branches and
\* offices are kept as relations, not folded into the enterprise.
HardDecisionsKept ==
    \A c, d \in DOMAIN links : links[c].enterprise = links[d].enterprise =>
        /\ ~HardNegative(c, d)
        /\ <<c, d>> \in Pairs(Candidate) => Decision[c, d] \notin {"BRANCH_OF", "OFFICE_OF"}

\* README.md:203: the number of offices is that of deduplicated addresses.
OfficeCountIsCurrent ==
    state.node = "score_leads" => \A e \in state.profiles :
        Of(e, "office_count") # {} =>
            Primary(Of(e, "office_count")) = CountOf(Offices(evidence, e))

\* README.md:188: evidence comes from the researched candidate set; so do the leads.
LeadsFromResearchedSet ==
    state.node = "end" => \A e \in state.leads : e.of \cap state.set # {}

\* The same in every turn: a run that is taken again collects for its own resolution.
EvidenceReachesEveryProfile ==
    state.node = "score_leads" => \A c \in state.set : \A i \in DOMAIN sources[c] :
        Says[sources[c][i]].field \in Required =>
            Says[sources[c][i]].value \in profiles[links[c].enterprise][Says[sources[c][i]].field].values
=============================================================================
