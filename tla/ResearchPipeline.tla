-------------------------- MODULE ResearchPipeline --------------------------
(* One research run: the research subgraph of the agent (agent/subgraphs/  *)
(* research), the service its nodes call and the rows it leaves behind.    *)
(* A node that fans out (Send) has a task per batch; a task that is done   *)
(* is in the checkpoint and is not repeated, one that was running when its *)
(* process died, or when another task raised, starts anew.  A candidate is *)
(* named by the query, round and attempt that found it and by the row of   *)
(* the provider's answer it was made of; what the row says is abstracted   *)
(* to the identities two rows may share and to how its candidate ranks.    *)
EXTENDS Naturals, FiniteSets, SequencesExt

CONSTANTS
    Queries,          \* the discovery queries of the plan, in their order
    Row,              \* what providers answer with
    Keys,             \* of a row: the id at its provider, the name with address, the url
    NoKey,
    Score,            \* the preference score of a row's candidate
    Answers,          \* the answers to a query in a round
    TargetCount, CandidateTarget, MaxCandidates, BatchSize, MaxExpansions,
    MaxVersion,       \* the task is mutated fewer times than this
    MaxFaults         \* bound on crashes and raised errors

ASSUME ResearchAssumption ==
    /\ Queries \in Seq(STRING)
    /\ Keys \in [Row -> [1..3 -> Seq(STRING) \cup {NoKey}]]
    /\ Score \in [Row -> Nat]
    /\ Answers \in [ToSet(Queries) -> [0..MaxExpansions -> SUBSET Seq(Row)]]
    /\ TargetCount \in Nat \ {0} /\ MaxCandidates \in Nat /\ CandidateTarget \in 1..MaxCandidates
    /\ BatchSize \in Nat \ {0} /\ MaxExpansions \in Nat
    /\ MaxVersion \in Nat \ {0} /\ MaxFaults \in Nat

VARIABLES
    version,      \* the active version of the task
    planned,      \* the version of the criteria of the run, 0 before the plan
    graph,        \* the checkpoint: next node, round, batch results and sets
    tasks,        \* the tasks of the node that fans out
    candidates,   \* the saved candidates: status, and rows their sources hold
    calls,        \* tool runs of each query: of this process, and the stored one
    blocked,      \* whether the budget refused a call of a later stage
    status,       \* the status of the run
    faults

vars == <<version, planned, graph, tasks, candidates, calls, blocked, status, faults>>

Rounds == 0..MaxExpansions
Query == ToSet(Queries)
Candidate == [query : Query, round : Rounds, try : 0..MaxFaults, row : Row]
ToolStatus == {"SUCCESS", "EMPTY", "FAILED", "BUDGET_BLOCKED"}
CandidateStatus == {"DISCOVERED", "ENRICHED", "FILTERED_OUT", "SELECTED_FOR_RESEARCH",
                    "RESEARCHED", "PARTIAL"}
Nodes == {"build_search_plan", "run_discovery_batch", "run_cheap_enrichment_batch",
          "apply_hard_filters", "select_deep_research", "run_deep_research_batch", "end"}

NoCalls == [q \in Query |-> [r \in Rounds |->
                [seen |-> {}, stored |-> "NONE", answer |-> <<>>]]]

Init ==
    /\ version = 1 /\ planned = 0
    /\ graph = [node |-> "build_search_plan", round |-> 0, refs |-> <<>>, raw |-> <<>>,
                cheap |-> <<>>, filtered |-> <<>>, researched |-> <<>>]
    /\ tasks = <<>> /\ candidates = <<>> /\ calls = NoCalls /\ blocked = FALSE
    /\ status = "CREATED" /\ faults = 0

-----------------------------------------------------------------------------

FirstOf(list, n) == SubSeq(list, 1, IF Len(list) < n THEN Len(list) ELSE n)

\* What a list has at some of its positions, in its order.
InOrder(S) == [k \in 1..Cardinality(S) |-> CHOOSE n \in S : Cardinality({m \in S : m < n}) = k - 1]
Kept(list, S) == LET order == InOrder(S) IN [k \in 1..Cardinality(S) |-> list[order[k]]]

\* The slices of a list that the batches of a stage get; one empty batch of none.
Batches(list) ==
    IF list = <<>> THEN <<<<>>>>
    ELSE [b \in 1..((Len(list) + BatchSize - 1) \div BatchSize) |->
             FirstOf(SubSeq(list, (b - 1) * BatchSize + 1, Len(list)), BatchSize)]

\* A task for each batch of a Send.
Sent(batches) ==
    [i \in DOMAIN batches |-> [input |-> batches[i], left |-> batches[i], at |-> "ready", ref |-> <<>>]]
QueryBatches == [i \in DOMAIN Queries |-> <<[query |-> Queries[i]]>>]

\* A plan for the criteria of the turn, made of the task's version when they were
\* compiled, or now when there are none.  The first node after it sends the queries.
BuildSearchPlan ==
    /\ graph.node = "build_search_plan"
    /\ \E v \in {1, version} : planned' = v
    /\ status' = "RUNNING"
    /\ graph' = [graph EXCEPT !.node = "run_discovery_batch"]
    /\ tasks' = Sent(QueryBatches)
    /\ UNCHANGED <<version, candidates, calls, blocked, faults>>

ExecutionIsCurrent == planned = version

\* A batch whose version is no longer the task's is saved empty, without a call.
StartBatch(i) ==
    /\ tasks[i].at = "ready"
    /\ tasks' = [tasks EXCEPT ![i] =
          IF ExecutionIsCurrent /\ tasks[i].input # <<>>
          THEN [@ EXCEPT !.at = "running"]
          ELSE [@ EXCEPT !.at = "done", !.left = <<>>]]
    /\ UNCHANGED <<version, planned, graph, candidates, calls, blocked, status, faults>>

Running(i, node) == graph.node = node /\ tasks[i].at = "running"

\* Mutant: a node waits until every batch has results.
AllDone_WithResults == \A i \in DOMAIN tasks : tasks[i].at = "done" /\ tasks[i].ref # <<>>

AllDone == \A i \in DOMAIN tasks : tasks[i].at = "done"

\* How a tool run is recorded: a request that was answered is not asked again, and
\* the table keeps the first row of a request.
Recorded(call, s, answer) ==
    [seen |-> call.seen \cup {s}, stored |-> IF call.stored = "NONE" THEN s ELSE call.stored,
     answer |-> IF s = "SUCCESS" THEN answer ELSE call.answer]

\* The query of a batch is answered, or not; its rows are saved as candidates.
RunDiscoveryBatch(i) ==
    LET q == tasks[i].input[1].query
        call == calls[q][graph.round]
        found(answer) == [k \in DOMAIN answer |->
            [query |-> q, round |-> graph.round, try |-> faults, row |-> answer[k]]]
    IN
    /\ Running(i, "run_discovery_batch")
    /\ \E s \in ToolStatus, answer \in Answers[q][graph.round] \cup {<<>>} :
          /\ s = "SUCCESS" <=> answer # <<>>
          /\ "SUCCESS" \in call.seen => answer = call.answer
          /\ calls' = [calls EXCEPT ![q][graph.round] = Recorded(call, s, answer)]
          /\ candidates' = [c \in DOMAIN candidates \cup ToSet(found(answer)) |->
                IF c \in ToSet(found(answer)) THEN [status |-> "DISCOVERED", sources |-> {c.row}]
                ELSE candidates[c]]
          /\ tasks' = [tasks EXCEPT ![i] = [@ EXCEPT !.left = <<>>, !.at = "done", !.ref = found(answer)]]
    /\ UNCHANGED <<version, planned, graph, blocked, status, faults>>

-----------------------------------------------------------------------------

\* Mutant: only the id at the provider is compared.
Common_ProviderId(c, d) == {k \in {1} : Keys[c.row][k] = Keys[d.row][k] /\ Keys[c.row][k] # NoKey}

\* The identities, by their position, that the candidates of two rows have in common.
Common(c, d) == {k \in DOMAIN Keys[c.row] : Keys[c.row][k] = Keys[d.row][k] /\ Keys[c.row][k] # NoKey}

\* Of the candidates found, in the order of the batches, those are selected that have
\* nothing in common with a selected one before them.
Selected(list) ==
    CHOOSE S \in SUBSET DOMAIN list :
        \A i \in DOMAIN list :
            i \in S <=> ~\E j \in S : j < i /\ Common(list[i], list[j]) # {}

\* The others are merged into the selected one that has the first of their identities
\* a selected one has: their sources are copied to it.
StandIn(list, i, S) ==
    CHOOSE j \in {l \in S : l < i /\ Common(list[i], list[l]) # {}} :
        \A l \in S : l < i => \A k \in Common(list[i], list[l]) :
            \E first \in Common(list[i], list[j]) : first <= k
WithMergedSources(list, S) ==
    [c \in DOMAIN candidates |->
        [candidates[c] EXCEPT !.sources = @ \cup UNION {candidates[list[i]].sources :
            i \in {n \in DOMAIN list \ S : list[StandIn(list, n, S)] = c}}]]

Results == FlattenSeq([i \in DOMAIN tasks |-> tasks[i].ref])

\* Mutant: the batch results of this round only.
Refs_ThisRound == Results

\* The batch results of this round and of those before it.
Refs == graph.refs \o Results

More(raw) == Len(raw) < CandidateTarget /\ graph.round < MaxExpansions

DiscoveryStatuses == UNION {calls[q][r].seen : q \in Query, r \in Rounds}

MergeDiscovery ==
    /\ graph.node = "run_discovery_batch" /\ AllDone
    /\ ~(Refs = <<>> /\ DiscoveryStatuses = {"FAILED"})
    /\ \E list \in {Refs} : \E S \in {Selected(list)} :
       \E raw \in {FirstOf(Kept(list, S), MaxCandidates)} :
          LET more == More(raw) IN
          /\ candidates' = WithMergedSources(list, S)
          /\ graph' = [graph EXCEPT !.refs = list, !.raw = raw, !.round = IF more THEN @ + 1 ELSE @,
                                    !.node = IF more THEN @ ELSE "run_cheap_enrichment_batch"]
          /\ tasks' = Sent(IF more THEN QueryBatches ELSE Batches(raw))
    /\ UNCHANGED <<version, planned, calls, blocked, status, faults>>

\* ALL_DISCOVERY_PROVIDERS_UNAVAILABLE is raised before the node is checkpointed: it
\* is the pending node of the thread, and raises again whenever it is continued.
DiscoveryUnavailable ==
    /\ graph.node = "run_discovery_batch" /\ AllDone
    /\ Refs = <<>> /\ DiscoveryStatuses = {"FAILED"}
    /\ status' = "FAILED"
    /\ UNCHANGED <<version, planned, graph, tasks, candidates, calls, blocked, faults>>

\* The next candidate of a batch, whatever its calls return; the budget may refuse
\* one of them, also a page of a candidate whose home page was fetched.
NextCandidate(i, node, statuses) ==
    LET c == tasks[i].left[1] IN
    /\ Running(i, node)
    /\ \E s \in statuses \cup {candidates[c].status}, refused \in BOOLEAN :
          /\ s \notin statuses => node = "run_cheap_enrichment_batch"
          /\ candidates' = [candidates EXCEPT ![c].status = s]
          /\ blocked' = (blocked \/ refused)
    /\ tasks' = [tasks EXCEPT ![i] =
          IF Len(@.left) > 1 THEN [@ EXCEPT !.left = Tail(tasks[i].left)]
          ELSE [@ EXCEPT !.left = <<>>, !.at = "done", !.ref = tasks[i].input]]
    /\ UNCHANGED <<version, planned, graph, calls, status, faults>>

EnrichBatch(i) == NextCandidate(i, "run_cheap_enrichment_batch", {"ENRICHED"})
DeepResearchBatch(i) == NextCandidate(i, "run_deep_research_batch", {"RESEARCHED", "PARTIAL"})

\* Whatever the enrichment batches did, the set has the raw set's candidates.
PersistCheapEnrichedSet ==
    /\ graph.node = "run_cheap_enrichment_batch" /\ AllDone
    /\ graph' = [graph EXCEPT !.cheap = graph.raw, !.node = "apply_hard_filters"]
    /\ tasks' = <<>>
    /\ UNCHANGED <<version, planned, candidates, calls, blocked, status, faults>>

\* Candidates that contradict a constraint go; those of whom it is not known stay.
ApplyHardFilters ==
    /\ graph.node = "apply_hard_filters"
    /\ \E out \in SUBSET ToSet(graph.cheap) :
          /\ graph' = [graph EXCEPT !.node = "select_deep_research",
                !.filtered = Kept(graph.cheap, {k \in DOMAIN graph.cheap : graph.cheap[k] \notin out})]
          /\ candidates' = [c \in DOMAIN candidates |->
                IF c \in out THEN [candidates[c] EXCEPT !.status = "FILTERED_OUT"] ELSE candidates[c]]
    /\ UNCHANGED <<version, planned, tasks, calls, blocked, status, faults>>

\* A stable sort by preference, best first.
Ahead(list, n) == {m \in DOMAIN list :
    \/ Score[list[m].row] > Score[list[n].row]
    \/ Score[list[m].row] = Score[list[n].row] /\ m < n}
Ranked(list) ==
    [k \in DOMAIN list |-> list[CHOOSE n \in DOMAIN list : Cardinality(Ahead(list, n)) = k - 1]]

SelectDeepResearch ==
    LET selected == FirstOf(Ranked(graph.filtered),
                            IF CandidateTarget < TargetCount THEN TargetCount ELSE CandidateTarget)
    IN
    /\ graph.node = "select_deep_research"
    /\ graph' = [graph EXCEPT !.node = "run_deep_research_batch"]
    /\ tasks' = Sent(Batches(selected))
    /\ candidates' = [c \in DOMAIN candidates |->
          IF c \in ToSet(selected) THEN [candidates[c] EXCEPT !.status = "SELECTED_FOR_RESEARCH"]
          ELSE candidates[c]]
    /\ UNCHANGED <<version, planned, calls, blocked, status, faults>>

Exhausted == blocked \/ "BUDGET_BLOCKED" \in DiscoveryStatuses

\* The first of the candidates that were gone through make up the researched set.
PersistResearchedSet ==
    LET set == FirstOf(Results, TargetCount) IN
    /\ graph.node = "run_deep_research_batch" /\ AllDone
    /\ graph' = [graph EXCEPT !.researched = set, !.node = "end"]
    /\ status' = IF Len(set) >= TargetCount /\ ~Exhausted THEN "COMPLETED" ELSE "PARTIAL"
    /\ tasks' = <<>>
    /\ UNCHANGED <<version, planned, candidates, calls, blocked, faults>>

-----------------------------------------------------------------------------

\* A mutation by another request makes a version.
Mutate ==
    /\ version < MaxVersion
    /\ version' = version + 1
    /\ UNCHANGED <<planned, graph, tasks, candidates, calls, blocked, status, faults>>

\* A call raises: the node's other tasks are cancelled with it, and the continued
\* turn starts again those that were not done.

\* Mutant: a batch that was running counts as done.
Undone_Dropped(t) == IF t.at = "running" THEN [t EXCEPT !.at = "done"] ELSE t

Undone(t) == IF t.at = "running" THEN [t EXCEPT !.at = "ready", !.left = t.input] ELSE t
Raise ==
    /\ faults < MaxFaults /\ \E i \in DOMAIN tasks : tasks[i].at = "running"
    /\ faults' = faults + 1
    /\ tasks' = [i \in DOMAIN tasks |-> Undone(tasks[i])]
    /\ UNCHANGED <<version, planned, graph, candidates, calls, blocked, status>>

\* The process dies.  A new one reads the tables; that the run failed is not there.
Restart ==
    /\ faults < MaxFaults /\ graph.node # "end"
    /\ faults' = faults + 1
    /\ tasks' = [i \in DOMAIN tasks |-> Undone(tasks[i])]
    /\ calls' = [q \in Query |-> [r \in Rounds |->
          LET call == calls[q][r] IN
          [call EXCEPT !.seen = {call.stored} \ {"NONE"},
                       !.answer = IF call.stored = "SUCCESS" THEN @ ELSE <<>>]]]
    /\ status' = IF status = "FAILED" THEN "RUNNING" ELSE status
    /\ UNCHANGED <<version, planned, graph, candidates, blocked>>

Batch(i) == StartBatch(i) \/ RunDiscoveryBatch(i) \/ EnrichBatch(i) \/ DeepResearchBatch(i)
Step ==
    \/ BuildSearchPlan \/ MergeDiscovery \/ DiscoveryUnavailable \/ PersistCheapEnrichedSet
    \/ ApplyHardFilters \/ SelectDeepResearch \/ PersistResearchedSet
    \/ \E i \in DOMAIN tasks : Batch(i)

Next == Step \/ Mutate \/ Raise \/ Restart

\* A turn that stopped half way is continued, so the graph keeps stepping.
Spec == Init /\ [][Next]_vars
FairSpec == Spec /\ WF_vars(Step)

-----------------------------------------------------------------------------

\* Types of the variables.
TypeOK ==
    /\ version \in 1..MaxVersion /\ planned \in 0..version
    /\ graph.node \in Nodes /\ graph.round \in Rounds
    /\ \A list \in {graph.refs, graph.raw, graph.cheap, graph.filtered, graph.researched} :
          ToSet(list) \subseteq DOMAIN candidates
    /\ \A i \in DOMAIN tasks : tasks[i].at \in {"ready", "running", "done"}
    /\ DOMAIN candidates \subseteq Candidate
    /\ \A c \in DOMAIN candidates : /\ candidates[c].status \in CandidateStatus
                                    /\ c.row \in candidates[c].sources
    /\ \A q \in Query, r \in Rounds : /\ calls[q][r].seen \subseteq ToolStatus
                                      /\ calls[q][r].stored \in ToolStatus \cup {"NONE"}
    /\ blocked \in BOOLEAN /\ faults \in 0..MaxFaults
    /\ status \in {"CREATED", "RUNNING", "FAILED", "COMPLETED", "PARTIAL"}

\* A wider search only adds: the candidates of the rounds before it, and which of
\* two duplicates stands for both, do not change under later enrichment's feet.
ExpansionKeepsCandidates ==
    [][graph.raw # graph'.raw => IsPrefix(graph.raw, graph'.raw)]_vars

\* No two candidates of a raw set have an identity in common, and what was found of
\* a duplicate is among the sources of the candidate that stands for it.
Stands(d, c) == c.row \in candidates[d].sources
DuplicatesMerged ==
    /\ \A i, j \in DOMAIN graph.raw : i # j =>
          LET a == Keys[graph.raw[i].row]
              b == Keys[graph.raw[j].row]
          IN  \A k \in 1..3 : a[k] = b[k] => a[k] = NoKey
    /\ Len(graph.raw) < MaxCandidates =>
          \A c \in ToSet(graph.refs) : \E d \in ToSet(graph.raw) : Stands(d, c)

\* Failed calls, refused calls and retries cost no candidate its place: unless the
\* task has moved on, the researched set has the best of the filtered candidates.
PartialFailureKeepsResults ==
    graph.node = "end" /\ ExecutionIsCurrent =>
        graph.researched = FirstOf(Ranked(graph.filtered), TargetCount)

\* A research run ends, unless all of its discovery failed.
ResearchEnds == <>(graph.node = "end" \/ status = "FAILED")
=============================================================================
