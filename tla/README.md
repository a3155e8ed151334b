# TLA+ models of the Enterprise Sales Intelligence Agent

The service answers chat messages about sales leads. A message drives a
LangGraph agent that asks for missing requirements, researches companies with
outside providers, verifies and scores them, and promotes the result as the
current *execution snapshot* of a *task version*; later messages mutate the task
and re-execute what changed. What is hard about it is not the scoring but the
control around it: who may drive a conversation, what a crashed turn leaves
behind, which result becomes the head of a task, and what bounds the calls to
paid providers. That is what this project models, checks and proves about.

All paths below are relative to `src/`. `app/` means `src/app/`.

## 1. Inventory

### 1.1 Components

| component | code | state | operations | what makes it correct |
|---|---|---|---|---|
| execution leases | `app/runtime/leases.py` | table `execution_runs` (or dictionaries in a process without Postgres): request, thread, status, fence, expiry, response | `claim`, `heartbeat`, `can_promote`, `finish` | one active run per thread; only the newest fence promotes; a stored response is final; no request stranded |
| chat endpoint, graph driver | `app/api/chat.py`, `app/agent/graph.py`, `app/runtime/graph_runtime.py` | the thread's checkpoint, the heartbeat task | claim, read state, resume / continue / new, finish | one driver per conversation; no unfinished turn is overwritten; a retried request is answered unless its turn's snapshot or version is there already |
| task versions and execution snapshots | `app/repositories/mock_task_repository.py`, `postgres_business.py`, `app/agent/nodes/reexecution.py`, `app/execution/` | `lead_tasks`, `lead_task_versions`, `execution_snapshots`, and a cache of each in every process | make a version, set the stage, promote | versions are immutable and increase; one current snapshot; only the active version is promoted (while no two copies of the task are written at once) |
| task mutation | `app/agent/subgraphs/mutation/`, `app/mutation/`, `app/api/mutations.py` | `task_mutations`, plans | preview, plan, apply, record; the same by `POST /api/tasks/{id}/mutations` | a message makes one version, whatever is retried; the smallest safe scope is re-executed |
| task references | `app/tasks/references.py`, `app/agent/nodes/task_reference.py` | none | which task a message means | never guesses between two tasks |
| requirement and planning subgraphs | `app/agent/subgraphs/requirement`, `business_planning` | slots, questions | ask, fill, persist the task | a question is asked until it is answered; one task per confirmed requirement |
| provider calls | `app/research/runtime.py`, `app/infrastructure/circuit_breaker.py` | budget used, semaphores, circuits, `tool_runs` | `execute`, `reserve`, `allow`, `success`, `failure` | the budget bounds the calls; a half-open circuit probes carefully; every call ends |
| rate limiting | `app/infrastructure/rate_limit.py` | token buckets in Redis or memory | `acquire` | in any stretch of time never more than capacity and refill; who waits as told is granted |
| research pipeline | `app/services/research_service.py`, `app/agent/subgraphs/research` | research runs, plans, batches, candidates | plan, discover, enrich, filter, select, deepen, finalize | partial failure keeps what succeeded; duplicates are merged and nothing is lost by merging; it ends |
| verification and evidence | `app/agent/subgraphs/verification`, `app/evidence/` | verification runs and rounds, source records, evidence, profiles | resolve entities, collect, resolve fields, search again, build profiles | a field is VERIFIED by distinct records only; what the records say reaches the profile; a conflict is not silently decided; the rounds end |
| entity resolution | `app/entities/` | canonical enterprises, match decisions | block, score, cluster | clusters are a partition and do not depend on order |
| rules, criteria, scoring | `app/rules/`, `app/criteria/`, `app/scoring/` | rule versions | compile, evaluate, score | deterministic, bounded scores, hard criteria exclude |
| delivery snapshots | `app/delivery/queries.py` | bundles of rows, in a cache and a table | freeze, page, detail | one set of figures for an execution |
| exports | `app/exports/` | `exports`, files | create, download | one artifact per request, a failed one can be retried, what is COMPLETED has its file |
| knowledge | `app/knowledge/` | documents, chunks, files | upload, reindex, disable, retrieve | what is READY can be found and stays so; vectors are compared within one model |
| events, cache | `app/infrastructure/events.py`, `cache.py` | task events, cached answers | publish, replay | a client that reconnects misses nothing |
| lifespan, settings | `app/runtime/lifespan.py`, `app/settings/` | wiring | start, stop | caches are filled from the database |
| providers, models | `app/providers/` | none | adapters | I/O |
| security, health, observability | `app/security`, `app/health`, `app/observability` | none | guards, probes | no state |
| persistence schema | `app/persistence`, `migrations/` | tables and unique keys | | the keys appear as guards |
| front end | `frontend/` | a client of the API | | |
| write-through repositories | `app/repositories/postgres_business.py` | a dictionary and a table per kind of row | save, read, load | a start reads back what the process read before |

### 1.2 How they interact

```
client --POST /api/chat--> chat handler --claim/heartbeat/finish--> execution leases
                              |  drives
                              v
                        LangGraph thread (checkpoint after every node)
                         | mutate        | research               | promote
                         v               v                        v
                 task repositories   provider calls     execution snapshots
                 (cache, then DB)    (budget, circuit)  (fence check, then two
                         ^                               transactions)
client --POST /api/tasks/{id}/mutations--'
```

The pieces share three things: the database; the checkpoint of the conversation,
which LangGraph writes after every node without knowing of fences; and, inside a
process, the repositories' caches and the circuits of the providers. The image
starts one worker process (`Dockerfile:20`, `--workers 1`), while `README.md:21`
speaks of several workers; both are modelled, and each run says which it takes.

### 1.3 Hard behaviours

Listed one by one, at their lines, in `PROJECT.json` under `hazards`. In short:

* a handler loses its lease and does not know (stalls, clock skew, the heartbeat
  stopped before the response is stored);
* a check and the write it guards are separate (the fence is read and awaited
  before the promotion), and so are reading the task, putting it back and committing it;
* an effect and its record are separate (a version before its mutation record, a
  promotion before its checkpoint, the demotion of one head before the insertion
  of the next, the chunks of a document before its row), with a crash or a retry
  between them;
* a cache is written before the database, never refreshed from it, and rebuilt
  from rows by other keys and orders than it had;
* the conversation's state outlives the turn that wrote it: a scope, a lead set, a
  verification run or a clarification of an earlier turn is read by a later one;
* retries meet unique keys (snapshots of a version, bundles, exports, tool runs),
  and a node that raises is the node every later message continues;
* a node that is retried extracts, merges or applies again what it had done;
* budgets, semaphores, circuits and buckets are shared by calls that retry, fail,
  arrive late, are refused and are cancelled at any await.

## 2. Modules

| module | models | kind |
|---|---|---|
| `ThreadLease` | what the lease promises its callers | abstract specification |
| `ExecutionLease` | `PostgresExecutionCoordinator` | detailed |
| `ExecutionLeaseRefinement` | `ExecutionLease` implements `ThreadLease` | refinement mapping |
| `LocalExecutionLease` | `InMemoryExecutionCoordinator` | detailed |
| `ChatRun` | chat handlers, the checkpoint and the promotion, on top of `ThreadLease` | composition |
| `SessionTurns` | the main graph over the turns of a conversation: what the agent's state carries, versions, criteria, scopes, heads | composition |
| `TaskPromotion` | versions, mutations and snapshots of a task in the processes' caches and the database | composition |
| `ProviderCalls` | `BoundedProviderRuntime.execute`, `BudgetGuard`, `CircuitBreaker`, `tool_runs` | detailed |
| `TokenBucket` | `InMemoryTokenBucket` and `RedisTokenBucket` | detailed |
| `ResearchPipeline` | the research subgraph and `ResearchService` | detailed |
| `EntityResolution` | blocking, the matcher's rules, union-find | operators |
| `Verification` | the verification subgraph and its services, on top of `EntityResolution` | detailed |
| `WriteThrough` | the repositories of `postgres_business.py` | detailed |
| `Delivery` | frozen bundles, their pages and details, and exports | composition |
| `Knowledge` | uploads, reindexes, disables and questions | detailed |
| `LeaseAndPromotionProofs` | what is proved of `ExecutionLease` (with `ExecutionLeaseRefinement`), `LocalExecutionLease` and `TaskPromotion` | theorems |
| `RunsAndStoreProofs` | what is proved of `ChatRun`, `TokenBucket` and `WriteThrough` | theorems |
| `SessionTurnsProofs`, `ProviderCallsProofs`, `ResearchPipelineProofs`, `VerificationProofs`, `DeliveryProofs`, `KnowledgeProofs` | what is proved of the module each is named after | theorems |
| `MC...` | instances for TLC | |

The line each definition translates is in `PROJECT.json`, `map`. Names are those of
the code where TLA+ allows it. An operator named `X_Something` next to `X` is a
plausible bug in `X`; nothing in the specifications uses it. Replacing `X` by it
must break the property that `PROJECT.json`, `mutants` names.

### 2.1 ExecutionLease

One row of `execution_runs` per request (`runs`), the identity sequence behind
`fence_token` (`sequence`), the database clock (`now`) and the claims that live
handlers act under (`claims`). Every coordinator method is one transaction, and
`claim` takes advisory locks on the request and the thread, so every method is one
action: `Claim`, `Heartbeat`, `Finish`; `can_promote` reads and is the operator
`CanPromote`. `Abandon` is a handler that ends without `finish`. The claim compares
the expiry with the clock of the claiming host, heartbeat and `can_promote` with
the database's, so `Claim` takes a skew from `Skews`. `answer` stands for
`response_json` and holds the fence of the claim that stored it.

`finish` asks for the run and its fence only, not for an active status, and
`heartbeat` does not ask whether the lease has expired. Both are modelled as they
are; the properties hold all the same, and the invariant of section 5 says why.

`ThreadLease` forgets clocks, rows and statuses: an owner per thread, ever larger
tokens, answers that are given at most once. `ExecutionLeaseRefinement` reads
`owners` from the active rows, `token` from the fences, `answered` from the stored
responses.

`LocalExecutionLease` is the coordinator without Postgres. It finds the active run
through a pointer per thread, which `finish` clears whichever run it points at; its
`claim` may retire an expired run and then raise (`ClaimRefused`); its
`can_promote` does not look at the expiry.

### 2.2 ChatRun and SessionTurns

`ChatRun` is one turn seen from its handlers. Handlers on one conversation thread,
named by the fence they were granted, step from one await of `chat()` to the next:
`Claim`, `ReadState` (`aget_state`), `Invoke` (`ainvoke` loads the latest
checkpoint), `Work`/`Interrupt` (all nodes before the promotion), `Check` (the fence
is read), `Promote` (the snapshot's row) and `PromoteDone` (its checkpoint), `Respond`
(`finish`). `Fail` is an exception in the graph that a retry need not meet, `Crash` a
process that dies, a cancelled request, or an exception outside the `try`. A turn is
known by its message and the fence that began it and promotes for one task version:
`inserted` are the turns whose row is in the table, where the unique key refuses a
second, `conflicted` those whose mutation a `Post` has overtaken; both make the node
raise on every retry (`RaiseAgain`).
The module EXTENDS `ThreadLease` and adds what that leaves open: a lease lapses
(`Lapse`), is renewed (`Heartbeat`), and may be taken when it has.

`SessionTurns` is many turns seen from the graph: every node of `graph.py` and of the
requirement, planning and mutation subgraphs is a step, research and verification
are one step each. `state` holds the keys of `AgentState` that outlive a turn; a new
message sets only those `chat.py` sets (`Begin`), all others keep what an earlier
turn left, of whichever task. A message, an answer and a `POST` are patches from
small sets; artifacts (criteria, plans, candidate and lead sets) are the values
their ids stand for, so that "of its own criteria" is equality. `Checkpoint` lets a
node run again after a crash; `ApiMutate` and `ApiActivate` are other requests
between two nodes. A change is planned against the task as `LoadTask` found it, also
after the question a rule conflict asks (`mutation/nodes.py:80-96`); `found.snapshots`
are the versions whose snapshot row is there, which is what makes a promotion that
runs again fail on the unique key (`PromoteAgain`). A constraint may be one that the
normalizer or the validator refuses (`Malformed`, which the requirement graph stores
all the same), a business one that the catalog lacks: `Accepted` is what planning
keeps of the rules (`business_planning/nodes.py:122-146`).

### 2.3 TaskPromotion

`db` is the database: the active version and version rows, recorded mutations and
the validity of the snapshot of each version. `cache` is the same as each process
sees it, `turn` the checkpoint, `chat` the chat runs and `api` a mutation of the
POST route. Every transaction is a step. So is every access to the cache by somebody
who writes the task: a node, in a worker thread, or the route, on the event loop,
copies the head (`Apply`, `SetStatus`, `ApiMutate`: `get_task`), puts the changed copy
back (`Write`, `ApiWrite`: `_tasks[...] = ...`) and commits it (`CommitVersion`,
`CommitStatus`, `ApiCommit`: `_persist_task`), and nothing keeps another from doing the
same in between: a copy put back late undoes what was put back before it. `overlapped`
remembers that somebody began to write while another of the process was writing; where
a property needs that it has not happened, it says so. The lease is reduced to
`newest`, the run with the newest fence;
`ExecutionLease` and `ChatRun` are where it is studied. Unique keys raise: the run
ends (`Fail`) and the checkpoint stays at the node that raised; `Error` is any other
exception, a failed transaction included, and leaves in the cache what is there.
`Restart` empties a process and fills its caches from the database as `_load` does.

The graph's nodes between mutation and promotion are one step, `Work`, which does
what matters here: some of them set the task's stage, and that writes the cached
head, version included, over the stored one. The specification is `PromotionSpec`; the
module shares its proof module with `ExecutionLease`, which has a `Spec` of its own.

### 2.4 ProviderCalls and TokenBucket

`ProviderCalls` is one process. `call` holds the invocations of `execute` in
progress, `used` each run's budget, `circuit` the breaker's entry for each provider
and operation, `answered` the successes among the tool runs in memory, `rows` the
table `tool_runs` and `saved` the budget that `finalize` stores. The locks of guard
and breaker are never held across an await, so reserving, asking the breaker and
reporting to it are part of the step of the caller. `Blocked`, `Refused` and
`Admitted` are the three outcomes of an attempt; `LimiterRejects`, `Fail`,
`FailRetryable` and `Succeed` what follows; `Cancel` may come at any await.
`Restart` rebuilds the budget as `_runtime` does: from the saved one if there is
one, otherwise from the rows. `made` and `probes` are history, read by properties
only.

`TokenBucket` is one key of either bucket, chosen at the start (`remote`). Time is
cut so that a unit of time refills one unit and `Token` units are a token. The
bucket in memory reads its clock under the lock (`Acquire`); the one in Redis has
read it before its script runs (`ReadClock`, `Evaluate`), so calls may arrive in
another order than that of their times, and the script then writes the older time
over the newer one. `Failed` is an exception before or after the script ran.
`since`, `spent` and `rewound` are history: somebody begins to count at any time
(`StartCount`), which makes the property one of every stretch of time.

### 2.5 ResearchPipeline

One research run. `graph` is the checkpoint: the next node, the round, the results
of batches and the sets; `tasks` are the tasks of a node that fans out (`Send`),
each of which starts, makes its calls one by one and ends, in any order;
`candidates` are the saved candidates, `calls` the tool runs of each query in the
process and in the table. Joins are steps of their own (`MergeDiscovery`,
`PersistCheapEnrichedSet`, `PersistResearchedSet`). `Raise` is a node that fails:
tasks of its superstep that are done are kept, others run again; `Restart` is a
process that dies; `Mutate` makes a new version of the task, after which the run
skips its work. What a call costs, and that it ends, is `ProviderCalls`; here a
call ends with any of its outcomes. A candidate carries the row it was made of, and
`Keys` the identities two rows may share: merging goes by the first key that
matches and is not transitive, which the instance makes happen.

### 2.6 EntityResolution and Verification

`EntityResolution` has no state: `Rules` are the matcher's rules in their order,
`Decision` the first that applies, `Pairs` the pairs a block compares, `Roots` the
union-find over those that are the same, as a fold.

`Verification` is the subgraph over the turns of a conversation. `state` is what the
checkpoint keeps of it, the verification run of an earlier turn included; `links`
and `linkRows` say which enterprise a candidate belongs to, in the process and in
the table; `sources` are the records of the candidates, cut into one answer per
field; `evidence` what was extracted of them. Nodes are steps; `Enrich` is one
targeted call of `targeted_verification`. `DieResolving` and `DieCollecting` stop
the process within a node after some of its rows.

### 2.7 WriteThrough

A save changes the dictionary (`Begin`) and then runs one transaction (`Commit`, or
`Raise`), a read looks at the dictionary, `Restart` fills the dictionary from the
table. The repositories of `postgres_business.py` differ in seven respects, which is
how they are told apart: by which key the dictionary is kept, what it does with a
second row of one natural key, how the table merges, whether the natural key is
unique, whether `_load` orders the rows, whether the last row of a subject is
read as the latest, and what becomes of fields the table has no column for. A value is
a set of facts, those of `Columns` with a column. Of the four repositories that lack
some, rules of documents and of marketing get the default of the class back
(`evidence_refs`, `provenance`, `source_message_id`, `resolution_status` and
`suppression_reason` are empty after a start, of marketing rules also `modality`, and
`confidence` is 1), and enterprises and verification runs a list rebuilt from the
rows of another table, which may be any (`Rebuilt`). A behaviour is about one of the repositories, chosen at the
start, so one run covers all of them. `Read` is the dictionary a list of rows makes,
one row after another, and `Hydrated` what a start may read. The specification is
`StoreSpec`.

### 2.8 Delivery

`scores` and `leadSets` are what turns of a version have scored, `cache` and `db` the
executions, bundles and export jobs, `artifacts` the files. Requests of the event
loop (`Handlers`) run to their next await; export nodes of turns (`Turns`) run in a
thread beside them. A page, a detail or an export finds or freezes a bundle
(`GetBundle`, `FreezeBuild`, `SaveBundle`, `CommitBundle`) and then answers or
generates, a transaction at a time (`CheckExport`, `InsertJob`, `StartJob`, `Generate`,
`CommitCompleted`; `RecordFailure`, `SaveFailed`). A scoring saves score by score
(`Score`, `SaveScore`, `SaveLeadSet`). `Hash` has the day in it where the file is not
named, because the default name has (`NextDay`). `shown` is history: which figures
were answered from which bundle.

### 2.9 Knowledge

`cached` and `documents` are the rows of documents, `chunks` those of chunks, `pdfs`
the uploaded files, `profile` the embedding model of the process. A handler copies
the document, gives the loop up while a provider computes embeddings (`Embed`), and
writes chunks and row in two transactions (`ReplaceChunks`, `Ready`); failures mark
the row and may delete the file (`Failed`, `DeleteFile`). A question runs its dense
search, its sparse search and its answer as three steps in a thread. `Restart` may
come with a new model. `promised`, `withdrawn` and `overlapped` are history.

## 3. Runs

Every run explores its whole state space. Constants that are only there to make it
finite are marked *bound* in the modules. States are distinct states.

| run | instance | states | shows |
|---|---|---|---|
| `lease` | 3 requests, 2 threads, lease of 2 ticks, clocks off by -1, 0 or 1, 4 ticks, 4 claims | 149 506 | `SingleActiveRun`, `PromoterIsNewest`, `UnansweredIsReclaimable`, `AnswerIsFinal`, `LeaseOutlastsSkew`, and that it implements `ThreadLease` |
| `local_lease` | 3 requests, 2 threads, 3 claims per thread, 4 ticks | 101 033 | `PromoterIsNewest` holds although the pointer can be cleared under a running handler |
| `chat` | 2 requests, 4 claims, a crash or failure, a stall, an interrupt, a POST | 690 183 | `OneGraphDriver` and `NoTurnOverwritten` while heartbeats keep up, `OnlyNewestIsAllowed` and `ResponseIsFinal` always, and under fairness `EveryRequestAnswered` |
| `task` | 1 process, 2 runs, 1 chat message and any turns of the requirement graph, 1 POST, 3 versions, 1 restart, 1 stall, 1 error | 1 874 456 | `OneCurrentHead`, `MutationAppliedOnce`, `HeadAdvances`, `OnlyActiveVersionPromoted` |
| `provider_calls` | 3 calls of one request and operation, 2 at a time, budget 3, 1 retry, threshold 1, 1 probe, 1 restart | 95 409 | `CallsWithinBudget`, `HalfOpenAdmitsFew`, and `EveryCallEnds` under fairness |
| `bucket` | either bucket, 1 token of 2 units, 2 callers, 8 units of time, a key that lives for 4 | 2 200 025 | `GrantedIsRefilled`, `RetryAfterSuffices` |
| `research` | 2 queries, 4 rows of which three share keys in a chain, 2 rounds, batches of 1, 1 crash or error, 1 mutation | 162 321 | `DuplicatesMerged`, `PartialFailureKeepsResults`, `ExpansionKeepsCandidates`, and `ResearchEnds` under fairness |
| `verification` | 3 candidates (two of a company, one a branch), 7 answers, 2 candidate sets, 2 turns, 2 rounds, 3 targeted calls, 1 crash, 1 mutation | 20 900 | `VerifiedNeedsAgreement`, `EvidenceReachesProfiles`, and `VerificationEnds` under fairness |
| `session` | 2 tasks of 3 businesses, one of them not in the catalog, 3 candidates, 3 messages of 12 kinds, one with a constraint that is refused, 2 answers, 1 POST, 1 crash | 223 121 | `CriteriaAskWhatTaskAsks`, `PartialKeepsUniverse`, `LineageKept`, `AnswersOwnVersion`, and `TurnEnds` under fairness |
| `store` | every repository, 2 subjects, 2 versions of each, 2 values with a fact that some tables have no column for, 3 saves, 1 failing transaction, 1 restart | 356 738 | `RestartKeepsRows`, `RestartKeepsLatest` |
| `delivery` | 2 leads, 2 scorings of which one is later, 3 kinds of export, 1 request of the loop beside 1 thread, 2 requests, 2 faults, 1 restart, 2 days | 2 537 548 | `FiguresAgree`, `ArtifactKept`, `OneFilePerRequest` |
| `knowledge` | 3 files (plain, with a repeated paragraph, without text), 2 shelves, 2 handlers, 1 question, 2 documents, 2 models, 3 requests, 2 faults, 2 restarts | 2 086 176 | `ReadyIsKept`, `VectorsMatch` |

The type invariants of the modules that state one hold on the same instances.

Why the bounds are enough. *Leases*: a third request is needed for a claimant that
is neither the overtaken nor the overtaking handler, a second thread for a request
that is sent to the wrong one; four claims let each request be claimed and one be
reclaimed; with four ticks a lease of two can expire, be renewed late and expire
again, and skews of one in both directions make a claim early and late. *Chat*: four
claims cover both requests, one that crashed or failed at any step and one that was
overtaken by a stall and goes on; a fault and a stall in one behaviour let the
recovery of one meet the other. Handlers without new claims do nothing new, since a
handler's steps after its graph run are the same for every request. *Tasks*: one
version before, one for the message or a turn of the requirement graph and one for the
POST, so that each of two writers can meet the other's version; one restart, one error
and one stall in one behaviour let the recovery from one meet the next, and two runs
are what two threads beside the route need. `MCTaskReplicas.cfg` has two processes. *Providers*: with threshold 1 and one probe a circuit opens, half opens
and opens again within a budget of three, and three calls at two slots queue; the
failures are counted up to the threshold only, beyond it nothing depends on them.
*Bucket*: in eight units of time the key is forgotten twice, and two callers let one
call overtake the other by any delay. *Research*: two rows that share no key are
both like a third, which is the smallest case where the order of merging matters;
the second round answers with one old and one new row; the faults hit any node, and
batches of one make every query a task of its own. *Verification*: two turns are what
a run kept from an earlier turn needs, two records that agree and two that disagree
what a status needs, and three calls end a round before and after the budget does.
*Session*: a created task, a change and a message about another task, in any order,
with an answer to each question and a POST between any two nodes. *Store*: three saves put a second
row under a name, a second version of a subject and a row that is saved again, in
one behaviour. *Delivery*: a scoring between two readings of one lead set, a second
request for what the first is still generating, and a failure or restart between
any two of its steps; what a third request could add is met with two by the proofs
of section 5, which bound nothing. *Knowledge*: two documents of one file on two shelves, two
handlers on one document, a model that changes under either.

Symmetry is used where properties are invariants or action properties and the
constants are interchangeable (`lease`, `local_lease`, `task`, `bucket`,
`delivery`, `knowledge`), never with liveness. `CHECK_DEADLOCK FALSE` everywhere: the clock, the
versions or the requests reach their bound, and a conversation or a service with
nothing to do is idle.

### Fairness

* `ChatRun`: weak fairness of a live handler's steps (the event loop runs every
  ready coroutine, and the awaits of the handler end), of the lapse of a dead
  handler's lease (time passes, nobody renews it), and of the claim of every
  request: the client retries with the same request id. The code justifies the
  last one only for such a client, and the property is about such a client.
  Nothing makes `Crash`, `Fail`, `Interrupt`, `Post` or stalls happen, and they are
  bounded. `EveryRequestAnswered` allows the two ways in which the code leaves a turn
  that raises on every retry (`Stuck`); without them it is false (section 4).
* `ProviderCalls`: strong fairness of the attempt of each call, because an
  asyncio semaphore wakes its waiters in order; weak fairness of the limiter's
  answer, of the provider's (`asyncio.wait_for` ends it, `runtime.py:180`) and of
  the record.
* `ResearchPipeline`, `Verification`, `SessionTurns`: weak fairness of the graph's
  steps as a whole. LangGraph runs the next node when one is done; a turn that
  stopped half way is continued by the next request of the conversation
  (`chat.py:166`), which the models take to come. Calls to providers end, which is
  `EveryCallEnds` above. Crashes and errors are bounded and nothing makes them
  happen. `ResearchEnds` allows the one way out the code has: all of discovery
  failed and the run is FAILED. `TurnEnds` of `SessionTurns` allows an answer, a
  question to the user and an error.
* `TaskPromotion` (for the configurations beside the runs): weak fairness of the
  steps of a run, of the steps of a POST that has begun to write, and of
  `Continue`, the client that sends a failed request again.

## 4. Statements that do not hold

No run expects a violation. These properties are stated in the modules because the
repository says them, or because a reader would expect them, and TLC refutes each.
Where a configuration is named it checks the property; otherwise put the property
into the configuration in brackets. They are hazards (`PROJECT.json`) that the code
does not master, and bounds of the properties that do hold.

| property | configuration | behaviour |
|---|---|---|
| `OneActiveLease` | `MCLocalOneActiveLease.cfg` | a late `finish` clears the pointer of the run that overtook it, and a third request gets a second live lease (`leases.py:148`); the in-memory coordinator only |
| `InterruptAnsweredByLaterRequest` (`README.md:115`) | `MCChatInterrupt.cfg` | a request that crashed after its interrupt was checkpointed answers its own question when it is retried |
| `PromotesUnderNewestFence` (`README.md:21`) | `MCChatStalePromotion.cfg` | the fence is read and awaited before the promotion, which checks the task version only: a handler that stalls in between promotes although it has been overtaken |
| `EveryRetryCompletes` (`docs/RECOVERY_REPORT_PHASE2.md:15,29`) | (`MCChatRun.cfg`) | a run that dies between the insert of its snapshot and the checkpoint, or a POST between the load and the apply of its mutation, leaves a turn that raises whenever it is continued, by every later message; the next two rows are the same seen from the task |
| `TurnEnds` of `TaskPromotion` | `MCTaskRetry.cfg` | a crash after the insert of a snapshot and before the checkpoint: the retried insert meets the unique key of `(task_id, task_version)`, for ever |
| the same (`docs/RECOVERY_REPORT_PHASE2.md:29`) | `MCTaskConflict.cfg` | without a crash: a POST makes a version between the load and the apply of a turn's mutation, which then raises `TASK_VERSION_CONFLICT` on every retry; later messages continue the same turn |
| `RestartKeepsHead` | (`MCTaskRetry.cfg`, `SPECIFICATION PromotionSpec`) | a restart between the two transactions of a promotion leaves the task without a head |
| `OldVersionNeverPromoted` (`README.md:145`), `VersionIncreases` (`README.md:120`) | (`MCTaskPromotion.cfg`) | in one process: while a node's thread sets the task's stage with the copy it took (`mock_task_repository.py:136`), a POST makes version 2; the copy put back (95) and committed moves the cache and then the table back to version 1, where the version fence looks, and the turn promotes version 1 |
| `EachMutationOnce` (`tests/api/test_phase6_task_api.py:30`, `is_idempotent`) | (`MCTaskPromotion.cfg`) | the transaction of a POST's version fails after the cache has it (`postgres_business.py:231`): the message is not remembered, the row is committed with the next write of the task, and the client's retry makes a second version |
| the first two with two processes | (`MCTaskReplicas.cfg`) | the version fence compares with a stale cache, and setting a stage moves the active version back; `VersionsImmutable` holds there |
| `ProbeSlotsInUse` | (`MCProviderCalls.cfg`) | a probe that is rejected by the limiter, fails for good or is cancelled keeps its slot, and the circuit refuses every call until the process restarts (`circuit_breaker.py:42`) |
| `AnswerIsDurable`, `BudgetOutlivesProcess` | (`MCProviderCalls.cfg`) | the table keeps the first tool run of a request; the budget rebuilt after a restart misses calls in flight and repeated failures |
| `GrantedInTime` | (`MCTokenBucket.cfg`) | a late call sets the bucket's time back, and the same time is refilled twice |
| `HardDecisionsKept` (`README.md:201`) | `MCVerificationHardNegative.cfg` | union-find joins two records of different credit codes through a third without one (`entities/service.py:45`) |
| `OfficeCountIsCurrent` (`README.md:203`) | `MCVerificationOfficeCount.cfg` | the count of an earlier round stays beside that of a later one, and the resolver prefers it |
| `LeadsFromResearchedSet` (`README.md:188`) | `MCVerificationLeads.cfg` | a resolution returns every enterprise the task ever linked (`verification/nodes.py:51`) |
| `EvidenceReachesEveryProfile` | `MCVerificationNextTurn.cfg` | the verification run of an earlier turn is taken again and collects for the links of its own resolution (`nodes.py:73`) |
| `LineageChained` (`README.md:145`), `HeadOfTask` | (`MCSessionTurns.cfg`) | a search that finds nothing promotes with the lead set the thread still has, also another task's (`graph.py:134`) |
| `RequirementsAreOwn`, `ClarificationAdds` | (`MCSessionTurns.cfg`) | an old clarification is read instead of the message (`requirement/nodes.py:24`); an answer replaces the constraints it does not name (`nodes.py:93`) |
| `EveryConstraintAsked` | (`MCSessionTurns.cfg`) | a hard constraint the language model put in a form the normalizer refuses stays in the task and is left out of its criteria (`business_planning/nodes.py:122`) |
| `CriteriaForget` | (`MCSessionTurns.cfg`) | a constraint removed by a POST comes back from the criteria the conversation holds (`mutation/nodes.py:206`) |
| `CacheOnlyAccelerates` (`postgres_business.py:6`) | `MCWriteThroughLatest.cfg` | "the latest run of a task" is the cache's order of insertion, and `_load` reads research, resolution and verification runs in no order (274, 564, 764) |
| `ObjectsKept` (`postgres_business.py:6`) | (`MCWriteThroughLatest.cfg`) | `business_rules` and `marketing_rules` have no column for the evidence, provenance, message and resolution of a rule (1073-1117, 1146-1173): after a restart `validator.py:25` refuses an official rule it accepted before, and the criteria are compiled without it; `source_candidate_ids` and `profile_ids` are rebuilt from other tables (629, 816) |
| `LinkKept`, `ToolRunKept` | (`MCWriteThroughLatest.cfg`) | the dictionary of links keeps one row of a candidate, the table one of each resolution run, read back in no order; the table keeps the first tool run of a request |
| `OneSetOfFigures` (`README.md:19`), `RanksFollowScores`, `IndexedIsCompleted` | (`MCDelivery.cfg`, the first with `MaxRequests = 3`) | a bundle whose insert failed is answered from until the restart; ranks come from the lead set and scores from now; a job whose last transaction failed is FAILED and stays in the index of successful requests |
| `DisabledStays`, `UploadIsIdempotent`, `ReadyHasFile`, `CitesOneGeneration` | (`MCKnowledge.cfg`) | an upload or reindex writes back the copy it began with; a failed upload leaves the hash taken, or deletes the file a reindex needs; a question's two searches read two generations of a document |

Each property that holds says of which turns, repositories or bundles it does, and
its antecedent leaves out no more than what the table shows.

## 5. Proofs

All theorems hold for every value of the constants, from the named ASSUME of the
module they are about and what their statement assumes.

| module | theorems | beyond the instance of its run |
|---|---|---|
| `LeaseAndPromotionProofs`, of `ExecutionLease` | `TypeCorrect`, `OneActiveRun`, `OnlyNewestPromotes`, `NoRequestStranded`, `AnswersNeverChange`, `LiveLeaseNotStolen`, `Refinement` | any requests, threads, lease time, skews and bounds |
| the same, of `LocalExecutionLease` | `PromoterNewest`, `AnswerFinal` | any requests, threads and bounds |
| the same, of `TaskPromotion` | `OneHead`, `OneVersionPerMessage`, `HeadsAdvance`, `ActiveVersionPromoted` | any runs, messages, versions, restarts, errors and stalls of one process (`Replicas = {p}`); the last three under the conditions of their properties (no two copies of the task written at once; no run overtaken alive) |
| `RunsAndStoreProofs`, of `ChatRun` | `OneDriver`, `UnfinishedTurnKept`, `NewestIsAllowed`, `ResponseStays` | any requests, claims, crashes, failures, stalls and interrupts |
| the same, of `TokenBucket` | `OnlyRefillIsGranted`, `RefusedOnce` | any capacity, rate, callers and time |
| the same, of `WriteThrough` | `RowsSurvive`, `LatestSurvives` | every repository, any subjects, versions, values, columns, saves, failed transactions and restarts, and any order of the rows |
| `SessionTurnsProofs` | `OwnVersionAnswered`, `CriteriaAsked`, `UniverseKept`, `LineageIsKept` | any messages, patches, answers, businesses, rules, candidates, tasks, other requests and crashes |
| `ProviderCallsProofs` | `TypeCorrect`, `ProbesFew`, `WithinBudget` | any calls, runs, operations, limits, probes, thresholds and restarts |
| `ResearchPipelineProofs` | `TypeCorrect`, `DuplicatesAreMerged`, `ResultsAreBest`, `ExpansionOnlyAdds` | any queries, rows, answers, scores, sizes of batches and sets, rounds, mutations, raised errors and restarts |
| `VerificationProofs` | `TypeCorrect`, `VerifiedAgrees`, `EvidenceReaches` | any finite set of candidates, any answers, matches, sets, thresholds, rounds, calls, turns, mutations and deaths; the last for at most two deaths |
| `DeliveryProofs` | `OneSnapshotShown`, `CompletedHasFile`, `GeneratedOnce` | any finite set of leads, any scorings, views, exports, handlers, turns, failures and restarts |
| `KnowledgeProofs` | `SameModel`, `ReadyStays` | any files, shelves, handlers, questions, documents, models, failures and restarts |

Each module proves `Invariance`, `Spec => []IInv`, from a lemma for the initial states
and one for each action, and its theorems from that. The invariants of the other
specifications, and the second ones of some, are proved the same way:
`LocalInvariance` (`LocalExecutionLease`, as an instance), `PromotionInvariance` and
`LedgerInvariance` (`TaskPromotion`) in `LeaseAndPromotionProofs`; `BucketInvariance`
(`TokenBucket`) and `StoreInvariance` (`WriteThrough`) in `RunsAndStoreProofs`;
`BudgetInvariance` in `ProviderCallsProofs`; `ReadyInvariance` in `KnowledgeProofs`.

*ExecutionLease.* `SingleActiveRun` is not inductive: `claim` retires only the active
row with the greatest fence, so a state with two active rows on a thread keeps one
of them. `IInv` adds what makes the greatest fence the only one: fences of rows are
distinct and no larger than the sequence (`RowsOK`, `FencesDistinct`); an active row
holds the newest fence of its thread and no answer (`ActiveIsNewest`); a handler's
fence is at most its row's, and the row that still carries it has no answer
(`ClaimsOK`). The last one is what makes `finish` safe although it does not ask for a
status: a row with an answer is never reclaimed, so no live claim can match it. The
same parts give `PromoterIsNewest`. `LatestActiveLemma` (the row with the greatest
fence is all of `ActiveOn`) lets the refinement read `Claim` as the abstract `Grant`.

*LocalExecutionLease.* The pointer may be missing, but if it finds a run, that run
has the thread's newest fence (`PointerIsNewest`): `claim` writes both, and `finish`
can only clear it. With `ClaimsOK` as above no live claim matches a run with an
answer.

*ChatRun.* `OwnerIsNewest`: the owner of the thread holds the last grant. `LiveOwns`:
as long as no handler has stalled past its lease, every live handler's request owns
the thread under its grant; two live handlers would both hold the last grant, so
they are one. `ReadIsFresh`: what a handler read of the checkpoint is still so when
it acts on it, because nobody else is live. `OnlyNewestIsAllowed` and
`ResponseIsFinal` need neither.

*SessionTurns.* The four properties are about two nodes, the promotion and the answer;
their reasons are spread over all the nodes before them, and another request may make
a version between any two. `IInv` therefore says node by node what of the checkpoint
can be trusted. `ScopeOK`: which scopes may stand at a node, because each node leads
only where `Route` sends its scope. `VersionOK`: the version of the thread is never
ahead of its task's, and versions only grow, so that "the thread's version is the
task's" at a later node means that it was so all along. Only under that condition do
`CriteriaOK` (the criteria ask what the task asks, all its hard constraints that are
valid rules among it), `LeadsOK` (the leads at hand were
scored by the criteria at hand, or nothing was found, or they are those displayed) and
`PromotedOK` (who is about to answer has a head) say anything, and every step of
another request makes the condition false. `HeadOK`: nobody but the turn's own
promotion touches the task's head, so what was planned on is still there, unless the
version has its snapshot already: then the promotion fails on the unique key, each
time it runs again, and no head is made.
`HeadsOK`: a head with researched members has leads, which is why a displayed head
has some to display. The theorems assume that `None` is no record, no scope and no
answer (`NoneIsNothing`), as a model value is.

*TaskPromotion.* `PromotionInv` has two parts. `CurrentIsCached`: the process's cache knows the current snapshot,
so the demotion misses none. `NoneWhileInserting`: between the two transactions no
snapshot is current and no second promotion is there, because a promotion does not
give up the event loop. The second is not true of two processes.

`LedgerInv` is about versions, in two parts with conditions of their own. `Books` holds
as long as no two copies of the task were written at once: one copy is in hand, and
nobody has changed the head since it was taken (`OneWriter`, `CopyInHand`); so the cache
is never behind the tables and has their rows (`InStep`), and what is remembered for a
message is a version it made (`RequestsMade`). `Turns` holds as long, besides, as no run
was overtaken alive: one run is live and goes on with the thread's turn, the version a
turn's message has made is the one after the version it was planned against
(`BaseBefore`), and no chat message has made two (`OnceCached`). It is over the rows in
the cache, because a version whose transaction failed is committed with the next one;
that is also why a version of the route is not bound in this way (`EachMutationOnce`).
`Heads` says of promotions that what was promoted is a version that was made
(`PromotedMade`), that a promotion between its transactions is of the active version or
of the newest in the cache (`InsertsNewest`), and that demoting the cached snapshot
promotes none (`CurrentPromoted`). The action properties follow from the step lemma
itself (`LedgerStep`), which says of each step what it promotes.

*ProviderCalls.* `inflight` does not count the probes: a failure gives a slot back
whether its call had taken one or not, and a cancelled call gives nothing back.
What is inductive is that the probes under way are never more than `inflight` while
the circuit is half open, and never more than the probe count after.

The budget: `reserve` counts a call before the limiter is awaited, and `finalize` saves
the count only at the end of a run, so after a restart the guard may know fewer calls
than were made. `BInv` covers the calls made and those that wait at the limiter with a
reservation by what the guard has counted in this life, up to the limit, and one full
budget for every life before (`RunCovered`, `OpCovered`). Calls are counted as the
elements of a set (`CallsMade`), so that the theorems on cardinality apply where a sum
over a map would ask for induction.

*TokenBucket.* `Level`: what the bucket would have held when the counting began, and
what was granted since, is at most a full bucket, the refill since, and the
lateness. It speaks of the bucket's own time, so it survives a late call, and
implies the same of a bucket that is forgotten. `Promise`: the units a refused
caller lacks are refilled by the time it was told.

*ResearchPipeline.* What the run computes with needs lemmas before any action does. A
set of positions has its order (`InOrder`) because the number of members before one
tells them apart: the counts are as many as the members, so all are taken (`Places`),
and the same lemma orders a list by score (`RankedLemma`). The candidates that share
nothing with a selected one before them exist for every length and are the same in a
longer list (`GreedyExists`, `GreedyOnce`), which gives `RawExtended`: the raw set of
more results begins with the raw set of the first. The slices of a list put together
are the list (`BatchesLemma`), with `FlattenSeq` read as the function it chooses
(`JoinedOnce`). Each of these looks like an induction over the length of a list, which
the provers cannot instantiate; each is instead led to a contradiction at the least
number without the property (`LeastNumber`).

The properties need three facts about the state that none of them mentions. While a
round is discovered, what was merged is of earlier rounds (`FoundByRound`): a query
asked again after a crash writes over candidates, and it may only write over those of
its own round, or the raw set would lose the sources it took in. The raw set is the
merge of all results so far, and no other (`RawSet`). The tasks of deep research have
the slices of the best, and as long as the task has not moved on give them back
unchanged (`DeepResearch`); a mutation makes that condition false for good, because
versions only grow.

*Verification.* A profile is built once and its evidence goes on growing, across
rounds, retried nodes and runs that are taken again, so `VerifiedNeedsAgreement` is
about a count that could come to differ from what was counted. It cannot:
`SavedOnce`, the table holds a piece of evidence (enterprise, field, value, record)
once, so agreeing evidence is as many pieces as agreeing records, and a field that had
enough keeps them. The assumptions are that candidates, required fields and extra
answers are finite sets, that thresholds are naturals and that there is a version.

`EvidenceReachesProfiles` is a matter of links. A process reads one of a candidate's
rows; it reads another than the turn's own only where a resolution died and left rows
that no turn uses (`SetLinked`). What the records say is missing from a profile only if
the evidence was collected under such a link and the right one is read back
afterwards (`ReachedOK`, `ShownOK`): the first death leaves the row, the second reads it,
the third reads the other. `EvidenceReaches` therefore says `faults <= 2`. The bound is
sharp: with `MaxFaults = 3` TLC finds the behaviour in the instance of the run (which
has one death), and with two it finds none.

*WriteThrough.* The repositories are thirty records, of which the proofs need what
they have in common (`Kind`): whose table is by id, whose by natural key, which are read
back in an order. `StoreInv` then says of any of them that an id names one row for good
(`StoreRows`), also after a row stored by its name kept the id of another; that a call
under way has written the dictionary, unless the table comes first, and is the only
one of its subject (`Calls`); that dictionary and table agree, on what has a column
(`Like`), under each key whose last save returned (`Agreed`); that of a resolved field, where the table keeps
every version, the dictionary has the newest (`Newest`); and that what is read back in
an order stands in it (`Ordered`). A start reads the last row of each key
(`ReadLemma`), and what it rebuilds has no column (`RebuiltLemma`). `RestartKeepsRows` and `RestartKeepsLatest` compare the dictionary with
those a start *may* build, and follow from the invariant without a step.

*Delivery.* None of the three properties is inductive: a bundle is in a request's
hand, in the dictionary and in the table at different times, and a job in a request,
two maps and a file. `IInv` says that they hold the same one: an id names one bundle
wherever it is held, and the table one bundle of an execution, with a row for each
lead at most (`Bundles`); every answer that was given agrees with the bundle it names
(`Answers`); a job belongs to one request, whose copy agrees with the row and with the dictionary,
which a recorded failure stores again (`Jobs`); and what is COMPLETED in either has a
file, with the first rows of its bundle (`Files`). That a lead has one row comes from
the scoring's order: `Ordered` picks a sequence of a set by a key, and the lemmas show
of any finite set that one exists. There is no induction for it; a smallest set
without one is led to a contradiction, by the well-foundedness of strict inclusion
(`FS_StrictSubsetOrderingWellFounded`, `WFMin`), and the same argument finds the least
id that `FindByHash` of `Knowledge` returns.

*Knowledge.* Vectors carry the model they were made with. The invariant follows a
document through cache, row, chunks and the handlers' copies: whoever says that a
document has vectors of a model is right about its chunks, in every state between
two transactions. A search asks the row.

`ReadyIsKept` needs to know who can take a READY document away. `RInv`: a handler that
runs is alone (`Work`), every other waits for a provider with its row and file in
place; the table takes a hash once, so a file belongs to one row (`Rows`) and the
upload that deletes a file deletes its own, whose row says FAILED; where the
dictionary says READY and the row does not, the request that wrote it is about to say
FAILED (`Serving`), so an upload that is answered with a READY document of the
dictionary finds it in the table too; and nobody works on a document that was promised
(`Kept`). Two requests on one document are the exception the property names
(`overlapped`).

*What is model-checked only.* Liveness (`EveryRequestAnswered`, `EveryCallEnds`,
`ResearchEnds`, `VerificationEnds`, `TurnEnds`): out of the prover's reach. Every
invariant and action property of the runs has a theorem. `EvidenceReachesProfiles` has
one for at most two deaths, beyond which it is false; the theorems of `TaskPromotion`
are of one process, the theorems of `ChatRun` that say so of heartbeats that keep up,
as their properties are.

## 6. What is left out

* In `ExecutionLease`: the workspace (every query is restricted to one), the text of
  responses, a failure of the database (nothing is written, the caller gets an
  exception: that is `Abandon`).
* In `ChatRun`: events and the text sent to the client; other threads (they share
  nothing but the task).
* In `SessionTurns`: how texts are read; rules of documents and of marketing come
  normalized, and a value stands for its normal form; a constraint that makes a later
  node raise (an operator that `criteria_from_task` does not know, a comparison of
  unlike types), which ends the turn with an error; writes to a task are one step
  (`TaskPromotion` has what goes wrong between theirs); weights and required fields of scores,
  stages of tasks, FILTERED_OUT of candidates, the fence (`ChatRun` has it), failures
  of research and verification (`ResearchPipeline` and `Verification` have them).
* In `TaskPromotion`: creating a task; what a mutation re-executes and what a
  snapshot holds (`SessionTurns` has them); several tasks (rows of different tasks
  are independent).
* In `ProviderCalls`: the shared Redis cache of answers, which is best effort and
  only saves calls; the TTL of stored answers, hours against a run of ten minutes;
  any answer of the limiter is taken. In `TokenBucket`: amounts other than one, which
  nobody asks for; hosts whose `monotonic()` counts from different starts.
* In `ResearchPipeline`: the limit of a run's time, which refuses calls as the budget
  does; provider payloads.
* In `Verification`: the age of evidence; the limit of a hundred enterprises a round; the numbers of confidence beyond what
  compares them; the order in which links are read back. In `EntityResolution`: the
  language model's answer for ambiguous pairs, which the service is not wired with.
* In `WriteThrough`: which rows of the other table a list is rebuilt from (any set of
  facts is taken).
* In `Delivery`: the S3 storage, which does the same, and the sheets besides the one
  of leads; the views that only read. In `Knowledge`: the numbers of the ranking,
  rolling back an embedding profile, the cached chunks (with tables both searches
  read the tables). In both: the mode without a database.
* Not modelled: the components whose row in `PROJECT.json` says so, with the reason.
  Adapters to outside services, the front end, security, health checks, metrics and
  evaluations have no state that a model would say anything about; task events are
  appended and read back, the cache of provider answers is best effort.

## 7. What could come next

1. The numbers of a score (`app/scoring/engine.py`) as operators with a reference
   definition, and required fields in `SessionTurns`.
2. Task events: what a client that reconnects with the id of the last event it has
   seen is sent, beside the events of a turn that runs on.
3. `TokenBucket` with hosts whose clocks start differently, and inside
   `ProviderCalls` in place of the limiter's any answer.
4. Proofs: that a start finds an order at all (`Hydrated` is not empty where rows are
   read back in one), and the safety properties of `TaskPromotion` that hold of two
   processes (`VersionsImmutable`).
