------------------------------- MODULE Delivery -------------------------------
(***************************************************************************)
(* The read model of one task version and the workbooks made from it:       *)
(* app/delivery/queries.py freezes an execution of the version into a      *)
(* bundle of rows, app/exports/service.py writes workbooks from bundles,   *)
(* and app/repositories keep executions, bundles and jobs in a dictionary  *)
(* and a table each.                                                       *)
(*                                                                         *)
(* Requests come from HTTP, where handlers run one at a time on the event  *)
(* loop, and from the export node of a turn, which runs in a thread beside *)
(* it.  Turns of the version may score its leads again and promote again:  *)
(* a turn that is retried does.                                            *)
(***************************************************************************)
EXTENDS Integers, FiniteSets, SequencesExt

CONSTANTS
    Leads,           \* the enterprises of the version
    Scorings,        \* scores a turn may give them: functions from Leads to Nat
    Incomplete,      \* leads with an unknown telephone
    Views,           \* the pages a reader asks for: filter, order, number, size
    Exports,         \* what an export asks for: a number of leads, telephones, and
                     \* whether it names its file
    Handlers,        \* requests served at one time by the event loop
    Turns,           \* requests served at one time by graph threads
    None,            \* no value: not a number
    MaxScorings,     \* bound on the scorings after the first
    MaxRequests,     \* bound on the requests
    MaxFaults,       \* bound on failing transactions and writes of a file
    MaxRestarts,     \* bound on the restarts
    MaxDays          \* bound on the days after the first

ASSUME DeliveryAssumption ==
    /\ IsFiniteSet(Leads)
    /\ Scorings \subseteq [Leads -> Nat]
    /\ Views \subseteq [least : Nat, order : {"asc", "desc"}, page : Nat \ {0}, size : Nat \ {0}]
    /\ Exports \subseteq [count : Nat, phone : BOOLEAN, named : BOOLEAN]
    /\ None \notin Nat

VARIABLES
    scores,          \* the latest score of each lead, as scores_for_set finds it, and
                     \* the scoring under way: its scores and the leads left
    leadSets,        \* the ranked leads of each scoring
    cache,           \* dictionaries: executions, bundles, byExecution, jobs, index
    db,              \* rows of the tables: executions, bundles, jobs
    artifacts,       \* the rows in the file of each job that stored one
    requests,        \* what each handler and thread is doing
    shown,           \* history: the figures of answers, with the bundle they name
    used             \* counters for the bounds and the fresh ids

vars == <<scores, leadSets, cache, db, artifacts, requests, shown, used>>

Servers == Handlers \cup Turns
Idle == [pc |-> "idle"]

\* A dictionary or a table with the value of one key set.
With(f, k, v) == [x \in DOMAIN f \cup {k} |-> IF x = k THEN v ELSE f[x]]

\* The members of a set by a number each has, the largest first.
Ordered(S, key) == CHOOSE q \in SetToSeqs(S) : \A i, j \in DOMAIN q : i < j => key[q[i]] >= key[q[j]]

-----------------------------------------------------------------------------
(* Bundles. *)

\* The leads of a scoring in the order of their scores: a VerifiedLeadSet.
Ranked(s) == Ordered(Leads, s)

\* A row of the read model: its rank comes from the lead set, its score from
\* the scores of now.
LeadRow(rank, lead) ==
    [rank |-> rank, lead |-> lead, score |-> scores.latest[lead], phone |-> lead \notin Incomplete]
LeadRows(e) == [i \in DOMAIN leadSets[e.set] |-> LeadRow(i, leadSets[e.set][i])]

\* The execution a version is read through: the last one the process knows.
ForVersion == Last(cache.executions)
BundleOf(id) == {b \in cache.bundles : b.id = id}
ForExecution(e) == IF e.id \in DOMAIN cache.byExecution THEN BundleOf(cache.byExecution[e.id]) ELSE {}

\* rows[from:to], which stops at the end.
Slice(rows, from, to) == SubSeq(rows, from + 1, Min({to, Len(rows)}))

\* A page of the rows: those a filter keeps, in an order, cut into pages.
Filtered(rows, least) ==
    LET kept == {i \in DOMAIN rows : rows[i].score >= least}
        order == Ordered(kept, [i \in kept |-> -i])
    IN [n \in DOMAIN order |-> rows[order[n]]]
InView(rows, order) == IF order = "asc" THEN rows ELSE Reverse(rows)
LeadPage(b, v) ==
    LET items == InView(Filtered(b.rows, v.least), v.order)
    IN Slice(items, (v.page - 1) * v.size, v.page * v.size)

-----------------------------------------------------------------------------
Init ==
    \E s \in Scorings :
        /\ scores = [latest |-> s, busy |-> FALSE, given |-> s, left |-> {}]
        /\ leadSets = <<Ranked(s)>>
        /\ cache = [executions |-> <<[id |-> 1, set |-> 1]>>, bundles |-> {}, byExecution |-> <<>>,
                    jobs |-> <<>>, index |-> <<>>]
        /\ db = [executions |-> {[id |-> 1, set |-> 1]}, bundles |-> {}, jobs |-> <<>>]
        /\ artifacts = <<>>
        /\ requests = [q \in Servers |-> Idle]
        /\ shown = {}
        /\ used = [scorings |-> 0, executions |-> 1, bundles |-> 0, jobs |-> 0,
                   requests |-> 0, faults |-> 0, restarts |-> 0, days |-> 0]

Goto(q, r) == requests' = [requests EXCEPT ![q] = r]
Done(q) == Goto(q, Idle)
At(q, pc) == requests[q].pc = pc
Move(q, pc) == Goto(q, [requests[q] EXCEPT !.pc = pc])
Fault == used.faults < MaxFaults /\ used' = [used EXCEPT !.faults = @ + 1]
Fresh(counter) == used' = [used EXCEPT ![counter] = @ + 1]

-----------------------------------------------------------------------------
(* What turns do to the version. *)

\* A turn scores the leads of the version again, and saves them score by score ...
Score(s) ==
    /\ ~ scores.busy
    /\ used.scorings < MaxScorings
    /\ Fresh("scorings")
    /\ scores' = [scores EXCEPT !.busy = TRUE, !.given = s, !.left = Leads]
    /\ UNCHANGED <<leadSets, cache, db, artifacts, requests, shown>>

SaveScore(lead) ==
    /\ scores.busy /\ lead \in scores.left
    /\ scores' = [scores EXCEPT !.latest[lead] = scores.given[lead], !.left = @ \ {lead}]
    /\ UNCHANGED <<leadSets, cache, db, artifacts, requests, shown, used>>

\* ... then as a lead set.
SaveLeadSet ==
    /\ scores.busy /\ scores.left = {}
    /\ scores' = [scores EXCEPT !.busy = FALSE]
    /\ leadSets' = Append(leadSets, Ranked(scores.given))
    /\ UNCHANGED <<cache, db, artifacts, requests, shown, used>>

\* It promotes what it scored.  The table has one execution of a version: a
\* second is refused after the dictionary has taken it.
Promote ==
    /\ used.executions < Len(leadSets)
    /\ Fresh("executions")
    /\ LET e == [id |-> used.executions + 1, set |-> Len(leadSets)] IN
       /\ cache' = [cache EXCEPT !.executions = Append(@, e)]
       /\ db' = IF db.executions = {} THEN [db EXCEPT !.executions = {e}] ELSE db
    /\ UNCHANGED <<scores, leadSets, artifacts, requests, shown>>

-----------------------------------------------------------------------------
(* Reading: freeze and its answers. *)

\* A handler starts when no other is running: it does not await.
Free(q) == At(q, "idle") /\ (q \in Handlers => \A h \in Handlers : At(h, "idle"))

Arrive(q, kind, snapshot, ask) ==
    /\ Free(q)
    /\ used.requests < MaxRequests
    /\ Fresh("requests")
    /\ Goto(q, [pc |-> "freeze", kind |-> kind, snapshot |-> snapshot, ask |-> ask,
                bundle |-> None, job |-> None, day |-> 0])
    /\ UNCHANGED <<scores, leadSets, cache, db, artifacts, shown>>

\* A page of the leads, a lead or its score: no snapshot is named.
AskPage(q) == q \in Handlers /\ Arrive(q, "page", None, None)

\* An export names the snapshot the page showed, or none.
AskExport(q, snapshot, ask) ==
    /\ snapshot \in {x.bundle : x \in shown} \cup {None}
    /\ q \in Turns => snapshot = None
    /\ Arrive(q, "export", snapshot, ask)

GetBundle(q) ==
    /\ At(q, "freeze")
    /\ requests[q].snapshot # None
    /\ IF BundleOf(requests[q].snapshot) = {} THEN Done(q)
       ELSE \E b \in BundleOf(requests[q].snapshot) :
                Goto(q, [requests[q] EXCEPT !.pc = "got", !.bundle = b])
    /\ UNCHANGED <<scores, leadSets, cache, db, artifacts, shown, used>>

FreezeCached(q) ==
    /\ At(q, "freeze")
    /\ requests[q].snapshot = None
    /\ \E b \in ForExecution(ForVersion) : Goto(q, [requests[q] EXCEPT !.pc = "got", !.bundle = b])
    /\ UNCHANGED <<scores, leadSets, cache, db, artifacts, shown, used>>

FreezeBuild(q) ==
    /\ At(q, "freeze")
    /\ requests[q].snapshot = None
    /\ ForExecution(ForVersion) = {}
    /\ Fresh("bundles")
    /\ Goto(q, [requests[q] EXCEPT !.pc = "save", !.bundle =
           [id |-> used.bundles + 1, execution |-> ForVersion.id, rows |-> LeadRows(ForVersion)]])
    /\ UNCHANGED <<scores, leadSets, cache, db, artifacts, shown>>

\* The bundle is in the dictionaries before its transaction runs.
SaveBundle(q) ==
    /\ At(q, "save")
    /\ LET b == requests[q].bundle IN
       cache' = [cache EXCEPT !.bundles = @ \cup {b}, !.byExecution = With(@, b.execution, b.id)]
    /\ Move(q, "commit")
    /\ UNCHANGED <<scores, leadSets, db, artifacts, shown, used>>

BundleRefused(b) == \E r \in db.bundles : r.execution = b.execution

CommitBundle(q) ==
    /\ At(q, "commit")
    /\ IF BundleRefused(requests[q].bundle)
       THEN Done(q) /\ UNCHANGED <<db, used>>
       ELSE \/ /\ db' = [db EXCEPT !.bundles = @ \cup {requests[q].bundle}]
               /\ Move(q, "got")
               /\ UNCHANGED used
            \/ Fault /\ Done(q) /\ UNCHANGED db
    /\ UNCHANGED <<scores, leadSets, cache, artifacts, shown>>

Figures(rows) == {[rank |-> rows[i].rank, lead |-> rows[i].lead, score |-> rows[i].score] : i \in DOMAIN rows}
Show(b, rows) == shown' = shown \cup
    {[bundle |-> b.id, execution |-> b.execution, figure |-> f] : f \in Figures(rows)}

AnswerPage(q) ==
    /\ At(q, "got")
    /\ requests[q].kind = "page"
    /\ \E v \in Views : Show(requests[q].bundle, LeadPage(requests[q].bundle, v))
    /\ Done(q)
    /\ UNCHANGED <<scores, leadSets, cache, db, artifacts, used>>

-----------------------------------------------------------------------------
(* create_export, once it has its bundle. *)

\* The hash covers the name of the file, which by default has the date.
Hash(r) == <<r.bundle.id, r.ask, IF r.ask.named THEN 0 ELSE r.day>>
Today(q) == [requests[q] EXCEPT !.day = used.days]
Complete(rows, phone) == phone => \A i \in DOMAIN rows : rows[i].phone
Successful(r) == IF Hash(r) \in DOMAIN cache.index THEN {cache.index[Hash(r)]} ELSE {}

\* 422: more rows than the snapshot has, or a field some row does not have.
Invalid(r) == r.ask.count > Len(r.bundle.rows) \/ ~ Complete(Slice(r.bundle.rows, 0, r.ask.count), r.ask.phone)

RejectExport(q) ==
    /\ At(q, "got")
    /\ requests[q].kind = "export"
    /\ Invalid(requests[q])
    /\ Done(q)
    /\ UNCHANGED <<scores, leadSets, cache, db, artifacts, shown, used>>

\* A request that was answered is answered with the job that did.
AnswerExisting(q) ==
    /\ At(q, "got")
    /\ requests[q].kind = "export"
    /\ ~ Invalid(requests[q])
    /\ Successful(Today(q)) # {}
    /\ Done(q)
    /\ UNCHANGED <<scores, leadSets, cache, db, artifacts, shown, used>>

CheckExport(q) ==
    /\ At(q, "got")
    /\ requests[q].kind = "export"
    /\ ~ Invalid(requests[q])
    /\ Successful(Today(q)) = {}
    /\ Fresh("jobs")
    /\ Goto(q, [Today(q) EXCEPT !.pc = "insert", !.job = used.jobs + 1])
    /\ UNCHANGED <<scores, leadSets, cache, db, artifacts, shown>>

\* The unique key of the request, and the key into the table of bundles.
\* Mutant: request hashes are not unique.
JobRefused_Variant(r) == ~ \E b \in db.bundles : b.id = r.bundle.id
JobRefused(r) ==
    \/ \E j \in DOMAIN db.jobs : db.jobs[j].hash = Hash(r)
    \/ ~ \E b \in db.bundles : b.id = r.bundle.id
JobOf(r, status) == [hash |-> Hash(r), bundle |-> r.bundle.id, count |-> r.ask.count, status |-> status]

CacheJob(r, status) == [cache EXCEPT !.jobs = With(@, r.job, JobOf(r, status))]
StoreJob(r, status) == [db EXCEPT !.jobs = With(@, r.job, JobOf(r, status))]

\* The job is saved PENDING ...
InsertJob(q) ==
    /\ At(q, "insert")
    /\ cache' = CacheJob(requests[q], "PENDING")
    /\ \/ ~ JobRefused(requests[q]) /\ db' = StoreJob(requests[q], "PENDING") /\ Move(q, "start") /\ UNCHANGED used
       \/ JobRefused(requests[q]) /\ Done(q) /\ UNCHANGED <<db, used>>
       \/ Fault /\ Done(q) /\ UNCHANGED db
    /\ UNCHANGED <<scores, leadSets, artifacts, shown>>

\* ... and after its start has been recorded GENERATING.  What is raised up to here
\* is raised to the caller, and leaves the rows as they are.
StartJob(q) ==
    /\ At(q, "start")
    /\ \/ /\ db' = StoreJob(requests[q], "GENERATING")
          /\ cache' = CacheJob(requests[q], "GENERATING")
          /\ Move(q, "generate") /\ UNCHANGED used
       \/ /\ Fault /\ Done(q) /\ UNCHANGED db
          /\ cache' = cache \/ cache' = CacheJob(requests[q], "GENERATING")
    /\ UNCHANGED <<scores, leadSets, artifacts, shown>>

\* The lead sheet of the workbook: the first rows of the bundle.
\* Mutant: the scores are looked up when the workbook is written.
Workbook_Variant(r) ==
    LET rows == Slice(r.bundle.rows, 0, r.ask.count)
    IN [i \in DOMAIN rows |-> [rows[i] EXCEPT !.score = scores.latest[rows[i].lead]]]
Workbook(r) == Slice(r.bundle.rows, 0, r.ask.count)

Generated(q) == artifacts' = With(artifacts, requests[q].job, Workbook(requests[q]))
IndexJob(r) == [CacheJob(r, "COMPLETED") EXCEPT !.index = With(@, Hash(r), r.job)]

\* Mutant: the storage logs what it could not write.
Generate_Variant(q) ==
    /\ At(q, "generate")
    /\ (Generated(q) /\ UNCHANGED used) \/ (Fault /\ UNCHANGED artifacts)
    /\ cache' = IndexJob(requests[q])
    /\ Move(q, "commit job")
    /\ UNCHANGED <<scores, leadSets, db, shown>>

\* The file is stored, the end recorded, and the dictionary and the index of
\* successful requests updated; writing the file or recording may fail ...
Generate(q) ==
    /\ At(q, "generate")
    /\ \/ Generated(q) /\ cache' = IndexJob(requests[q]) /\ Move(q, "commit job") /\ UNCHANGED used
       \/ Generated(q) /\ Fault /\ Move(q, "failed") /\ UNCHANGED cache
       \/ Fault /\ Move(q, "failed") /\ UNCHANGED <<cache, artifacts>>
    /\ UNCHANGED <<scores, leadSets, db, shown>>

\* ... then the transaction, whose failure is the export's.
CommitCompleted(q) ==
    /\ At(q, "commit job")
    /\ \/ db' = StoreJob(requests[q], "COMPLETED") /\ Done(q) /\ UNCHANGED used
       \/ Fault /\ Move(q, "failed") /\ UNCHANGED db
    /\ UNCHANGED <<scores, leadSets, cache, artifacts, shown>>

\* Recording the failure stores the job as the dictionary has it, which is COMPLETED
\* when only its transaction failed; when that raises, the job is never FAILED.
RecordFailure(q) ==
    /\ At(q, "failed")
    /\ \/ /\ db' = [db EXCEPT !.jobs = With(@, requests[q].job, cache.jobs[requests[q].job])]
          /\ Move(q, "recorded") /\ UNCHANGED used
       \/ Fault /\ Done(q) /\ UNCHANGED db
    /\ UNCHANGED <<scores, leadSets, cache, artifacts, shown>>

SaveFailed(q) ==
    /\ At(q, "recorded")
    /\ cache' = CacheJob(requests[q], "FAILED")
    /\ \/ db' = StoreJob(requests[q], "FAILED") /\ UNCHANGED used
       \/ Fault /\ UNCHANGED db
    /\ Done(q)
    /\ UNCHANGED <<scores, leadSets, artifacts, shown>>

\* GET /api/exports/{id}/download: the file of a job that is COMPLETED.
Download(j) ==
    /\ cache.jobs[j].status = "COMPLETED"
    /\ j \in DOMAIN artifacts
    /\ \E b \in BundleOf(cache.jobs[j].bundle) : Show(b, artifacts[j])
    /\ UNCHANGED <<scores, leadSets, cache, db, artifacts, requests, used>>

-----------------------------------------------------------------------------
\* What the constructors read back from the tables.
ExecutionsRead == Ordered(db.executions, [e \in db.executions |-> -e.id])
BundlesRead == [e \in {b.execution : b \in db.bundles} |->
                   (CHOOSE b \in db.bundles : b.execution = e).id]
IndexRead == LET done == {j \in DOMAIN db.jobs : db.jobs[j].status = "COMPLETED"} IN
             [h \in {db.jobs[j].hash : j \in done} |-> CHOOSE j \in done : db.jobs[j].hash = h]

\* The process dies, its requests with it, and starts again.
Hydrate ==
    /\ cache' = [executions |-> ExecutionsRead, bundles |-> db.bundles, byExecution |-> BundlesRead,
                 jobs |-> db.jobs, index |-> IndexRead]
    /\ requests' = [q \in Servers |-> Idle]
    /\ scores' = [scores EXCEPT !.busy = FALSE]
    /\ UNCHANGED <<leadSets, db, artifacts, shown>>

Restart ==
    /\ used.restarts < MaxRestarts
    /\ Fresh("restarts")
    /\ Hydrate

NextDay ==
    /\ used.days < MaxDays
    /\ Fresh("days")
    /\ UNCHANGED <<scores, leadSets, cache, db, artifacts, requests, shown>>

Serve(q) ==
    \/ AskPage(q)
    \/ \E snapshot \in 1..used.bundles \cup {None}, ask \in Exports : AskExport(q, snapshot, ask)
    \/ GetBundle(q) \/ FreezeCached(q) \/ FreezeBuild(q) \/ SaveBundle(q) \/ CommitBundle(q)
    \/ AnswerPage(q) \/ RejectExport(q) \/ AnswerExisting(q) \/ CheckExport(q) \/ InsertJob(q)
    \/ StartJob(q) \/ Generate(q) \/ CommitCompleted(q) \/ RecordFailure(q) \/ SaveFailed(q)

Next ==
    \/ \E s \in Scorings : Score(s)
    \/ \E lead \in Leads : SaveScore(lead)
    \/ SaveLeadSet
    \/ Promote
    \/ \E q \in Servers : Serve(q)
    \/ \E j \in DOMAIN cache.jobs : Download(j)
    \/ Restart \/ NextDay

Spec == Init /\ [][Next]_vars

-----------------------------------------------------------------------------
(* Properties. *)

Stored(id) == \E b \in db.bundles : b.id = id
Agree(x, y) == x.figure.lead = y.figure.lead => x.figure = y.figure

\* Whatever was answered about an execution from snapshots that are stored, on
\* a page, in a lead's detail or in a workbook, before and after restarts and
\* scorings, gives each lead one rank and one score.
FiguresAgree ==
    \A x, y \in shown :
        (x.execution = y.execution /\ Stored(x.bundle) /\ Stored(y.bundle)) => Agree(x, y)

\* A job that is stored as COMPLETED has its file, with the first rows of the
\* snapshot the job names.
ArtifactKept ==
    \A j \in DOMAIN db.jobs : db.jobs[j].status = "COMPLETED" =>
        /\ j \in DOMAIN artifacts
        /\ \E b \in db.bundles : /\ b.id = db.jobs[j].bundle
                                 /\ artifacts[j] = Slice(b.rows, 0, db.jobs[j].count)

\* One request, however often it is made, by however many requests at a time
\* and across failures and restarts, is generated to the end once; one that leaves
\* the name of its file open is another request on another day.
OneFilePerRequest ==
    \A i, j \in DOMAIN db.jobs :
        (db.jobs[i].hash = db.jobs[j].hash /\ db.jobs[i].status = "COMPLETED" /\ db.jobs[j].status = "COMPLETED")
            => i = j

\* README.md:19 says that the workspace and the workbooks never show two sets
\* of figures: of one execution, whatever snapshot an answer names.
OneSetOfFigures == \A x, y \in shown : x.execution = y.execution => Agree(x, y)

\* A lead ranks above another only if it scores no less.
RanksFollowScores ==
    \A b \in cache.bundles : \A i, j \in DOMAIN b.rows : i < j => b.rows[i].score >= b.rows[j].score

\* What the index of successful requests points at is a completed job.
IndexedIsCompleted == \A h \in DOMAIN cache.index : cache.jobs[cache.index[h]].status = "COMPLETED"
=============================================================================
