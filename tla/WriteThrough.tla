----------------------------- MODULE WriteThrough -----------------------------
(***************************************************************************)
(* The write-through repositories of app/repositories/postgres_business.py. *)
(* Each keeps a dictionary in the process and a table in the database: a   *)
(* save changes the dictionary and then runs one transaction, a read looks *)
(* at the dictionary alone, and a start of the process rebuilds it from the *)
(* rows of the table.                                                      *)
(*                                                                         *)
(* A row has the id the process gave it, a natural key (its subject, what  *)
(* it is about, and a version of that subject), a value and the time it    *)
(* was made.  The repositories differ in how the dictionary treats a second *)
(* row of one natural key, how the table treats it, which keys are unique, *)
(* whether the table has a column for every field of the object and whether *)
(* the rows are read back in an order; a behaviour is about one of them,   *)
(* chosen at the start.                                                    *)
(***************************************************************************)
EXTENDS Integers, FiniteSets, SequencesExt

CONSTANTS
    Subjects,      \* tasks, enterprises, candidates: what rows are about
    Versions,      \* what tells the rows of a subject apart: a version, a hash
    Values,        \* what an object says: a set of facts, one for each field or list item
    Columns,       \* the facts a table that lacks columns has a column for
    MaxSaves,      \* bound on the calls of save
    MaxFaults,     \* bound on the transactions the database fails
    MaxRestarts    \* bound on the restarts of the process

VARIABLES
    repository,    \* the repository this behaviour is about
    cache,         \* its dictionary: the values in the order of insertion
    table,         \* the rows of its table
    pending,       \* calls of save whose transaction has not run yet
    unsaved,       \* keys whose last save raised, so its caller was told
    used           \* counters for the bounds, and the clock

storeVars == <<repository, cache, table, pending, unsaved, used>>

Name(r) == <<r.subject, r.version>>

-----------------------------------------------------------------------------
(* The repositories. *)

\* A dictionary by id, a table by id with a column for every field, and rows read back
\* in no order.  The rest, the fields without a column, gets its default at a start or
\* is rebuilt from the rows of another table.
Plain == [key |-> "id", cached |-> "put", stored |-> "merge",
          unique |-> FALSE, sorted |-> FALSE, latest |-> FALSE, rest |-> "none"]

\* What is read back in an order, for each class: the loops of its _load.
ResearchLoad == [runs |-> FALSE, plans |-> FALSE, tools |-> FALSE]
EnterpriseLoad == [runs |-> FALSE, links |-> FALSE, locations |-> FALSE]
EvidenceLoad == [runs |-> FALSE, evidence |-> FALSE, fields |-> TRUE, profiles |-> TRUE]
ScoreLoad == [profiles |-> FALSE, scores |-> TRUE, reasons |-> FALSE, sets |-> TRUE]
RuleLoad == [rules |-> FALSE, criteria |-> FALSE]
MutationLoad == [mutations |-> TRUE, plans |-> TRUE]

SearchPlans == [Plain EXCEPT !.sorted = ResearchLoad.plans]
ResearchRuns == [Plain EXCEPT !.sorted = ResearchLoad.runs, !.latest = TRUE]
RunRecords == ResearchRuns
RunEvents == ResearchRuns
Candidates == Plain
CandidateSets == Plain
Sources == Plain
ToolRuns == [Plain EXCEPT !.stored = "first", !.sorted = ResearchLoad.tools]
Batches == Plain

ResolutionRuns == [Plain EXCEPT !.sorted = EnterpriseLoad.runs, !.latest = TRUE]
Enterprises == [Plain EXCEPT !.rest = "rebuilt"]
CandidateLinks == [Plain EXCEPT !.key = "subject", !.stored = "name", !.sorted = EnterpriseLoad.links]
Locations == [Plain EXCEPT !.cached = "join", !.sorted = EnterpriseLoad.locations]
Decisions == Plain
Relations == Plain

VerificationRuns == [Plain EXCEPT !.sorted = EvidenceLoad.runs, !.latest = TRUE,
                                  !.rest = "rebuilt"]
EvidenceRows == [Plain EXCEPT !.cached = "same id", !.sorted = EvidenceLoad.evidence]
ResolvedFields == [Plain EXCEPT !.key = "subject", !.cached = "after",
                                !.stored = "name", !.sorted = EvidenceLoad.fields]
VerifiedProfiles == [Plain EXCEPT !.sorted = EvidenceLoad.profiles, !.latest = TRUE]

ScoringProfiles == [Plain EXCEPT !.cached = "immutable", !.unique = TRUE, !.sorted = ScoreLoad.profiles]
LeadScores == [Plain EXCEPT !.sorted = ScoreLoad.scores, !.latest = TRUE]
Reasons == [Plain EXCEPT !.key = "name", !.stored = "name", !.sorted = ScoreLoad.reasons]
LeadSets == [Plain EXCEPT !.sorted = ScoreLoad.sets]

BusinessRules == [Plain EXCEPT !.cached = "once", !.unique = TRUE, !.sorted = RuleLoad.rules,
                               !.rest = "default"]
MarketingRules == BusinessRules
Criteria == [Plain EXCEPT !.cached = "once", !.sorted = RuleLoad.criteria]

Mutations == [Plain EXCEPT !.cached = "once", !.unique = TRUE, !.sorted = MutationLoad.mutations]
ReexecutionPlans == [Plain EXCEPT !.sorted = MutationLoad.plans]
ExecutionSnapshots == [Plain EXCEPT !.unique = TRUE, !.sorted = TRUE, !.latest = TRUE]
DeliveryBundles == [Plain EXCEPT !.unique = TRUE]
ExportJobs == [Plain EXCEPT !.unique = TRUE, !.sorted = TRUE]

Repositories ==
    {SearchPlans, ResearchRuns, RunEvents, Candidates, CandidateSets, Sources, ToolRuns, Batches,
     ResolutionRuns, Enterprises, CandidateLinks, Locations, Decisions, Relations,
     VerificationRuns, EvidenceRows, ResolvedFields, VerifiedProfiles,
     ScoringProfiles, LeadScores, Reasons, LeadSets, BusinessRules, MarketingRules, Criteria,
     Mutations, ReexecutionPlans, ExecutionSnapshots, DeliveryBundles, ExportJobs}

-----------------------------------------------------------------------------
(* The dictionary. *)

Key(r) == IF repository.key = "id" THEN r.id
          ELSE IF repository.key = "subject" THEN r.subject ELSE Name(r)

\* Assigning to a key a dictionary has keeps the key's place.
Put(c, r) ==
    IF \E i \in DOMAIN c : Key(c[i]) = Key(r)
    THEN [i \in DOMAIN c |-> IF Key(c[i]) = Key(r) THEN r ELSE c[i]]
    ELSE Append(c, r)

\* Where the dictionary has the natural key of r: a save would repeat the first.
Twins(r) == {i \in DOMAIN cache : Name(cache[i]) = Name(r)}

Once(twin, r) == twin
SameId(twin, r) == [r EXCEPT !.id = twin.id]
Joined(twin, r) == [twin EXCEPT !.value = @ \cup r.value]

\* A second scoring profile of one version must say the same.
Immutable(r) ==
    repository.cached = "immutable" => \A i \in Twins(r) : cache[i].value = r.value

\* What the dictionary holds for r after it was saved, which is what save
\* returns and what the transaction writes.
Saved(r) ==
    IF Twins(r) = {} THEN r
    ELSE LET twin == cache[Min(Twins(r))] IN
         CASE repository.cached \in {"once", "immutable"} -> Once(twin, r)
           [] repository.cached = "same id" -> SameId(twin, r)
           [] repository.cached = "join"    -> Joined(twin, r)
           [] OTHER                         -> r

\* What the table has of a value.
Kept(x) == IF repository.rest = "none" THEN x ELSE x \cap Columns

\* The object of a key, as a get returns it, what of it has a column, and the last row
\* about a subject.
Get(c, k) == {[subject |-> c[i].subject, version |-> c[i].version, value |-> c[i].value] :
                 i \in {j \in DOMAIN c : Key(c[j]) = k}}
GetKept(c, k) == {[g EXCEPT !.value = Kept(@)] : g \in Get(c, k)}
LatestOf(c, s) == LET about == {i \in DOMAIN c : c[i].subject = s}
                  IN {Name(c[i]) : i \in {j \in about : \A k \in about : k <= j}}

-----------------------------------------------------------------------------
(* The table. *)

\* The row made of an object: what has no column is left out.
RowOf(r) == [r EXCEPT !.value = Kept(@)]

Holders(r) == {t \in table : Name(t) = Name(r)}

\* A transaction meets a unique key some other row holds.
Refused(r) == repository.unique /\ \E t \in Holders(r) : t.id # r.id

\* The id of the stored row is kept when it is found by its natural key.
StoredByName(r) == (table \ Holders(r)) \cup
    {IF Holders(r) = {} THEN r ELSE [r EXCEPT !.id = (CHOOSE t \in Holders(r) : TRUE).id]}
StoredFirst(r) == IF Holders(r) = {} THEN table \cup {r} ELSE table
\* Mutant: a row that exists is left as it is, as the asynchronous adapters do.
StoredById_Variant(r) == IF \E t \in table : t.id = r.id THEN table ELSE table \cup {r}
StoredById(r) == {t \in table : t.id # r.id} \cup {r}

TableWith(r) == CASE repository.stored = "name"  -> StoredByName(r)
                  [] repository.stored = "first" -> StoredFirst(r)
                  [] OTHER                       -> StoredById(r)

\* The dictionaries a start may build: the rows in the order of their times
\* where the query orders them, in any order where it does not, and in them the
\* facts that are rebuilt, whatever the other table has of them.
\* Mutant: the query has no ORDER BY.
InOrder_Variant(q) == Len(q) = Cardinality(table)
InOrder(q) == \A i, j \in DOMAIN q : i < j => q[i].at < q[j].at
Read(q) ==
    LET read[n \in 0..Len(q)] == IF n = 0 THEN <<>> ELSE Put(read[n - 1], q[n])
    IN  read[Len(q)]
Elsewhere == IF repository.rest = "rebuilt" THEN (UNION Values) \ Columns ELSE {}
Rebuilt(c) == {[i \in DOMAIN c |-> [c[i] EXCEPT !.value = @ \cup more[i]]] :
                  more \in [DOMAIN c -> SUBSET Elsewhere]}
Hydrated == UNION {Rebuilt(Read(q)) : q \in {p \in SetToSeqs(table) : repository.sorted => InOrder(p)}}

-----------------------------------------------------------------------------
StoreInit ==
    /\ repository \in Repositories
    /\ cache = <<>>
    /\ table = {}
    /\ pending = {}
    /\ unsaved = {}
    /\ used = [saves |-> 0, faults |-> 0, restarts |-> 0]

\* The first half of a save: the dictionary.  Who may write a subject runs
\* alone: the lease of its conversation serialises them.
Begin(r) ==
    /\ used.saves < MaxSaves
    /\ \A p \in pending : p.subject # r.subject
    /\ used' = [used EXCEPT !.saves = @ + 1]
    /\ cache' = IF repository.cached = "after" THEN cache ELSE Put(cache, r)
    /\ pending' = pending \cup {r}
    /\ UNCHANGED <<repository, table, unsaved>>

\* A value made now.
SaveNew(s, v, x) ==
    LET made == [id |-> used.saves + 1, subject |-> s, version |-> v, value |-> x, at |-> used.saves + 1]
    IN Immutable(made) /\ Begin(Saved(made))

\* A value the process holds, saved again with another content.
SaveAgain(i, x) ==
    /\ repository.cached = "put" \/ repository = Mutations
    /\ repository.key = "id"
    /\ cache[i].value # x
    /\ Begin([cache[i] EXCEPT !.value = x])

\* The second half: the transaction.  save_resolved_field alone runs it before
\* it touches the dictionary.
Commit(r) ==
    /\ r \in pending
    /\ ~ Refused(r)
    /\ pending' = pending \ {r}
    /\ table' = TableWith(RowOf(r))
    /\ cache' = IF repository.cached = "after" THEN Put(cache, r) ELSE cache
    /\ unsaved' = unsaved \ {Key(r)}
    /\ UNCHANGED <<repository, used>>

\* The transaction raises, through the save, to its caller.
Raise(r) ==
    /\ r \in pending
    /\ \/ Refused(r) /\ UNCHANGED used
       \/ used.faults < MaxFaults /\ used' = [used EXCEPT !.faults = @ + 1]
    /\ pending' = pending \ {r}
    /\ unsaved' = IF repository.cached = "after" THEN unsaved ELSE unsaved \cup {Key(r)}
    /\ UNCHANGED <<repository, cache, table>>

\* The process dies and starts: the dictionary is what the rows make of it.
Restart ==
    /\ used.restarts < MaxRestarts
    /\ used' = [used EXCEPT !.restarts = @ + 1]
    /\ cache' \in Hydrated
    /\ pending' = {}
    /\ unsaved' = {}
    /\ UNCHANGED <<repository, table>>

StoreNext ==
    \/ \E s \in Subjects, v \in Versions, x \in Values : SaveNew(s, v, x)
    \/ \E i \in DOMAIN cache, x \in Values : SaveAgain(i, x)
    \/ \E r \in pending : Commit(r) \/ Raise(r)
    \/ Restart

StoreSpec == StoreInit /\ [][StoreNext]_storeVars

-----------------------------------------------------------------------------
(* Properties. *)

\* A key whose save is running or raised: what it reads is not promised.
Unsettled == unsaved \cup {Key(r) : r \in pending}
Keys == {Key(cache[i]) : i \in DOMAIN cache} \cup {Key(t) : t \in table}

\* Every save that returned is durable: a start of the process, whatever the
\* order its rows come in, reads back under each key the version the process
\* reads now, with all of its value that the table has a column for, and no other.
\* Tool runs, whose table keeps the first row of a request, and links, whose
\* dictionary keeps one row of a candidate, are not among the repositories it
\* holds for.
RestartKeepsRows ==
    (repository.stored # "first" /\ repository # CandidateLinks) =>
        \A c \in Hydrated, k \in Keys \ Unsettled : GetKept(c, k) = GetKept(cache, k)

\* Where the rows are read back in an order, the last row about a subject is
\* after a start the one it was before: the current snapshot, profile, score.
RestartKeepsLatest ==
    repository.sorted =>
        \A c \in Hydrated, s \in Subjects :
            (\A r \in pending \cup {cache[i] : i \in DOMAIN cache} : r.subject = s => Key(r) \notin Unsettled)
                => LatestOf(c, s) = LatestOf(cache, s)

\* postgres_business.py:6 and :7 say that the cache only accelerates and that
\* the database is the source of truth: what the code reads as the latest of a
\* task is then the same before and after a start.
CacheOnlyAccelerates ==
    repository.latest =>
        \A c \in Hydrated, s \in Subjects :
            Unsettled = {} => LatestOf(c, s) = LatestOf(cache, s)

\* The same of the objects themselves: what a get returns is then the same before and
\* after a start, the fields without a column included.
ObjectsKept == (repository.stored # "first" /\ repository # CandidateLinks) =>
    \A c \in Hydrated, k \in Keys \ Unsettled : Get(c, k) = Get(cache, k)

\* The same of a candidate's link to its enterprise.
LinkKept == repository = CandidateLinks =>
    \A c \in Hydrated, k \in Keys \ Unsettled : Get(c, k) = Get(cache, k)

\* The same of the record of a call: a success after a recorded failure.
ToolRunKept == repository = ToolRuns =>
    \A c \in Hydrated, k \in Keys \ Unsettled : Get(c, k) = Get(cache, k)
=============================================================================
