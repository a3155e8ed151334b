---------------------------- MODULE DeliveryProofs ----------------------------
(***************************************************************************)
(* What app/delivery and app/exports promise about the figures of a task   *)
(* version and the files made of them, for every number of leads, servers, *)
(* exports, scorings, failures and restarts: FiguresAgree, ArtifactKept    *)
(* and OneFilePerRequest of module Delivery.                               *)
(*                                                                         *)
(* None is inductive: a bundle is held by a request, a dictionary and a    *)
(* table at different times, and a job by a request, two maps and a file.  *)
(* The inductive invariant IInv says that they hold the same one: an id    *)
(* names one bundle wherever it is held, with every lead in one row, every *)
(* answer agrees with the bundle it names, and the request that writes a   *)
(* job agrees with its row, which no other request writes.                 *)
(***************************************************************************)
EXTENDS Delivery, FiniteSetTheorems, SequenceTheorems, TLAPS

Writing == {"start", "generate", "commit job", "failed", "recorded"}
Exporting == {"insert"} \cup Writing
Pcs == {"freeze", "save", "commit", "got"} \cup Exporting

Execution == [id : Nat, set : Nat]
Row == [rank : Nat, lead : Leads, score : Nat, phone : BOOLEAN]
Bundle == [id : Nat, execution : Nat, rows : Seq(Row)]
Request == [pc : Pcs, kind : {"page", "export"}, snapshot : Nat \cup {None},
            ask : Exports \cup {None}, bundle : Bundle \cup {None}, job : Nat \cup {None}, day : Nat]

\* A request knows its bundle once it is frozen, its job once it has one.
RequestOK(r) ==
    /\ r \in Request
    /\ r.kind = "export" => r.ask \in Exports
    /\ r.pc # "freeze" => r.bundle \in Bundle
    /\ r.pc \in Exporting => r.kind = "export" /\ r.job \in Nat

Counters == [scorings : Nat, executions : Nat, bundles : Nat, jobs : Nat,
             requests : Nat, faults : Nat, restarts : Nat, days : Nat]
Types ==
    /\ scores \in [latest : [Leads -> Nat], busy : BOOLEAN, given : [Leads -> Nat], left : SUBSET Leads]
    /\ cache = [executions |-> cache.executions, bundles |-> cache.bundles,
                byExecution |-> cache.byExecution, jobs |-> cache.jobs, index |-> cache.index]
    /\ db = [executions |-> db.executions, bundles |-> db.bundles, jobs |-> db.jobs]
    /\ used \in Counters
    /\ DOMAIN requests = Servers
    /\ \A q \in Servers : requests[q] = Idle \/ RequestOK(requests[q])

\* A scoring ranks each lead once, and an execution names a scoring.
OnceEach(s) == \A i, j \in DOMAIN s : s[i] = s[j] => i = j
ExecutionOK(e) == e \in Execution /\ e.set \in DOMAIN leadSets
Versions ==
    /\ leadSets \in Seq(Seq(Leads))
    /\ \A n \in DOMAIN leadSets : OnceEach(leadSets[n])
    /\ cache.executions \in Seq(Execution) /\ cache.executions # <<>>
    /\ \A n \in DOMAIN cache.executions : ExecutionOK(cache.executions[n])
    /\ \E e \in db.executions : db.executions = {e} /\ ExecutionOK(e)

\* The bundles in a request's hand, and all that are known.
Holds(q) == requests[q].pc \notin {"idle", "freeze"}
Held == {requests[q].bundle : q \in {p \in Servers : Holds(p)}}
Known == db.bundles \cup cache.bundles \cup Held

LeadsOnce(rows) == \A i, j \in DOMAIN rows : rows[i].lead = rows[j].lead => i = j
Bundles ==
    /\ \A b \in Known : b \in Bundle /\ b.id \in 1..used.bundles /\ LeadsOnce(b.rows)
    /\ \A a, b \in Known : a.id = b.id => a = b
    /\ \A a, b \in db.bundles : a.execution = b.execution => a = b

Answers ==
    \A x \in shown :
        /\ x.bundle \in 1..used.bundles
        /\ \A b \in Known : b.id = x.bundle => x.execution = b.execution /\ x.figure \in Figures(b.rows)

\* What makes a file: the bundle and the number of rows.
SameFile(i, j) == i.bundle = j.bundle /\ i.count = j.count
Writes(q) == requests[q].pc \in Writing
Cached(r) == r.job \in DOMAIN cache.jobs /\ \E status : cache.jobs[r.job] = JobOf(r, status)
WriterOK(r) ==
    /\ Cached(r)
    /\ r.job \in DOMAIN db.jobs
    /\ db.jobs[r.job].hash = Hash(r) /\ SameFile(db.jobs[r.job], JobOf(r, "GENERATING"))
    /\ r.bundle \in db.bundles
Jobs ==
    /\ DOMAIN db.jobs \subseteq 1..used.jobs
    /\ \A j \in DOMAIN db.jobs : db.jobs[j].bundle \in 1..used.bundles /\ db.jobs[j].count \in Nat
    /\ \A i, j \in DOMAIN db.jobs : db.jobs[i].hash = db.jobs[j].hash => i = j
    /\ \A j \in DOMAIN db.jobs \cap DOMAIN cache.jobs : SameFile(db.jobs[j], cache.jobs[j])
    /\ \A q \in Servers : requests[q].pc \in Exporting => requests[q].job \in 1..used.jobs
    /\ \A p, q \in Servers :
          requests[p].pc \in Exporting /\ requests[q].pc \in Exporting
              /\ requests[p].job = requests[q].job => p = q
    /\ \A q \in Servers : At(q, "insert") => requests[q].job \notin DOMAIN db.jobs
    /\ \A q \in Servers : Writes(q) => WriterOK(requests[q])

Files ==
    /\ DOMAIN artifacts \subseteq DOMAIN db.jobs
    /\ \A j \in DOMAIN artifacts : \E b \in db.bundles :
          b.id = db.jobs[j].bundle /\ artifacts[j] = Slice(b.rows, 0, db.jobs[j].count)
    /\ \A j \in DOMAIN db.jobs : db.jobs[j].status = "COMPLETED" => j \in DOMAIN artifacts
    /\ \A j \in DOMAIN cache.jobs : cache.jobs[j].status = "COMPLETED" => j \in DOMAIN artifacts
    /\ \A q \in Servers : At(q, "commit job") => requests[q].job \in DOMAIN artifacts

IInv == Types /\ Versions /\ Bundles /\ Answers /\ Jobs /\ Files

-----------------------------------------------------------------------------
(* Sets put in an order. *)

\* Of some subsets of a finite set one has no smaller one among them.
LEMMA SmallestSubset ==
    ASSUME NEW S, IsFiniteSet(S), NEW B \in SUBSET SUBSET S, B # {}
    PROVE  \E T \in B : IsFiniteSet(T) /\ \A x \in T : T \ {x} \notin B
<1>1. \A T \in B : T \in SUBSET S /\ IsFiniteSet(T)
    BY FS_Subset
<1>2. B \subseteq FiniteSubsetsOf(S)
    BY <1>1 DEF FiniteSubsetsOf
<1>3. PICK T \in B : \A U \in B : <<U, T>> \notin StrictSubsetOrdering(S)
    BY <1>2, FS_StrictSubsetOrderingWellFounded, WFMin
<1>4. ASSUME NEW x \in T, T \ {x} \in B PROVE FALSE
    <2>1. T \ {x} \subseteq T /\ T \ {x} # T
        OBVIOUS
    <2>2. T \in SUBSET S /\ T \ {x} \in SUBSET S
        OBVIOUS
    <2>3. <<T \ {x}, T>> \in StrictSubsetOrdering(S)
        BY <2>1, <2>2 DEF StrictSubsetOrdering
    <2>4. QED
        BY <1>3, <1>4, <2>3
<1>5. QED
    BY <1>1, <1>3, <1>4

\* Some member has the least number.
LEMMA LeastMember ==
    ASSUME NEW S, IsFiniteSet(S), S # {}, NEW key \in [S -> Int]
    PROVE  \E x \in S : \A y \in S : key[x] <= key[y]
<1> DEFINE B == {T \in SUBSET S : T # {} /\ \A x \in T : \E y \in T : ~(key[x] <= key[y])}
<1>1. CASE B = {}
    BY <1>1
<1>2. CASE B # {}
    <2>1. PICK T \in B : \A x \in T : T \ {x} \notin B
        BY <1>2, SmallestSubset
    <2>2. PICK x \in T : TRUE
        OBVIOUS
    <2>3. T \ {x} # {}
        OBVIOUS
    <2>4. PICK y \in T \ {x} : \A z \in T \ {x} : key[y] <= key[z]
        BY <2>1, <2>3
    <2>5. \A z \in T : key[z] \in Int
        OBVIOUS
    <2>6. (\A z \in T : key[x] <= key[z]) \/ (\A z \in T : key[y] <= key[z])
        BY <2>4, <2>5
    <2>7. QED
        BY <2>6
<1>3. QED
    BY <1>1, <1>2

Sorted(S, key) == {q \in SetToSeqs(S) : \A i, j \in DOMAIN q : i < j => key[q[i]] >= key[q[j]]}

\* A finite set has an order.
LEMMA SortedExists ==
    ASSUME NEW S, IsFiniteSet(S), NEW key \in [S -> Int]
    PROVE  Sorted(S, key) # {}
<1> DEFINE B == {T \in SUBSET S : Sorted(T, key) = {}}
<1>1. CASE B = {}
    BY <1>1
<1>2. CASE B # {}
    <2>1. PICK T \in B : IsFiniteSet(T) /\ \A x \in T : T \ {x} \notin B
        BY <1>2, SmallestSubset
    <2>2. CASE T = {}
        <3>1. Cardinality(T) = 0
            BY <2>2, FS_EmptySet
        <3>2. <<>> \in Sorted(T, key)
            BY <2>2, <3>1 DEF Sorted, SetToSeqs
        <3>3. QED
            BY <3>2
    <2>3. CASE T # {}
        <3>1. PICK x \in T : \A y \in T : key[x] <= key[y]
            <4>1. [y \in T |-> key[y]] \in [T -> Int]
                OBVIOUS
            <4>2. \E x \in T : \A y \in T : [z \in T |-> key[z]][x] <= [z \in T |-> key[z]][y]
                BY <2>1, <2>3, <4>1, LeastMember
            <4>3. QED
                BY <4>2
        <3>2. PICK n \in Nat : n = Cardinality(T \ {x}) /\ Cardinality(T) = n + 1
            <4>1. IsFiniteSet(T \ {x}) /\ Cardinality(T \ {x}) = Cardinality(T) - 1
                BY <2>1, FS_RemoveElement
            <4>2. Cardinality(T) \in Nat /\ Cardinality(T \ {x}) \in Nat
                BY <2>1, <4>1, FS_CardinalityType
            <4>3. QED
                BY <4>1, <4>2
        <3>3. PICK q \in Sorted(T \ {x}, key) : TRUE
            BY <2>1
        <3>4. /\ q \in [1..n -> T \ {x}] /\ \A i, j \in 1..n : i # j => q[i] # q[j]
              /\ \A i, j \in 1..n : i < j => key[q[i]] >= key[q[j]]
            BY <3>2, <3>3 DEF Sorted, SetToSeqs
        <3>5. PICK p : p = [i \in 1..(n + 1) |-> IF i = n + 1 THEN x ELSE q[i]]
            OBVIOUS
        <3>6. p \in [1..(n + 1) -> T]
            BY <3>4, <3>5
        <3>7. \A i, j \in 1..(n + 1) : i # j => p[i] # p[j]
            BY <3>4, <3>5
        <3>8. \A i, j \in 1..(n + 1) : i < j => key[p[i]] >= key[p[j]]
            BY <3>1, <3>4, <3>5
        <3>9. p \in Sorted(T, key)
            BY <3>2, <3>6, <3>7, <3>8 DEF Sorted, SetToSeqs
        <3>10. QED
            BY <3>9
    <2>4. QED
        BY <2>2, <2>3
<1>3. QED
    BY <1>1, <1>2

\* An ordered set is a sequence with each of its members in one place.
LEMMA OrderedLemma ==
    ASSUME NEW S, IsFiniteSet(S), NEW key \in [S -> Int]
    PROVE  /\ Ordered(S, key) \in Seq(S) /\ OnceEach(Ordered(S, key))
           /\ Len(Ordered(S, key)) = Cardinality(S)
<1>1. Ordered(S, key) \in SetToSeqs(S)
    BY SortedExists DEF Sorted, Ordered
<1>2. Cardinality(S) \in Nat
    BY FS_CardinalityType
<1>3. QED
    BY <1>1, <1>2, SeqDef DEF SetToSeqs, OnceEach

-----------------------------------------------------------------------------
(* Dictionaries, and pages of rows. *)

\* All rows of one sequence are rows of another.
Within(part, rows) == \A i \in DOMAIN part : \E k \in DOMAIN rows : part[i] = rows[k]

LEMMA SliceLemma ==
    ASSUME NEW S, NEW rows \in Seq(S), NEW from \in Nat, NEW to \in Nat
    PROVE  Slice(rows, from, to) \in Seq(S) /\ Within(Slice(rows, from, to), rows)
<1>1. Len(rows) \in Nat /\ DOMAIN rows = 1..Len(rows) /\ \A i \in 1..Len(rows) : rows[i] \in S
    BY LenProperties, ElementOfSeq
<1>2. PICK n \in Nat : n = Min({to, Len(rows)}) /\ n <= Len(rows)
    <2>1. PICK len \in Nat : len = Len(rows)
        BY <1>1
    <2>2. \E x \in {to, len} : \A y \in {to, len} : x <= y
        OBVIOUS
    <2>3. Min({to, len}) \in {to, len} /\ \A y \in {to, len} : Min({to, len}) <= y
        BY <2>2 DEF Min
    <2>4. QED
        BY <2>1, <2>3
<1>3. \A i \in (from + 1)..n : rows[i] \in S
    BY <1>1, <1>2
<1>4. /\ SubSeq(rows, from + 1, n) \in Seq(S)
      /\ Len(SubSeq(rows, from + 1, n)) = IF from + 1 <= n THEN n - (from + 1) + 1 ELSE 0
      /\ \A i \in 1..(n - (from + 1) + 1) : SubSeq(rows, from + 1, n)[i] = rows[from + 1 + i - 1]
    <2>1. from + 1 \in Int /\ n \in Int
        OBVIOUS
    <2>2. QED
        BY <1>3, <2>1, SubSeqProperties
<1>5. DOMAIN SubSeq(rows, from + 1, n) = 1..Len(SubSeq(rows, from + 1, n))
    BY <1>4, LenProperties
<1>6. ASSUME NEW i \in DOMAIN SubSeq(rows, from + 1, n)
      PROVE  \E k \in DOMAIN rows : SubSeq(rows, from + 1, n)[i] = rows[k]
    <2>1. i \in 1..(n - (from + 1) + 1) /\ from + 1 + i - 1 \in 1..Len(rows)
        BY <1>1, <1>2, <1>4, <1>5
    <2>2. QED
        BY <1>1, <1>4, <2>1
<1>7. QED
    BY <1>2, <1>4, <1>6 DEF Slice, Within

LEMMA FilteredLemma ==
    ASSUME NEW S, NEW rows \in Seq(S), NEW least
    PROVE  Filtered(rows, least) \in Seq(S) /\ Within(Filtered(rows, least), rows)
<1>1. Len(rows) \in Nat /\ DOMAIN rows = 1..Len(rows) /\ \A i \in 1..Len(rows) : rows[i] \in S
    BY LenProperties, ElementOfSeq
<1>2. PICK kept : kept = {i \in DOMAIN rows : rows[i].score >= least}
    OBVIOUS
<1>3. IsFiniteSet(kept) /\ [i \in kept |-> -i] \in [kept -> Int]
    <2>1. IsFiniteSet(1..Len(rows))
        BY <1>1, FS_Interval
    <2>2. IsFiniteSet(kept)
        BY <1>1, <1>2, <2>1, FS_Subset
    <2>3. QED
        BY <1>1, <1>2, <2>2
<1>4. PICK order \in Seq(kept) : order = Ordered(kept, [i \in kept |-> -i])
    BY <1>3, OrderedLemma
<1>5. Len(order) \in Nat /\ DOMAIN order = 1..Len(order) /\ \A n \in 1..Len(order) : order[n] \in kept
    BY <1>4, LenProperties, ElementOfSeq
<1>6. Filtered(rows, least) = [n \in DOMAIN order |-> rows[order[n]]]
    BY <1>2, <1>4 DEF Filtered
<1>7. Filtered(rows, least) \in [1..Len(order) -> S]
    BY <1>1, <1>2, <1>5, <1>6
<1>8. QED
    BY <1>2, <1>5, <1>6, <1>7, SeqDef DEF Within

LEMMA PageLemma ==
    ASSUME NEW b \in Bundle, NEW v \in Views
    PROVE  Within(LeadPage(b, v), b.rows)
<1>1. b.rows \in Seq(Row)
    BY DEF Bundle
<1>2. /\ Filtered(b.rows, v.least) \in Seq(Row)
      /\ Within(Filtered(b.rows, v.least), b.rows)
    BY <1>1, FilteredLemma
<1>3. PICK items \in Seq(Row) : items = InView(Filtered(b.rows, v.least), v.order) /\ Within(items, b.rows)
    <2>1. PICK kept \in Seq(Row) : kept = Filtered(b.rows, v.least) /\ Within(kept, b.rows)
        BY <1>2
    <2>2. Len(kept) \in Nat /\ DOMAIN kept = 1..Len(kept) /\ kept \in [1..Len(kept) -> Row]
        BY LenProperties
    <2>3. Reverse(kept) = [i \in 1..Len(kept) |-> kept[(Len(kept) - i) + 1]]
        BY DEF Reverse
    <2>4. \A i \in 1..Len(kept) : (Len(kept) - i) + 1 \in 1..Len(kept)
        BY <2>2
    <2>5. Reverse(kept) \in [1..Len(kept) -> Row] /\ Within(Reverse(kept), b.rows)
        <3>1. \A i \in 1..Len(kept) : Reverse(kept)[i] = kept[(Len(kept) - i) + 1]
            BY <2>3
        <3>2. Reverse(kept) \in [1..Len(kept) -> Row]
            BY <2>2, <2>3, <2>4
        <3>3. Within(Reverse(kept), kept)
            BY <2>2, <2>3, <2>4, <3>1 DEF Within
        <3>4. QED
            BY <2>1, <3>2, <3>3 DEF Within
    <2>6. Reverse(kept) \in Seq(Row)
        BY <2>2, <2>5, SeqDef
    <2>7. QED
        BY <2>1, <2>5, <2>6 DEF InView
<1>4. PICK from \in Nat, to \in Nat : from = (v.page - 1) * v.size /\ to = v.page * v.size
    <2>1. v.page \in Nat \ {0} /\ v.size \in Nat
        BY DeliveryAssumption
    <2>2. \A m, n \in Nat : m * n \in Nat
        OBVIOUS
    <2>3. v.page - 1 \in Nat
        BY <2>1
    <2>4. QED
        BY <2>1, <2>2, <2>3
<1>5. Within(Slice(items, from, to), items)
    BY SliceLemma
<1>6. Within(Slice(items, from, to), b.rows)
    BY <1>3, <1>5 DEF Within
<1>7. QED
    BY <1>3, <1>4, <1>6 DEF LeadPage

\* What a page shows is in the bundle.
LEMMA FiguresLemma ==
    ASSUME NEW rows, NEW part, Within(part, rows)
    PROVE  Figures(part) \subseteq Figures(rows)
BY DEF Within, Figures

-----------------------------------------------------------------------------
(* What a step does to one request, and what it leaves alone. *)

LEMMA GotoLemma ==
    ASSUME Types, NEW q \in Servers, NEW r, Goto(q, r), r = Idle \/ RequestOK(r)
    PROVE  /\ DOMAIN requests' = Servers
           /\ \A p \in Servers : requests'[p] = IF p = q THEN r ELSE requests[p]
           /\ \A p \in Servers : requests'[p] = Idle \/ RequestOK(requests'[p])
BY DEF Types, Goto

LEMMA BusyLemma ==
    ASSUME Types, NEW q \in Servers, ~At(q, "idle")
    PROVE  RequestOK(requests[q])
BY DEF Types, Idle, At

LEMMA MoveLemma ==
    ASSUME Types, NEW q \in Servers, NEW pc \in Pcs, Move(q, pc),
           requests[q].pc \notin {"idle", "freeze"}, pc # "freeze",
           pc \in Exporting => requests[q].pc \in Exporting
    PROVE  \E r : /\ Goto(q, r) /\ RequestOK(r) /\ r.pc = pc
                  /\ r.kind = requests[q].kind /\ r.ask = requests[q].ask
                  /\ r.bundle = requests[q].bundle /\ r.job = requests[q].job /\ r.day = requests[q].day
<1>1. PICK r : r = [requests[q] EXCEPT !.pc = pc]
    OBVIOUS
<1>2. RequestOK(requests[q])
    BY BusyLemma DEF At
<1>3. /\ r \in Request /\ r.pc = pc
      /\ r.kind = requests[q].kind /\ r.ask = requests[q].ask
      /\ r.bundle = requests[q].bundle /\ r.job = requests[q].job /\ r.day = requests[q].day
    BY <1>1, <1>2 DEF RequestOK, Request
<1>4. QED
    BY <1>1, <1>2, <1>3 DEF Move, RequestOK

\* The counters only grow.
LEMMA UsedLemma ==
    ASSUME Types
    PROVE  /\ Fault => /\ used' \in Counters /\ used'.bundles = used.bundles /\ used'.jobs = used.jobs
           /\ \A c \in {"scorings", "executions", "requests", "restarts", "days"} :
                 Fresh(c) => /\ used' \in Counters
                             /\ used'.bundles = used.bundles /\ used'.jobs = used.jobs
           /\ Fresh("bundles") => /\ used' \in Counters
                                  /\ used'.bundles = used.bundles + 1 /\ used'.jobs = used.jobs
           /\ Fresh("jobs") => /\ used' \in Counters
                               /\ used'.bundles = used.bundles /\ used'.jobs = used.jobs + 1
BY DEF Types, Counters, Fault, Fresh

LEMMA VersionsFrame ==
    ASSUME Versions, leadSets' = leadSets, cache'.executions = cache.executions,
           db'.executions = db.executions
    PROVE  Versions'
BY DEF Versions, ExecutionOK

\* The bundles a request may come to hold.
LEMMA HeldLemma ==
    ASSUME NEW q \in Servers, NEW r,
           \A p \in Servers : requests'[p] = IF p = q THEN r ELSE requests[p]
    PROVE  /\ Held' \subseteq Held \cup {r.bundle}
           /\ r.pc \in {"idle", "freeze"} => Held' \subseteq Held
BY DEF Held, Holds

LEMMA KnownFrame ==
    ASSUME IInv, Known' \subseteq Known, db'.bundles = db.bundles, shown' = shown,
           used'.bundles \in Nat, used.bundles <= used'.bundles
    PROVE  Bundles' /\ Answers'
<1>1. used.bundles \in Nat
    BY DEF IInv, Types, Counters
<1>2. Bundles'
    BY <1>1 DEF IInv, Bundles
<1>3. Answers'
    BY <1>1 DEF IInv, Answers
<1>4. QED
    BY <1>2, <1>3

\* A request that writes a job agrees with it as long as the job and the request do.
LEMMA WriterKept ==
    ASSUME NEW p, WriterOK(requests[p]), requests'[p] = requests[p],
           /\ requests[p].job \in DOMAIN cache'.jobs
           /\ cache'.jobs[requests[p].job] = cache.jobs[requests[p].job],
           /\ requests[p].job \in DOMAIN db'.jobs
           /\ db'.jobs[requests[p].job] = db.jobs[requests[p].job],
           db.bundles \subseteq db'.bundles
    PROVE  WriterOK(requests[p])'
<1>1. PICK r : r = requests[p] /\ r = requests'[p] /\ WriterOK(r)
    OBVIOUS
<1>2. PICK status : r.job \in DOMAIN cache.jobs /\ cache.jobs[r.job] = JobOf(r, status)
    BY <1>1 DEF WriterOK, Cached
<1>3. \E x : r.job \in DOMAIN cache'.jobs /\ cache'.jobs[r.job] = JobOf(r, x)
    BY <1>1, <1>2
<1>4. Cached(requests[p])'
    BY <1>1, <1>3 DEF Cached, JobOf, Hash
<1>5. /\ requests'[p].job \in DOMAIN db'.jobs /\ requests'[p].bundle \in db'.bundles
      /\ db'.jobs[requests'[p].job].hash = Hash(requests'[p])
      /\ SameFile(db'.jobs[requests'[p].job], JobOf(requests'[p], "GENERATING"))
    BY <1>1 DEF WriterOK, SameFile
<1>6. QED
    BY <1>4, <1>5 DEF WriterOK, SameFile, JobOf, Hash

\* A step that writes no job and no file, and brings no request to write one.
LEMMA JobsFrame ==
    ASSUME IInv, db'.jobs = db.jobs, cache'.jobs = cache.jobs, artifacts' = artifacts,
           db.bundles \subseteq db'.bundles,
           used' \in Counters, used.bundles <= used'.bundles, used.jobs <= used'.jobs,
           \A p \in Servers : requests'[p].pc \in Exporting => requests'[p] = requests[p]
    PROVE  Jobs' /\ Files'
<1>1. used \in Counters
    BY DEF IInv, Types
<1>2. \A n : (n \in 1..used.bundles => n \in 1..used'.bundles) /\ (n \in 1..used.jobs => n \in 1..used'.jobs)
    BY <1>1 DEF Counters
<1>3. \A p \in Servers : (Writes(p)' => Writes(p) /\ requests'[p] = requests[p])
    BY DEF Writes, Writing, Exporting
<1>4. \A p \in Servers : Writes(p)' => WriterOK(requests[p])'
    <2>1. ASSUME NEW p \in Servers, Writes(p)' PROVE WriterOK(requests[p])'
        <3>1. requests'[p] = requests[p] /\ WriterOK(requests[p])
            BY <1>3, <2>1 DEF IInv, Jobs
        <3>2. requests[p].job \in DOMAIN cache.jobs /\ requests[p].job \in DOMAIN db.jobs
            BY <3>1 DEF WriterOK, Cached
        <3>3. QED
            BY <3>1, <3>2, WriterKept
    <2>2. QED
        BY <2>1
<1>5. \A p \in Servers, pc \in Exporting : At(p, pc)' => At(p, pc) /\ requests'[p] = requests[p]
    BY DEF At
<1>6. Jobs'
    <2>1. DOMAIN db'.jobs \subseteq 1..used'.jobs
        BY <1>2 DEF IInv, Jobs
    <2>2. \A j \in DOMAIN db'.jobs : db'.jobs[j].bundle \in 1..used'.bundles /\ db'.jobs[j].count \in Nat
        BY <1>2 DEF IInv, Jobs
    <2>3. \A i, j \in DOMAIN db'.jobs : db'.jobs[i].hash = db'.jobs[j].hash => i = j
        BY DEF IInv, Jobs
    <2>4. \A j \in DOMAIN db'.jobs \cap DOMAIN cache'.jobs : SameFile(db'.jobs[j], cache'.jobs[j])
        BY DEF IInv, Jobs
    <2>5. \A p \in Servers : requests'[p].pc \in Exporting => requests'[p].job \in 1..used'.jobs
        BY <1>2 DEF IInv, Jobs
    <2>6. \A p, q \in Servers :
              requests'[p].pc \in Exporting /\ requests'[q].pc \in Exporting
                  /\ requests'[p].job = requests'[q].job => p = q
        BY DEF IInv, Jobs
    <2>7. \A p \in Servers : At(p, "insert")' => requests'[p].job \notin DOMAIN db'.jobs
        BY <1>5 DEF IInv, Jobs, Exporting
    <2>8. QED
        BY <1>4, <2>1, <2>2, <2>3, <2>4, <2>5, <2>6, <2>7 DEF Jobs
<1>7. Files'
    BY <1>5 DEF IInv, Files, Exporting, Writing
<1>8. QED
    BY <1>6, <1>7

-----------------------------------------------------------------------------
(* The steps of a request until it has its bundle. *)

\* A request goes on, with a bundle that was known or with none, or ends.
LEMMA QuietLemma ==
    ASSUME IInv, NEW q \in Servers, NEW r, Goto(q, r), r = Idle \/ RequestOK(r),
           r.pc \in {"idle", "freeze"} \/ (r.pc = "got" /\ r.bundle \in Known),
           UNCHANGED <<scores, leadSets, cache, db, artifacts, shown>>,
           used' \in Counters, used'.bundles = used.bundles, used'.jobs = used.jobs
    PROVE  IInv'
<1>1. /\ DOMAIN requests' = Servers
      /\ \A p \in Servers : requests'[p] = IF p = q THEN r ELSE requests[p]
      /\ \A p \in Servers : requests'[p] = Idle \/ RequestOK(requests'[p])
    BY GotoLemma DEF IInv
<1>2. Types'
    BY <1>1 DEF IInv, Types
<1>3. Versions'
    BY VersionsFrame DEF IInv
<1>4. used'.bundles \in Nat /\ used.bundles <= used'.bundles /\ used.jobs <= used'.jobs
    BY DEF IInv, Types, Counters
<1>5. Known' \subseteq Known
    BY <1>1, HeldLemma DEF Known
<1>6. Bundles' /\ Answers'
    BY <1>4, <1>5, KnownFrame
<1>7. \A p \in Servers : requests'[p].pc \in Exporting => requests'[p] = requests[p]
    BY <1>1 DEF Exporting, Writing
<1>8. Jobs' /\ Files'
    BY <1>4, <1>7, JobsFrame
<1>9. QED
    BY <1>2, <1>3, <1>6, <1>8 DEF IInv

LEMMA AskLemma ==
    ASSUME IInv, NEW q \in Servers, NEW kind \in {"page", "export"},
           NEW snapshot \in Nat \cup {None}, NEW ask \in Exports \cup {None},
           kind = "export" => ask \in Exports, Arrive(q, kind, snapshot, ask)
    PROVE  IInv'
<1>1. PICK r : r = [pc |-> "freeze", kind |-> kind, snapshot |-> snapshot, ask |-> ask,
                    bundle |-> None, job |-> None, day |-> 0]
    OBVIOUS
<1>2. RequestOK(r) /\ r.pc = "freeze"
    BY <1>1 DEF RequestOK, Request, Pcs, Exporting, Writing
<1>3. Goto(q, r) /\ Fresh("requests") /\ UNCHANGED <<scores, leadSets, cache, db, artifacts, shown>>
    BY <1>1 DEF Arrive
<1>4. used' \in Counters /\ used'.bundles = used.bundles /\ used'.jobs = used.jobs
    BY <1>3, UsedLemma DEF IInv
<1>5. QED
    BY <1>2, <1>3, <1>4, QuietLemma

\* The bundle of a frozen request.
LEMMA FrozenLemma ==
    ASSUME IInv, NEW q \in Servers, At(q, "freeze"), NEW b \in Known, NEW pc \in {"got", "save"}
    PROVE  LET r == [requests[q] EXCEPT !.pc = pc, !.bundle = b]
           IN  RequestOK(r) /\ r.pc = pc /\ r.bundle = b
<1>1. RequestOK(requests[q]) /\ b \in Bundle
    BY BusyLemma DEF IInv, Bundles, At
<1>2. QED
    BY <1>1 DEF RequestOK, Request, Pcs, Exporting, Writing

LEMMA GetBundleLemma == ASSUME IInv, NEW q \in Servers, GetBundle(q) PROVE IInv'
<1>1. /\ At(q, "freeze") /\ UNCHANGED <<scores, leadSets, cache, db, artifacts, shown, used>>
      /\ \/ Goto(q, Idle)
         \/ \E b \in BundleOf(requests[q].snapshot) :
                Goto(q, [requests[q] EXCEPT !.pc = "got", !.bundle = b])
    BY DEF GetBundle, Done
<1>2. used' \in Counters /\ used'.bundles = used.bundles /\ used'.jobs = used.jobs
    BY <1>1 DEF IInv, Types
<1>3. CASE Goto(q, Idle)
    <2>1. PICK r : r = Idle
        OBVIOUS
    <2>2. r.pc = "idle" /\ Goto(q, r)
        BY <1>3, <2>1 DEF Idle
    <2>3. QED
        BY <1>1, <1>2, <2>1, <2>2, QuietLemma
<1>4. ASSUME NEW b \in BundleOf(requests[q].snapshot),
             Goto(q, [requests[q] EXCEPT !.pc = "got", !.bundle = b])
      PROVE  IInv'
    <2>1. b \in Known
        BY DEF BundleOf, Known
    <2>2. PICK r : r = [requests[q] EXCEPT !.pc = "got", !.bundle = b]
        OBVIOUS
    <2>3. RequestOK(r) /\ r.pc = "got" /\ r.bundle = b /\ Goto(q, r)
        BY <1>1, <1>4, <2>1, <2>2, FrozenLemma
    <2>4. QED
        BY <1>1, <1>2, <2>1, <2>3, QuietLemma
<1>5. QED
    BY <1>1, <1>3, <1>4

LEMMA FreezeCachedLemma == ASSUME IInv, NEW q \in Servers, FreezeCached(q) PROVE IInv'
<1>1. PICK b \in ForExecution(ForVersion) :
          /\ At(q, "freeze") /\ Goto(q, [requests[q] EXCEPT !.pc = "got", !.bundle = b])
          /\ UNCHANGED <<scores, leadSets, cache, db, artifacts, shown, used>>
    BY DEF FreezeCached
<1>2. b \in Known
    BY <1>1 DEF ForExecution, BundleOf, Known
<1>3. PICK r : r = [requests[q] EXCEPT !.pc = "got", !.bundle = b]
    OBVIOUS
<1>4. RequestOK(r) /\ r.pc = "got" /\ r.bundle = b /\ Goto(q, r)
    BY <1>1, <1>2, <1>3, FrozenLemma
<1>5. used' \in Counters /\ used'.bundles = used.bundles /\ used'.jobs = used.jobs
    BY <1>1 DEF IInv, Types
<1>6. QED
    BY <1>1, <1>2, <1>4, <1>5, QuietLemma

\* The execution a version is read through is one whose scoring is there.
LEMMA RowsLemma ==
    ASSUME IInv
    PROVE  /\ ForVersion \in Execution
           /\ LeadRows(ForVersion) \in Seq(Row) /\ LeadsOnce(LeadRows(ForVersion))
<1>1. PICK e : e = ForVersion
    OBVIOUS
<1>2. ExecutionOK(e)
    <2>1. /\ cache.executions \in Seq(Execution) /\ cache.executions # <<>>
          /\ \A n \in DOMAIN cache.executions : ExecutionOK(cache.executions[n])
        BY DEF IInv, Versions
    <2>2. Len(cache.executions) \in Nat \ {0} /\ DOMAIN cache.executions = 1..Len(cache.executions)
        BY <2>1, EmptySeq, LenProperties
    <2>3. ForVersion = cache.executions[Len(cache.executions)]
        BY DEF ForVersion, Last
    <2>4. QED
        BY <1>1, <2>1, <2>2, <2>3
<1>3. PICK ranking : ranking = leadSets[e.set]
    OBVIOUS
<1>4. ranking \in Seq(Leads) /\ OnceEach(ranking)
    <2>1. leadSets \in Seq(Seq(Leads)) /\ e.set \in DOMAIN leadSets /\ OnceEach(leadSets[e.set])
        BY <1>2 DEF IInv, Versions, ExecutionOK
    <2>2. QED
        BY <1>3, <2>1, LenProperties, ElementOfSeq
<1>5. /\ Len(ranking) \in Nat /\ DOMAIN ranking = 1..Len(ranking)
      /\ \A i \in 1..Len(ranking) : ranking[i] \in Leads
    BY <1>4, LenProperties, ElementOfSeq
<1>6. LeadRows(e) = [i \in 1..Len(ranking) |-> LeadRow(i, ranking[i])]
    BY <1>3, <1>5 DEF LeadRows
<1>7. \A i \in 1..Len(ranking) : LeadRow(i, ranking[i]) \in Row /\ LeadRow(i, ranking[i]).lead = ranking[i]
    <2>1. scores.latest \in [Leads -> Nat]
        BY DEF IInv, Types
    <2>2. QED
        BY <1>5, <2>1 DEF LeadRow, Row
<1>8. LeadRows(e) \in [1..Len(ranking) -> Row]
    BY <1>6, <1>7
<1>9. LeadRows(e) \in Seq(Row)
    BY <1>5, <1>8, SeqDef
<1>10. LeadsOnce(LeadRows(e))
    BY <1>4, <1>5, <1>6, <1>7 DEF LeadsOnce, OnceEach
<1>11. QED
    BY <1>1, <1>2, <1>9, <1>10 DEF ExecutionOK

\* A new bundle has an id that nothing names yet.
LEMMA FreezeBuildLemma == ASSUME IInv, NEW q \in Servers, FreezeBuild(q) PROVE IInv'
<1>1. PICK b : b = [id |-> used.bundles + 1, execution |-> ForVersion.id, rows |-> LeadRows(ForVersion)]
    OBVIOUS
<1>2. used.bundles \in Nat
    BY DEF IInv, Types, Counters
<1>3. b \in Bundle /\ b.id = used.bundles + 1 /\ LeadsOnce(b.rows)
    BY <1>1, <1>2, RowsLemma DEF Bundle, Execution
<1>4. PICK r : r = [requests[q] EXCEPT !.pc = "save", !.bundle = b]
    OBVIOUS
<1>5. /\ At(q, "freeze") /\ Goto(q, r) /\ Fresh("bundles")
      /\ UNCHANGED <<scores, leadSets, cache, db, artifacts, shown>>
    BY <1>1, <1>4 DEF FreezeBuild
<1>6. RequestOK(r) /\ r.pc = "save" /\ r.bundle = b
    <2>1. RequestOK(requests[q])
        BY <1>5, BusyLemma DEF IInv, At
    <2>2. QED
        BY <1>3, <1>4, <2>1 DEF RequestOK, Request, Pcs, Exporting, Writing
<1>7. /\ DOMAIN requests' = Servers
      /\ \A p \in Servers : requests'[p] = IF p = q THEN r ELSE requests[p]
      /\ \A p \in Servers : requests'[p] = Idle \/ RequestOK(requests'[p])
    BY <1>5, <1>6, GotoLemma DEF IInv
<1>8. used' \in Counters /\ used'.bundles = used.bundles + 1 /\ used'.jobs = used.jobs
    BY <1>5, UsedLemma DEF IInv
<1>9. Types'
    BY <1>5, <1>7, <1>8 DEF IInv, Types
<1>10. Versions'
    BY <1>5, VersionsFrame DEF IInv
<1>11. Known' \subseteq Known \cup {b}
    BY <1>5, <1>6, <1>7, HeldLemma DEF Known
<1>12. \A a \in Known : a \in Bundle /\ a.id \in 1..used.bundles /\ LeadsOnce(a.rows)
    BY DEF IInv, Bundles
<1>13. Bundles'
    <2>1. \A a \in Known' : a \in Bundle /\ a.id \in 1..used'.bundles /\ LeadsOnce(a.rows)
        BY <1>2, <1>3, <1>8, <1>11, <1>12
    <2>2. \A a, c \in Known' : a.id = c.id => a = c
        BY <1>2, <1>3, <1>11, <1>12 DEF IInv, Bundles
    <2>3. \A a, c \in db'.bundles : a.execution = c.execution => a = c
        BY <1>5 DEF IInv, Bundles
    <2>4. QED
        BY <2>1, <2>2, <2>3 DEF Bundles
<1>14. Answers'
    BY <1>2, <1>3, <1>5, <1>8, <1>11 DEF IInv, Answers
<1>15. used.bundles <= used'.bundles /\ used.jobs <= used'.jobs
    BY <1>2, <1>8 DEF IInv, Types, Counters
<1>16. \A p \in Servers : requests'[p].pc \in Exporting => requests'[p] = requests[p]
    BY <1>6, <1>7 DEF Exporting, Writing
<1>17. Jobs' /\ Files'
    BY <1>5, <1>8, <1>15, <1>16, JobsFrame
<1>18. QED
    BY <1>9, <1>10, <1>13, <1>14, <1>17 DEF IInv

\* A request that goes on with the bundle it holds, or ends.
LEMMA KeepLemma ==
    ASSUME Types, NEW q \in Servers, NEW r, Goto(q, r),
           r = Idle \/ (RequestOK(r) /\ Holds(q) /\ r.bundle = requests[q].bundle)
    PROVE  /\ DOMAIN requests' = Servers
           /\ \A p \in Servers : requests'[p] = IF p = q THEN r ELSE requests[p]
           /\ \A p \in Servers : requests'[p] = Idle \/ RequestOK(requests'[p])
           /\ Held' \subseteq Held
<1>1. /\ DOMAIN requests' = Servers
      /\ \A p \in Servers : requests'[p] = IF p = q THEN r ELSE requests[p]
      /\ \A p \in Servers : requests'[p] = Idle \/ RequestOK(requests'[p])
    BY GotoLemma
<1>2. CASE r = Idle
    BY <1>1, <1>2, HeldLemma DEF Idle
<1>3. CASE Holds(q) /\ r.bundle = requests[q].bundle
    BY <1>1, <1>3, HeldLemma DEF Held
<1>4. QED
    BY <1>1, <1>2, <1>3

LEMMA SaveBundleLemma == ASSUME IInv, NEW q \in Servers, SaveBundle(q) PROVE IInv'
<1>1. PICK b : b = requests[q].bundle
    OBVIOUS
<1>2. /\ requests[q].pc = "save" /\ Move(q, "commit")
      /\ cache' = [cache EXCEPT !.bundles = @ \cup {b}, !.byExecution = With(@, b.execution, b.id)]
      /\ UNCHANGED <<scores, leadSets, db, artifacts, shown, used>>
    BY <1>1 DEF SaveBundle, At
<1>3. PICK r : Goto(q, r) /\ RequestOK(r) /\ r.pc = "commit" /\ r.bundle = b
    <2>1. /\ "commit" \in Pcs /\ "commit" \notin Exporting /\ "commit" # "freeze"
          /\ requests[q].pc \notin {"idle", "freeze"} /\ Types
        BY <1>2 DEF Pcs, Exporting, Writing, IInv
    <2>2. QED
        BY <1>1, <1>2, <2>1, MoveLemma
<1>4. Holds(q) /\ b \in Held
    BY <1>1, <1>2 DEF Holds, Held
<1>5. /\ DOMAIN requests' = Servers
      /\ \A p \in Servers : requests'[p] = IF p = q THEN r ELSE requests[p]
      /\ \A p \in Servers : requests'[p] = Idle \/ RequestOK(requests'[p])
      /\ Held' \subseteq Held
    BY <1>1, <1>3, <1>4, KeepLemma DEF IInv
<1>6. /\ cache' = [executions |-> cache'.executions, bundles |-> cache'.bundles,
                   byExecution |-> cache'.byExecution, jobs |-> cache'.jobs, index |-> cache'.index]
      /\ cache'.executions = cache.executions /\ cache'.jobs = cache.jobs
      /\ cache'.bundles = cache.bundles \cup {b}
    BY <1>2 DEF IInv, Types
<1>7. used' \in Counters /\ used'.bundles \in Nat /\ used.bundles <= used'.bundles /\ used.jobs <= used'.jobs
    BY <1>2 DEF IInv, Types, Counters
<1>8. Types'
    BY <1>2, <1>5, <1>6 DEF IInv, Types
<1>9. Versions'
    BY <1>2, <1>6, VersionsFrame DEF IInv
<1>10. Known' \subseteq Known
    BY <1>2, <1>4, <1>5, <1>6 DEF Known
<1>11. Bundles' /\ Answers'
    BY <1>2, <1>7, <1>10, KnownFrame
<1>12. \A p \in Servers : requests'[p].pc \in Exporting => requests'[p] = requests[p]
    BY <1>3, <1>5 DEF Exporting, Writing
<1>13. Jobs' /\ Files'
    BY <1>2, <1>6, <1>7, <1>12, JobsFrame
<1>14. QED
    BY <1>8, <1>9, <1>11, <1>13 DEF IInv

\* The table takes one bundle of an execution.
LEMMA CommitBundleLemma == ASSUME IInv, NEW q \in Servers, CommitBundle(q) PROVE IInv'
<1>1. PICK b : b = requests[q].bundle
    OBVIOUS
<1>2. /\ requests[q].pc = "commit"
      /\ UNCHANGED <<scores, leadSets, cache, artifacts, shown>>
      /\ \/ Done(q) /\ UNCHANGED <<db, used>>
         \/ /\ ~BundleRefused(b) /\ db' = [db EXCEPT !.bundles = @ \cup {b}]
            /\ Move(q, "got") /\ UNCHANGED used
         \/ Fault /\ Done(q) /\ UNCHANGED db
    BY <1>1 DEF CommitBundle, At
<1>3. Holds(q) /\ b \in Held
    BY <1>1, <1>2 DEF Holds, Held
<1>4. used' \in Counters /\ used'.bundles = used.bundles /\ used'.jobs = used.jobs
    BY <1>2, UsedLemma DEF IInv, Types
<1>5. CASE Done(q) /\ UNCHANGED db
    <2>1. PICK r : r = Idle /\ r.pc = "idle" /\ Goto(q, r)
        BY <1>5 DEF Done, Idle
    <2>2. QED
        BY <1>2, <1>4, <1>5, <2>1, QuietLemma
<1>6. CASE ~BundleRefused(b) /\ db' = [db EXCEPT !.bundles = @ \cup {b}] /\ Move(q, "got")
    <2>1. PICK r : Goto(q, r) /\ RequestOK(r) /\ r.pc = "got" /\ r.bundle = b
        <3>1. /\ "got" \in Pcs /\ "got" \notin Exporting /\ "got" # "freeze"
              /\ requests[q].pc \notin {"idle", "freeze"} /\ Types
            BY <1>2 DEF Pcs, Exporting, Writing, IInv
        <3>2. QED
            BY <1>1, <1>6, <3>1, MoveLemma
    <2>2. /\ DOMAIN requests' = Servers
          /\ \A p \in Servers : requests'[p] = IF p = q THEN r ELSE requests[p]
          /\ \A p \in Servers : requests'[p] = Idle \/ RequestOK(requests'[p])
          /\ Held' \subseteq Held
        BY <1>1, <1>3, <2>1, KeepLemma DEF IInv
    <2>3. /\ db' = [executions |-> db'.executions, bundles |-> db'.bundles, jobs |-> db'.jobs]
          /\ db'.executions = db.executions /\ db'.jobs = db.jobs
          /\ db'.bundles = db.bundles \cup {b}
        BY <1>6 DEF IInv, Types
    <2>4. used.bundles <= used'.bundles /\ used.jobs <= used'.jobs
        BY <1>4 DEF Counters
    <2>5. Types'
        BY <1>2, <1>4, <2>2, <2>3 DEF IInv, Types
    <2>6. Versions'
        BY <1>2, <2>3, VersionsFrame DEF IInv
    <2>7. Known' \subseteq Known
        BY <1>2, <1>3, <2>2, <2>3 DEF Known
    <2>8. Bundles'
        <3>1. \A a, c \in db'.bundles : a.execution = c.execution => a = c
            BY <1>6, <2>3 DEF BundleRefused, IInv, Bundles
        <3>2. QED
            BY <1>4, <2>7, <3>1 DEF IInv, Bundles
    <2>9. Answers'
        BY <1>2, <1>4, <2>7 DEF IInv, Answers
    <2>10. \A p \in Servers : requests'[p].pc \in Exporting => requests'[p] = requests[p]
        BY <2>1, <2>2 DEF Exporting, Writing
    <2>11. Jobs' /\ Files'
        BY <1>2, <1>4, <2>3, <2>4, <2>10, JobsFrame
    <2>12. QED
        BY <2>5, <2>6, <2>8, <2>9, <2>11 DEF IInv
<1>7. QED
    BY <1>2, <1>5, <1>6

\* Answers whose figures are those of a known bundle.
LEMMA ShowLemma ==
    ASSUME IInv, NEW b \in Known, NEW rows, Show(b, rows), Within(rows, b.rows),
           Known' \subseteq Known, used' = used
    PROVE  Answers'
<1>1. ASSUME NEW x \in shown', x \notin shown
      PROVE  /\ x.bundle \in 1..used.bundles
             /\ \A c \in Known : c.id = x.bundle => x.execution = c.execution /\ x.figure \in Figures(c.rows)
    <2>1. PICK f \in Figures(rows) : x = [bundle |-> b.id, execution |-> b.execution, figure |-> f]
        BY <1>1 DEF Show
    <2>2. f \in Figures(b.rows)
        BY FiguresLemma
    <2>3. \A c \in Known : c.id = b.id => c = b
        BY DEF IInv, Bundles
    <2>4. b.id \in 1..used.bundles
        BY DEF IInv, Bundles
    <2>5. QED
        BY <2>1, <2>2, <2>3, <2>4
<1>2. QED
    BY <1>1 DEF IInv, Answers

LEMMA AnswerPageLemma == ASSUME IInv, NEW q \in Servers, AnswerPage(q) PROVE IInv'
<1>1. PICK b : b = requests[q].bundle
    OBVIOUS
<1>2. /\ requests[q].pc = "got" /\ Done(q)
      /\ UNCHANGED <<scores, leadSets, cache, db, artifacts, used>>
      /\ \E v \in Views : Show(b, LeadPage(b, v))
    BY <1>1 DEF AnswerPage, At
<1>3. PICK v \in Views : Show(b, LeadPage(b, v))
    BY <1>2
<1>4. b \in Known /\ b \in Bundle
    BY <1>1, <1>2 DEF Known, Held, Holds, IInv, Bundles
<1>5. PICK r : r = Idle /\ r.pc = "idle" /\ Goto(q, r)
    BY <1>2 DEF Done, Idle
<1>6. /\ DOMAIN requests' = Servers
      /\ \A p \in Servers : requests'[p] = IF p = q THEN r ELSE requests[p]
      /\ \A p \in Servers : requests'[p] = Idle \/ RequestOK(requests'[p])
      /\ Held' \subseteq Held
    BY <1>5, KeepLemma DEF IInv
<1>7. Types'
    BY <1>2, <1>6 DEF IInv, Types
<1>8. Versions'
    BY <1>2, VersionsFrame DEF IInv
<1>9. Known' \subseteq Known
    BY <1>2, <1>6 DEF Known
<1>10. Bundles'
    BY <1>2, <1>9 DEF IInv, Bundles
<1>11. Answers'
    BY <1>2, <1>3, <1>4, <1>9, PageLemma, ShowLemma
<1>12. \A p \in Servers : requests'[p].pc \in Exporting => requests'[p] = requests[p]
    BY <1>5, <1>6 DEF Exporting, Writing
<1>13. Jobs' /\ Files'
    BY <1>2, <1>12, JobsFrame DEF IInv, Types, Counters
<1>14. QED
    BY <1>7, <1>8, <1>10, <1>11, <1>13 DEF IInv

\* What create_export answers without a job.
LEMMA NoJobLemma ==
    ASSUME IInv, NEW q \in Servers, RejectExport(q) \/ AnswerExisting(q)
    PROVE  IInv'
<1>1. PICK r : r = Idle /\ r.pc = "idle" /\ Goto(q, r)
    BY DEF RejectExport, AnswerExisting, Done, Idle
<1>2. UNCHANGED <<scores, leadSets, cache, db, artifacts, shown, used>>
    BY DEF RejectExport, AnswerExisting
<1>3. QED
    BY <1>1, <1>2, QuietLemma DEF IInv, Types

-----------------------------------------------------------------------------
(* The steps of an export. *)

\* A job that nothing names yet.
LEMMA CheckExportLemma == ASSUME IInv, NEW q \in Servers, CheckExport(q) PROVE IInv'
<1>1. PICK n \in Nat, today \in Nat : n = used.jobs /\ today = used.days
    BY DEF IInv, Types, Counters
<1>2. PICK r : r = [[requests[q] EXCEPT !.day = today] EXCEPT !.pc = "insert", !.job = n + 1]
    OBVIOUS
<1>3. /\ requests[q].pc = "got" /\ requests[q].kind = "export" /\ Fresh("jobs") /\ Goto(q, r)
      /\ UNCHANGED <<scores, leadSets, cache, db, artifacts, shown>>
    BY <1>1, <1>2 DEF CheckExport, Today, At
<1>4. RequestOK(r) /\ r.pc = "insert" /\ r.job = n + 1 /\ r.bundle = requests[q].bundle
    <2>1. RequestOK(requests[q])
        BY <1>3, BusyLemma DEF IInv, At
    <2>2. requests[q] \in Request /\ requests[q].bundle \in Bundle /\ requests[q].ask \in Exports
        BY <1>3, <2>1 DEF RequestOK
    <2>3. /\ r \in Request /\ r.pc = "insert" /\ r.kind = "export" /\ r.job = n + 1
          /\ r.ask = requests[q].ask /\ r.bundle = requests[q].bundle
        <3>1. PICK x \in Request, m \in Nat : x = requests[q] /\ m = n + 1
            BY <2>2
        <3>2. r = [[x EXCEPT !.day = today] EXCEPT !.pc = "insert", !.job = m] /\ "insert" \in Pcs
            BY <1>2, <3>1 DEF Pcs, Exporting
        <3>3. r \in Request /\ r.pc = "insert" /\ r.kind = x.kind /\ r.job = m /\ r.ask = x.ask /\ r.bundle = x.bundle
            BY <3>2 DEF Request
        <3>4. QED
            BY <1>3, <3>1, <3>3
    <2>4. QED
        BY <2>2, <2>3 DEF RequestOK
<1>5. /\ DOMAIN requests' = Servers
      /\ \A p \in Servers : requests'[p] = IF p = q THEN r ELSE requests[p]
      /\ \A p \in Servers : requests'[p] = Idle \/ RequestOK(requests'[p])
      /\ Held' \subseteq Held
    BY <1>3, <1>4, KeepLemma DEF IInv, Holds
<1>6. used' \in Counters /\ used'.bundles = used.bundles /\ used'.jobs = n + 1
    BY <1>1, <1>3, UsedLemma DEF IInv
<1>7. Types'
    BY <1>3, <1>5, <1>6 DEF IInv, Types
<1>8. Versions'
    BY <1>3, VersionsFrame DEF IInv
<1>9. Known' \subseteq Known
    BY <1>3, <1>5 DEF Known
<1>10. Bundles' /\ Answers'
    BY <1>3, <1>6, <1>9, KnownFrame DEF Counters
<1>11. \A p \in Servers : p # q /\ requests[p].pc \in Exporting => requests[p].job \in 1..n
    BY <1>1 DEF IInv, Jobs
<1>12. DOMAIN db.jobs \subseteq 1..n
    BY <1>1 DEF IInv, Jobs
<1>13. Jobs'
    <2>1. DOMAIN db'.jobs \subseteq 1..used'.jobs
        BY <1>3, <1>6, <1>12
    <2>2. \A j \in DOMAIN db'.jobs : db'.jobs[j].bundle \in 1..used'.bundles /\ db'.jobs[j].count \in Nat
        BY <1>3, <1>6 DEF IInv, Jobs
    <2>3. \A i, j \in DOMAIN db'.jobs : db'.jobs[i].hash = db'.jobs[j].hash => i = j
        BY <1>3 DEF IInv, Jobs
    <2>4. \A j \in DOMAIN db'.jobs \cap DOMAIN cache'.jobs : SameFile(db'.jobs[j], cache'.jobs[j])
        BY <1>3 DEF IInv, Jobs
    <2>5. \A p \in Servers : requests'[p].pc \in Exporting => requests'[p].job \in 1..used'.jobs
        BY <1>4, <1>5, <1>6, <1>11
    <2>6. \A p, o \in Servers :
              requests'[p].pc \in Exporting /\ requests'[o].pc \in Exporting
                  /\ requests'[p].job = requests'[o].job => p = o
        BY <1>4, <1>5, <1>11 DEF IInv, Jobs
    <2>7. \A p \in Servers : At(p, "insert")' => requests'[p].job \notin DOMAIN db'.jobs
        BY <1>3, <1>4, <1>5, <1>12 DEF IInv, Jobs, At
    <2>8. \A p \in Servers : Writes(p)' => WriterOK(requests[p])'
        <3>1. \A p \in Servers : Writes(p)' => p # q /\ Writes(p) /\ requests'[p] = requests[p]
            BY <1>4, <1>5 DEF Writes, Writing
        <3>2. ASSUME NEW p \in Servers, Writes(p)' PROVE WriterOK(requests[p])'
            <4>1. requests'[p] = requests[p] /\ WriterOK(requests[p])
                BY <3>1, <3>2 DEF IInv, Jobs
            <4>2. requests[p].job \in DOMAIN cache.jobs /\ requests[p].job \in DOMAIN db.jobs
                BY <4>1 DEF WriterOK, Cached
            <4>3. QED
                BY <1>3, <4>1, <4>2, WriterKept
        <3>3. QED
            BY <3>2
    <2>9. QED
        BY <2>1, <2>2, <2>3, <2>4, <2>5, <2>6, <2>7, <2>8 DEF Jobs
<1>14. Files'
    BY <1>3, <1>4, <1>5 DEF IInv, Files, At
<1>15. QED
    BY <1>7, <1>8, <1>10, <1>13, <1>14 DEF IInv

\* A step that leaves the table's jobs with the keys, bundles and counts they have.
LEMMA JobsKept ==
    ASSUME IInv, DOMAIN db'.jobs = DOMAIN db.jobs, db'.bundles = db.bundles,
           \A j \in DOMAIN db.jobs : db'.jobs[j].hash = db.jobs[j].hash /\ SameFile(db'.jobs[j], db.jobs[j]),
           \A j \in DOMAIN db.jobs \cap DOMAIN cache'.jobs : SameFile(db.jobs[j], cache'.jobs[j]),
           used'.jobs = used.jobs, used'.bundles = used.bundles,
           \A p \in Servers : requests'[p].pc \in Exporting =>
               /\ requests[p].pc \in Exporting
               /\ requests'[p].ask = requests[p].ask /\ requests'[p].bundle = requests[p].bundle
               /\ requests'[p].job = requests[p].job /\ requests'[p].day = requests[p].day,
           \A p \in Servers : (At(p, "insert")' => At(p, "insert")) /\ (Writes(p)' => Writes(p)),
           \A p \in Servers : Writes(p)' => Cached(requests[p])'
    PROVE  Jobs'
<1>1. \A j \in DOMAIN db.jobs : /\ db'.jobs[j].hash = db.jobs[j].hash
                                /\ db'.jobs[j].bundle = db.jobs[j].bundle
                                /\ db'.jobs[j].count = db.jobs[j].count
    BY DEF SameFile
<1>2. DOMAIN db'.jobs \subseteq 1..used'.jobs
    BY DEF IInv, Jobs
<1>3. \A j \in DOMAIN db'.jobs : db'.jobs[j].bundle \in 1..used'.bundles /\ db'.jobs[j].count \in Nat
    BY <1>1 DEF IInv, Jobs
<1>4. \A i, j \in DOMAIN db'.jobs : db'.jobs[i].hash = db'.jobs[j].hash => i = j
    BY <1>1 DEF IInv, Jobs
<1>5. \A j \in DOMAIN db'.jobs \cap DOMAIN cache'.jobs : SameFile(db'.jobs[j], cache'.jobs[j])
    BY <1>1 DEF SameFile
<1>6. \A p \in Servers : requests'[p].pc \in Exporting => requests'[p].job \in 1..used'.jobs
    BY DEF IInv, Jobs
<1>7. \A p, o \in Servers :
          requests'[p].pc \in Exporting /\ requests'[o].pc \in Exporting
              /\ requests'[p].job = requests'[o].job => p = o
    BY DEF IInv, Jobs
<1>8. \A p \in Servers : At(p, "insert")' => requests'[p].job \notin DOMAIN db'.jobs
    BY DEF IInv, Jobs, At, Exporting
<1>9. \A p \in Servers : Writes(p)' => WriterOK(requests[p])'
    <2>1. ASSUME NEW p \in Servers, Writes(p)' PROVE WriterOK(requests[p])'
        <3>1. /\ requests'[p].ask = requests[p].ask /\ requests'[p].bundle = requests[p].bundle
              /\ requests'[p].job = requests[p].job /\ requests'[p].day = requests[p].day
            BY <2>1 DEF Writes, Exporting
        <3>2. WriterOK(requests[p])
            BY <2>1 DEF IInv, Jobs
        <3>3. QED
            <4>1. PICK old, new : old = requests[p] /\ new = requests'[p]
                OBVIOUS
            <4>2. /\ new.job = old.job /\ new.bundle = old.bundle
                  /\ Hash(new) = Hash(old) /\ JobOf(new, "GENERATING") = JobOf(old, "GENERATING")
                BY <3>1, <4>1 DEF Hash, JobOf
            <4>3. /\ old.job \in DOMAIN db'.jobs /\ db'.jobs[old.job].hash = Hash(old)
                  /\ SameFile(db'.jobs[old.job], JobOf(old, "GENERATING")) /\ old.bundle \in db'.bundles
                BY <1>1, <3>2, <4>1 DEF WriterOK, SameFile
            <4>4. Cached(requests[p])'
                BY <2>1
            <4>5. QED
                BY <4>1, <4>2, <4>3, <4>4 DEF WriterOK, Hash, JobOf, SameFile
    <2>2. QED
        BY <2>1
<1>10. QED
    BY <1>2, <1>3, <1>4, <1>5, <1>6, <1>7, <1>8, <1>9 DEF Jobs

\* What a request that exports knows.
LEMMA ExportLemma ==
    ASSUME IInv, NEW q \in Servers, requests[q].pc \in Exporting
    PROVE  /\ RequestOK(requests[q]) /\ Holds(q)
           /\ requests[q].bundle \in Known /\ requests[q].bundle \in Bundle
           /\ requests[q].ask \in Exports /\ requests[q].ask.count \in Nat
           /\ requests[q].job \in 1..used.jobs
           /\ \A p \in Servers : p # q /\ requests[p].pc \in Exporting => requests[p].job # requests[q].job
<1>1. ~At(q, "idle") /\ requests[q].pc # "freeze" /\ Holds(q)
    BY DEF At, Exporting, Writing, Holds
<1>2. RequestOK(requests[q])
    BY <1>1, BusyLemma DEF IInv
<1>3. requests[q].bundle \in Bundle /\ requests[q].ask \in Exports
    BY <1>1, <1>2 DEF RequestOK
<1>4. requests[q].ask.count \in Nat
    BY <1>3, DeliveryAssumption
<1>5. requests[q].bundle \in Known
    BY <1>1 DEF Known, Held
<1>6. QED
    BY <1>1, <1>2, <1>3, <1>4, <1>5 DEF IInv, Jobs

\* A step of an exporting request: it stays with its bundle and its job, or ends.
LEMMA ExportStep ==
    ASSUME IInv, NEW q \in Servers, requests[q].pc \in Exporting,
           NEW pc \in Writing \cup {"idle"},
           (pc = "idle" /\ Done(q)) \/ (pc # "idle" /\ Move(q, pc))
    PROVE  /\ DOMAIN requests' = Servers
           /\ \A p \in Servers : requests'[p] = Idle \/ RequestOK(requests'[p])
           /\ Held' \subseteq Held
           /\ requests'[q].pc = pc
           /\ pc # "idle" => /\ requests'[q].ask = requests[q].ask
                             /\ requests'[q].bundle = requests[q].bundle
                             /\ requests'[q].job = requests[q].job
                             /\ requests'[q].day = requests[q].day
           /\ \A p \in Servers : p # q => requests'[p] = requests[p]
<1>1. Types /\ Holds(q) /\ requests[q].pc \notin {"idle", "freeze"}
    BY DEF IInv, Holds, Exporting, Writing
<1>2. CASE pc = "idle"
    <2>1. PICK r : r = Idle /\ r.pc = "idle" /\ Goto(q, r)
        BY <1>2 DEF Done, Idle
    <2>2. QED
        BY <1>1, <1>2, <2>1, KeepLemma
<1>3. CASE pc # "idle"
    <2>1. pc \in Pcs /\ pc # "freeze" /\ Move(q, pc)
        BY <1>3 DEF Pcs, Exporting, Writing
    <2>2. PICK r : /\ Goto(q, r) /\ RequestOK(r) /\ r.pc = pc
                   /\ r.kind = requests[q].kind /\ r.ask = requests[q].ask
                   /\ r.bundle = requests[q].bundle /\ r.job = requests[q].job /\ r.day = requests[q].day
        BY <1>1, <2>1, MoveLemma, Zenon
    <2>3. QED
        BY <1>1, <2>2, KeepLemma
<1>4. QED
    BY <1>2, <1>3

\* The parts of the invariant that a step of an export leaves alone.
LEMMA ExportFrame ==
    ASSUME IInv,
           /\ DOMAIN requests' = Servers
           /\ \A p \in Servers : requests'[p] = Idle \/ RequestOK(requests'[p])
           /\ Held' \subseteq Held,
           cache' = [executions |-> cache.executions, bundles |-> cache.bundles,
                     byExecution |-> cache.byExecution, jobs |-> cache'.jobs, index |-> cache'.index],
           db' = [executions |-> db.executions, bundles |-> db.bundles, jobs |-> db'.jobs],
           used' \in Counters, used'.bundles = used.bundles, UNCHANGED <<scores, leadSets, shown>>
    PROVE  Types' /\ Versions' /\ Bundles' /\ Answers'
<1>1. /\ cache'.executions = cache.executions /\ cache'.bundles = cache.bundles
      /\ cache'.byExecution = cache.byExecution
      /\ db'.executions = db.executions /\ db'.bundles = db.bundles
    OBVIOUS
<1>2. Types'
    BY <1>1 DEF IInv, Types
<1>3. Versions'
    BY <1>1, VersionsFrame DEF IInv
<1>4. Known' \subseteq Known
    BY <1>1 DEF Known
<1>5. Bundles' /\ Answers'
    BY <1>1, <1>4, KnownFrame DEF Counters
<1>6. QED
    BY <1>2, <1>3, <1>5

\* The dictionary's and the table's jobs after a step of an export.
LEMMA ShapeLemma ==
    ASSUME Types
    PROVE  /\ UNCHANGED cache => cache' = [executions |-> cache.executions, bundles |-> cache.bundles,
                  byExecution |-> cache.byExecution, jobs |-> cache'.jobs, index |-> cache'.index]
           /\ \A r, status : cache' = CacheJob(r, status) =>
                  /\ cache' = [executions |-> cache.executions, bundles |-> cache.bundles,
                               byExecution |-> cache.byExecution, jobs |-> cache'.jobs, index |-> cache'.index]
                  /\ cache'.jobs = With(cache.jobs, r.job, JobOf(r, status))
           /\ \A r : cache' = IndexJob(r) =>
                  /\ cache' = [executions |-> cache.executions, bundles |-> cache.bundles,
                               byExecution |-> cache.byExecution, jobs |-> cache'.jobs, index |-> cache'.index]
                  /\ cache'.jobs = With(cache.jobs, r.job, JobOf(r, "COMPLETED"))
           /\ UNCHANGED db => db' = [executions |-> db.executions, bundles |-> db.bundles, jobs |-> db'.jobs]
           /\ \A r, status : db' = StoreJob(r, status) =>
                  /\ db' = [executions |-> db.executions, bundles |-> db.bundles, jobs |-> db'.jobs]
                  /\ db'.jobs = With(db.jobs, r.job, JobOf(r, status))
<1>1. /\ cache = [executions |-> cache.executions, bundles |-> cache.bundles,
                  byExecution |-> cache.byExecution, jobs |-> cache.jobs, index |-> cache.index]
      /\ db = [executions |-> db.executions, bundles |-> db.bundles, jobs |-> db.jobs]
    BY DEF Types
<1>2. QED
    BY <1>1 DEF CacheJob, IndexJob, StoreJob

\* A job is refused, or its transaction fails: only the dictionary has it.
LEMMA InsertRefused ==
    ASSUME IInv, NEW q \in Servers, At(q, "insert"), cache' = CacheJob(requests[q], "PENDING"), Done(q),
           used' \in Counters, used'.bundles = used.bundles, used'.jobs = used.jobs,
           UNCHANGED <<scores, leadSets, db, artifacts, shown>>
    PROVE  IInv'
<1>1. requests[q].pc \in Exporting /\ requests[q].job \notin DOMAIN db.jobs
    BY DEF At, Exporting, IInv, Jobs
<1>2. /\ DOMAIN requests' = Servers
      /\ \A p \in Servers : requests'[p] = Idle \/ RequestOK(requests'[p])
      /\ Held' \subseteq Held
      /\ requests'[q].pc = "idle"
      /\ \A p \in Servers : p # q => requests'[p] = requests[p]
    BY <1>1, ExportStep
<1>3. /\ cache' = [executions |-> cache.executions, bundles |-> cache.bundles,
                   byExecution |-> cache.byExecution, jobs |-> cache'.jobs, index |-> cache'.index]
      /\ cache'.jobs = With(cache.jobs, requests[q].job, JobOf(requests[q], "PENDING"))
      /\ db' = [executions |-> db.executions, bundles |-> db.bundles, jobs |-> db'.jobs]
    BY ShapeLemma DEF IInv
<1>4. Types' /\ Versions' /\ Bundles' /\ Answers'
    BY <1>2, <1>3, ExportFrame
<1>5. \A j \in DOMAIN db.jobs \cap DOMAIN cache'.jobs : SameFile(db.jobs[j], cache'.jobs[j])
    <2>1. ASSUME NEW j \in DOMAIN db.jobs \cap DOMAIN cache'.jobs
          PROVE  j \in DOMAIN cache.jobs /\ cache'.jobs[j] = cache.jobs[j]
        BY <1>1, <1>3 DEF With
    <2>2. QED
        BY <2>1 DEF IInv, Jobs
<1>6. \A p \in Servers : requests'[p].pc \in Exporting \cup Writing \cup {"insert"} => requests'[p] = requests[p]
    BY <1>2 DEF Exporting, Writing
<1>7. Jobs'
    <2>1. ASSUME NEW p \in Servers, Writes(p)' PROVE Cached(requests[p])'
        <3>1. p # q /\ requests'[p] = requests[p] /\ requests[p].pc \in Exporting /\ WriterOK(requests[p])
            BY <1>2, <1>6, <2>1 DEF Writes, Writing, Exporting, IInv, Jobs
        <3>2. requests[p].job # requests[q].job
            BY <1>1, <3>1, ExportLemma
        <3>3. requests[p].job \in DOMAIN cache'.jobs /\ cache'.jobs[requests[p].job] = cache.jobs[requests[p].job]
            BY <1>3, <3>1, <3>2 DEF With, WriterOK, Cached
        <3>4. QED
            BY <3>1, <3>3 DEF WriterOK, Cached, JobOf, Hash
    <2>2. QED
        BY <1>5, <1>6, <2>1, JobsKept DEF At, Writes, SameFile
<1>8. Files'
    <2>1. \A j \in DOMAIN cache'.jobs : cache'.jobs[j].status = "COMPLETED" => j \in DOMAIN artifacts
        <3>1. /\ DOMAIN cache'.jobs = DOMAIN cache.jobs \cup {requests[q].job}
              /\ cache'.jobs[requests[q].job].status = "PENDING"
              /\ \A j \in DOMAIN cache.jobs : j # requests[q].job => cache'.jobs[j] = cache.jobs[j]
            <4>0. JobOf(requests[q], "PENDING").status = "PENDING"
                BY DEF JobOf
            <4>1. PICK v : v = JobOf(requests[q], "PENDING") /\ v.status = "PENDING"
                BY <4>0
            <4>2. cache'.jobs = With(cache.jobs, requests[q].job, v)
                BY <1>3, <4>1
            <4>3. QED
                BY <4>1, <4>2 DEF With
        <3>2. QED
            BY <3>1 DEF IInv, Files
    <2>2. QED
        BY <1>6, <2>1 DEF IInv, Files, At, Writing
<1>9. QED
    BY <1>4, <1>7, <1>8 DEF IInv

\* The table takes a job whose key it does not have and whose bundle it has.
LEMMA InsertTaken ==
    ASSUME IInv, NEW q \in Servers, At(q, "insert"), ~JobRefused(requests[q]),
           cache' = CacheJob(requests[q], "PENDING"), db' = StoreJob(requests[q], "PENDING"),
           Move(q, "start"), UNCHANGED <<scores, leadSets, artifacts, shown, used>>
    PROVE  IInv'
<1>1. PICK x, n : x = requests[q] /\ n = x.job
    OBVIOUS
<1>2. /\ x.pc \in Exporting /\ n \notin DOMAIN db.jobs /\ x.bundle \in Known /\ x.bundle \in Bundle
      /\ x.ask.count \in Nat /\ n \in 1..used.jobs
      /\ \A p \in Servers : p # q /\ requests[p].pc \in Exporting => requests[p].job # n
    BY <1>1, ExportLemma DEF At, Exporting, IInv, Jobs
<1>3. /\ DOMAIN requests' = Servers
      /\ \A p \in Servers : requests'[p] = Idle \/ RequestOK(requests'[p])
      /\ Held' \subseteq Held
      /\ requests'[q].pc = "start" /\ requests'[q].ask = x.ask
      /\ requests'[q].bundle = x.bundle /\ requests'[q].job = n /\ requests'[q].day = x.day
      /\ \A p \in Servers : p # q => requests'[p] = requests[p]
    BY <1>1, <1>2, ExportStep DEF Writing
<1>4. /\ cache' = [executions |-> cache.executions, bundles |-> cache.bundles,
                   byExecution |-> cache.byExecution, jobs |-> cache'.jobs, index |-> cache'.index]
      /\ cache'.jobs = With(cache.jobs, n, JobOf(x, "PENDING"))
      /\ db' = [executions |-> db.executions, bundles |-> db.bundles, jobs |-> db'.jobs]
      /\ db'.jobs = With(db.jobs, n, JobOf(x, "PENDING"))
    BY <1>1, ShapeLemma DEF IInv
<1>5. Types' /\ Versions' /\ Bundles' /\ Answers'
    BY <1>3, <1>4, ExportFrame DEF IInv, Types
<1>6. /\ DOMAIN db'.jobs = DOMAIN db.jobs \cup {n} /\ db'.jobs[n] = JobOf(x, "PENDING")
      /\ \A j \in DOMAIN db.jobs : j # n /\ db'.jobs[j] = db.jobs[j]
      /\ db'.bundles = db.bundles
    BY <1>2, <1>4 DEF With
<1>7. /\ DOMAIN cache'.jobs = DOMAIN cache.jobs \cup {n} /\ cache'.jobs[n] = JobOf(x, "PENDING")
      /\ \A j \in DOMAIN cache.jobs : j # n => cache'.jobs[j] = cache.jobs[j]
    BY <1>4 DEF With
<1>8. x.bundle \in db.bundles /\ \A j \in DOMAIN db.jobs : db.jobs[j].hash # Hash(x)
    <2>1. PICK b \in db.bundles : b.id = x.bundle.id
        BY <1>1 DEF JobRefused
    <2>2. b = x.bundle
        BY <1>2, <2>1 DEF IInv, Bundles, Known
    <2>3. QED
        BY <1>1, <2>1, <2>2 DEF JobRefused
<1>9. /\ JobOf(x, "PENDING").hash = Hash(x) /\ JobOf(x, "PENDING").bundle = x.bundle.id
      /\ JobOf(x, "PENDING").count = x.ask.count /\ JobOf(x, "PENDING").status = "PENDING"
    BY DEF JobOf
<1>10. \A p \in Servers : p # q /\ Writes(p) => requests[p].job # n /\ WriterOK(requests[p])
    BY <1>2 DEF IInv, Jobs, Writes, Writing, Exporting
<1>11. Jobs'
    <2>1. DOMAIN db'.jobs \subseteq 1..used'.jobs
        BY <1>2, <1>6 DEF IInv, Jobs
    <2>2. \A j \in DOMAIN db'.jobs : db'.jobs[j].bundle \in 1..used'.bundles /\ db'.jobs[j].count \in Nat
        BY <1>2, <1>6, <1>9 DEF IInv, Jobs, Bundles
    <2>3. \A i, j \in DOMAIN db'.jobs : db'.jobs[i].hash = db'.jobs[j].hash => i = j
        BY <1>6, <1>8, <1>9 DEF IInv, Jobs
    <2>4. \A j \in DOMAIN db'.jobs \cap DOMAIN cache'.jobs : SameFile(db'.jobs[j], cache'.jobs[j])
        BY <1>6, <1>7 DEF IInv, Jobs, SameFile
    <2>5. \A p \in Servers : requests'[p].pc \in Exporting => requests'[p].job \in 1..used'.jobs
        BY <1>2, <1>3 DEF IInv, Jobs
    <2>6. \A p, o \in Servers :
              requests'[p].pc \in Exporting /\ requests'[o].pc \in Exporting
                  /\ requests'[p].job = requests'[o].job => p = o
        BY <1>2, <1>3 DEF IInv, Jobs
    <2>7. \A p \in Servers : At(p, "insert")' => requests'[p].job \notin DOMAIN db'.jobs
        <3>1. ASSUME NEW p \in Servers, requests'[p].pc = "insert"
              PROVE  requests'[p].job \notin DOMAIN db'.jobs
            <4>1. p # q /\ requests'[p] = requests[p]
                BY <1>3, <3>1
            <4>2. requests[p].job # n /\ requests[p].job \notin DOMAIN db.jobs
                BY <1>2, <3>1, <4>1 DEF IInv, Jobs, At, Exporting
            <4>3. QED
                BY <1>6, <4>1, <4>2
        <3>2. QED
            BY <3>1 DEF At
    <2>8. ASSUME NEW p \in Servers, Writes(p)' PROVE WriterOK(requests[p])'
        <3>1. CASE p = q
            <4>1. Hash(requests'[p]) = Hash(x) /\ \A status : JobOf(requests'[p], status) = JobOf(x, status)
                BY <1>3, <3>1 DEF Hash, JobOf
            <4>2. Cached(requests[p])'
                <5>1. PICK r : r = requests'[p]
                    OBVIOUS
                <5>2. r.job = n /\ JobOf(r, "PENDING") = JobOf(x, "PENDING")
                    BY <1>3, <3>1, <4>1, <5>1
                <5>3. r.job \in DOMAIN cache'.jobs /\ cache'.jobs[r.job] = JobOf(r, "PENDING")
                    BY <1>7, <5>2
                <5>4. \E status : cache'.jobs[r.job] = JobOf(r, status)
                    BY <5>3
                <5>5. QED
                    BY <5>1, <5>3, <5>4 DEF Cached, JobOf, Hash
            <4>3. requests'[p].job \in DOMAIN db'.jobs /\ requests'[p].bundle \in db'.bundles
                BY <1>3, <1>6, <1>8, <3>1
            <4>4. /\ db'.jobs[requests'[p].job].hash = Hash(requests'[p])
                  /\ SameFile(db'.jobs[requests'[p].job], JobOf(requests'[p], "GENERATING"))
                BY <1>3, <1>6, <1>9, <3>1, <4>1 DEF SameFile, JobOf
            <4>5. QED
                BY <4>2, <4>3, <4>4 DEF WriterOK, Cached, SameFile, JobOf, Hash
        <3>2. CASE p # q
            <4>1. requests'[p] = requests[p] /\ requests[p].job # n /\ WriterOK(requests[p])
                BY <1>3, <1>10, <2>8, <3>2 DEF Writes
            <4>2. requests[p].job \in DOMAIN cache.jobs /\ requests[p].job \in DOMAIN db.jobs
                BY <4>1 DEF WriterOK, Cached
            <4>3. /\ cache'.jobs[requests[p].job] = cache.jobs[requests[p].job]
                  /\ requests[p].job \in DOMAIN cache'.jobs
                  /\ db'.jobs[requests[p].job] = db.jobs[requests[p].job]
                  /\ requests[p].job \in DOMAIN db'.jobs
                BY <1>6, <1>7, <4>1, <4>2
            <4>4. QED
                BY <1>6, <4>1, <4>3, WriterKept
        <3>3. QED
            BY <3>1, <3>2
    <2>9. QED
        BY <2>1, <2>2, <2>3, <2>4, <2>5, <2>6, <2>7, <2>8 DEF Jobs
<1>12. Files'
    <2>1. DOMAIN artifacts' \subseteq DOMAIN db'.jobs
        BY <1>6 DEF IInv, Files
    <2>2. \A j \in DOMAIN artifacts' : \E b \in db'.bundles :
              b.id = db'.jobs[j].bundle /\ artifacts'[j] = Slice(b.rows, 0, db'.jobs[j].count)
        BY <1>6, ZenonT(40) DEF IInv, Files
    <2>3. \A j \in DOMAIN db'.jobs : db'.jobs[j].status = "COMPLETED" => j \in DOMAIN artifacts'
        BY <1>6, <1>9 DEF IInv, Files
    <2>4. \A p \in Servers : At(p, "commit job")' => requests'[p].job \in DOMAIN artifacts'
        BY <1>3 DEF IInv, Files, At
    <2>5. \A j \in DOMAIN cache'.jobs : cache'.jobs[j].status = "COMPLETED" => j \in DOMAIN artifacts'
        BY <1>7, <1>9 DEF IInv, Files
    <2>6. QED
        BY <2>1, <2>2, <2>3, <2>4, <2>5 DEF Files
<1>13. QED
    BY <1>5, <1>11, <1>12 DEF IInv

LEMMA InsertJobLemma == ASSUME IInv, NEW q \in Servers, InsertJob(q) PROVE IInv'
<1>1. /\ At(q, "insert") /\ UNCHANGED <<scores, leadSets, artifacts, shown>>
      /\ \/ /\ cache' = CacheJob(requests[q], "PENDING") /\ Done(q) /\ UNCHANGED db
            /\ Fault \/ UNCHANGED used
         \/ /\ ~JobRefused(requests[q]) /\ cache' = CacheJob(requests[q], "PENDING")
            /\ db' = StoreJob(requests[q], "PENDING") /\ Move(q, "start") /\ UNCHANGED used
    BY DEF InsertJob
<1>2. (Fault \/ UNCHANGED used) =>
          used' \in Counters /\ used'.bundles = used.bundles /\ used'.jobs = used.jobs
    BY UsedLemma DEF IInv, Types
<1>3. QED
    BY <1>1, <1>2, InsertRefused, InsertTaken

\* A step of the request that writes a job: the job keeps its key, its bundle and
\* its count, in the dictionary and the table.
LEMMA WriterStep ==
    ASSUME IInv, NEW q \in Servers, requests[q].pc \in Writing,
           NEW pc \in Writing \cup {"idle"},
           (pc = "idle" /\ Done(q)) \/ (pc # "idle" /\ Move(q, pc)),
           UNCHANGED cache \/ (\E status : cache' = CacheJob(requests[q], status)) \/ cache' = IndexJob(requests[q]),
           UNCHANGED db \/ \E status : db' = StoreJob(requests[q], status),
           Fault \/ UNCHANGED used, UNCHANGED <<scores, leadSets, shown>>
    PROVE  /\ Types' /\ Versions' /\ Bundles' /\ Answers' /\ Jobs'
           /\ requests'[q].pc = pc /\ (pc # "idle" => requests'[q].job = requests[q].job)
           /\ \A p \in Servers : p # q => requests'[p] = requests[p]
<1>1. PICK x, n : x = requests[q] /\ n = x.job
    OBVIOUS
<1>2. x.pc \in Exporting /\ WriterOK(x) /\ n \in DOMAIN db.jobs
    BY <1>1 DEF Exporting, IInv, Jobs, Writes, WriterOK
<1>3. /\ DOMAIN requests' = Servers
      /\ \A p \in Servers : requests'[p] = Idle \/ RequestOK(requests'[p])
      /\ Held' \subseteq Held
      /\ requests'[q].pc = pc
      /\ pc # "idle" => /\ requests'[q].ask = x.ask /\ requests'[q].bundle = x.bundle
                        /\ requests'[q].job = n /\ requests'[q].day = x.day
      /\ \A p \in Servers : p # q => requests'[p] = requests[p]
    BY <1>1, <1>2, ExportStep
<1>4. /\ cache' = [executions |-> cache.executions, bundles |-> cache.bundles,
                   byExecution |-> cache.byExecution, jobs |-> cache'.jobs, index |-> cache'.index]
      /\ cache'.jobs = cache.jobs \/ \E status : cache'.jobs = With(cache.jobs, n, JobOf(x, status))
      /\ db' = [executions |-> db.executions, bundles |-> db.bundles, jobs |-> db'.jobs]
      /\ db'.jobs = db.jobs \/ \E status : db'.jobs = With(db.jobs, n, JobOf(x, status))
    BY <1>1, ShapeLemma, ZenonT(40) DEF IInv
<1>5. used' \in Counters /\ used'.bundles = used.bundles /\ used'.jobs = used.jobs
    BY UsedLemma DEF IInv, Types
<1>6. Types' /\ Versions' /\ Bundles' /\ Answers'
    BY <1>3, <1>4, <1>5, ExportFrame
<1>7. \A status : /\ JobOf(x, status).hash = db.jobs[n].hash
                  /\ SameFile(JobOf(x, status), db.jobs[n]) /\ SameFile(db.jobs[n], JobOf(x, status))
    BY <1>1, <1>2 DEF WriterOK, JobOf, SameFile
<1>8. /\ DOMAIN db'.jobs = DOMAIN db.jobs
      /\ \A j \in DOMAIN db.jobs : db'.jobs[j].hash = db.jobs[j].hash /\ SameFile(db'.jobs[j], db.jobs[j])
    <2>1. CASE db'.jobs = db.jobs
        BY <2>1 DEF SameFile
    <2>2. ASSUME NEW status, db'.jobs = With(db.jobs, n, JobOf(x, status))
          PROVE  /\ DOMAIN db'.jobs = DOMAIN db.jobs
                 /\ \A j \in DOMAIN db.jobs : db'.jobs[j] = IF j = n THEN JobOf(x, status) ELSE db.jobs[j]
        BY <1>2, <2>2 DEF With
    <2>3. QED
        BY <1>4, <1>7, <2>1, <2>2 DEF SameFile
<1>9. \A j \in DOMAIN db.jobs \cap DOMAIN cache'.jobs : SameFile(db.jobs[j], cache'.jobs[j])
    <2>1. CASE cache'.jobs = cache.jobs
        BY <2>1 DEF IInv, Jobs
    <2>2. ASSUME NEW status, cache'.jobs = With(cache.jobs, n, JobOf(x, status))
          PROVE  \A j \in DOMAIN cache'.jobs : IF j = n THEN cache'.jobs[j] = JobOf(x, status)
                                               ELSE j \in DOMAIN cache.jobs /\ cache'.jobs[j] = cache.jobs[j]
        BY <2>2 DEF With
    <2>3. QED
        BY <1>4, <1>7, <2>1, <2>2, ZenonT(40) DEF IInv, Jobs
<1>10. \A p \in Servers : requests'[p].pc \in Exporting =>
           /\ requests[p].pc \in Exporting
           /\ requests'[p].ask = requests[p].ask /\ requests'[p].bundle = requests[p].bundle
           /\ requests'[p].job = requests[p].job /\ requests'[p].day = requests[p].day
    <2>1. "idle" \notin Exporting
        BY DEF Exporting, Writing
    <2>2. QED
        BY <1>1, <1>2, <1>3, <2>1
<1>11. \A p \in Servers : (At(p, "insert")' => At(p, "insert")) /\ (Writes(p)' => Writes(p))
    BY <1>1, <1>3 DEF At, Writes, Writing
<1>12. db'.bundles = db.bundles
    <2>1. db' = [executions |-> db.executions, bundles |-> db.bundles, jobs |-> db'.jobs]
        BY <1>4
    <2>2. [executions |-> db.executions, bundles |-> db.bundles, jobs |-> db'.jobs].bundles = db.bundles
        OBVIOUS
    <2>3. QED
        BY <2>1, <2>2
<1>13. ASSUME NEW p \in Servers, Writes(p)' PROVE Cached(requests[p])'
    <2>1. Writes(p) /\ Cached(requests[p]) /\ requests[p].pc \in Exporting
        BY <1>11, <1>13 DEF IInv, Jobs, WriterOK, Writes, Exporting
    <2>2. /\ requests'[p].job = requests[p].job
          /\ \A status : JobOf(requests'[p], status) = JobOf(requests[p], status)
        <3>1. requests'[p].pc \in Exporting
            BY <1>13 DEF Writes, Exporting
        <3>2. QED
            BY <1>10, <3>1 DEF JobOf, Hash
    <2>3. p # q => requests[p].job # n
        BY <1>1, <1>2, <2>1, ExportLemma
    <2>4. \E status : requests[p].job \in DOMAIN cache'.jobs /\ cache'.jobs[requests[p].job] = JobOf(requests[p], status)
        <3>1. CASE cache'.jobs = cache.jobs
            BY <2>1, <3>1 DEF Cached
        <3>2. ASSUME NEW status, cache'.jobs = With(cache.jobs, n, JobOf(x, status))
              PROVE  \E st : /\ requests[p].job \in DOMAIN cache'.jobs
                             /\ cache'.jobs[requests[p].job] = JobOf(requests[p], st)
            <4>1. CASE p = q
                BY <1>1, <3>2, <4>1 DEF With
            <4>2. CASE p # q
                <5>1. /\ requests[p].job \in DOMAIN cache'.jobs
                      /\ cache'.jobs[requests[p].job] = cache.jobs[requests[p].job]
                    BY <2>1, <2>3, <3>2, <4>2 DEF With, Cached
                <5>2. QED
                    BY <2>1, <5>1 DEF Cached
            <4>3. QED
                BY <4>1, <4>2
        <3>3. QED
            BY <1>4, <3>1, <3>2
    <2>5. QED
        BY <2>2, <2>4 DEF Cached
<1>14. Jobs'
    BY <1>5, <1>8, <1>9, <1>10, <1>11, <1>12, <1>13, JobsKept
<1>15. QED
    BY <1>1, <1>3, <1>6, <1>14

\* The file of a job has the rows that its row in the table names.
LEMMA GenerateLemma == ASSUME IInv, NEW q \in Servers, Generate(q) PROVE IInv'
<1>1. PICK x, n : x = requests[q] /\ n = x.job
    OBVIOUS
<1>2. PICK pc \in {"commit job", "failed"} :
          /\ x.pc = "generate" /\ Move(q, pc) /\ UNCHANGED db
          /\ UNCHANGED cache \/ (cache' = IndexJob(x) /\ pc = "commit job")
          /\ Fault \/ UNCHANGED used
          /\ artifacts' = With(artifacts, n, Workbook(x)) \/ (UNCHANGED artifacts /\ pc = "failed")
          /\ UNCHANGED <<scores, leadSets, shown>>
    BY <1>1 DEF Generate, Generated, At
<1>3. x.pc \in Writing
    BY <1>2 DEF Writing
<1>4. /\ Types' /\ Versions' /\ Bundles' /\ Answers' /\ Jobs'
      /\ requests'[q].pc = pc /\ requests'[q].job = n
      /\ \A p \in Servers : p # q => requests'[p] = requests[p]
    <2>1. pc \in Writing \cup {"idle"} /\ pc # "idle"
        BY DEF Writing
    <2>2. QED
        BY <1>1, <1>2, <1>3, <2>1, WriterStep
<1>5. n \in DOMAIN db.jobs /\ x.bundle \in db.bundles
      /\ x.bundle.id = db.jobs[n].bundle /\ x.ask.count = db.jobs[n].count
    <2>1. WriterOK(x)
        BY <1>1, <1>3 DEF IInv, Jobs, Writes
    <2>2. QED
        BY <1>1, <2>1 DEF WriterOK, SameFile, JobOf
<1>6. Workbook(x) = Slice(x.bundle.rows, 0, db.jobs[n].count)
    BY <1>5 DEF Workbook
<1>7. Files'
    <2>1. CASE UNCHANGED artifacts /\ pc = "failed"
        <3>1. UNCHANGED <<cache, db, artifacts>>
            BY <1>2, <2>1
        <3>2. QED
            BY <1>4, <2>1, <3>1 DEF IInv, Files, At
    <2>2. CASE artifacts' = With(artifacts, n, Workbook(x))
        <3>1. /\ DOMAIN artifacts' = DOMAIN artifacts \cup {n} /\ artifacts'[n] = Workbook(x)
              /\ \A j \in DOMAIN artifacts : j # n => artifacts'[j] = artifacts[j]
            BY <2>2 DEF With
        <3>2. DOMAIN artifacts' \subseteq DOMAIN db'.jobs
            BY <1>2, <1>5, <3>1 DEF IInv, Files
        <3>3. \A j \in DOMAIN artifacts' : \E b \in db'.bundles :
                  b.id = db'.jobs[j].bundle /\ artifacts'[j] = Slice(b.rows, 0, db'.jobs[j].count)
            BY <1>2, <1>5, <1>6, <3>1, ZenonT(40) DEF IInv, Files
        <3>4. \A j \in DOMAIN db'.jobs : db'.jobs[j].status = "COMPLETED" => j \in DOMAIN artifacts'
            BY <1>2, <3>1 DEF IInv, Files
        <3>5. \A p \in Servers : At(p, "commit job")' => requests'[p].job \in DOMAIN artifacts'
            BY <1>4, <3>1 DEF IInv, Files, At
        <3>6. \A j \in DOMAIN cache'.jobs : cache'.jobs[j].status = "COMPLETED" => j \in DOMAIN artifacts'
            <4>1. CASE UNCHANGED cache
                BY <3>1, <4>1 DEF IInv, Files
            <4>2. CASE cache' = IndexJob(x)
                <5>1. cache'.jobs = With(cache.jobs, n, JobOf(x, "COMPLETED"))
                    BY <1>1, <4>2, ShapeLemma DEF IInv
                <5>2. QED
                    BY <3>1, <5>1 DEF With, IInv, Files
            <4>3. QED
                BY <1>2, <4>1, <4>2
        <3>7. QED
            BY <3>2, <3>3, <3>4, <3>5, <3>6 DEF Files
    <2>3. QED
        BY <1>2, <2>1, <2>2
<1>8. QED
    BY <1>4, <1>7 DEF IInv

\* The table's job changes its status, or does not.
LEMMA StatusLemma ==
    ASSUME IInv, NEW q \in Servers, requests[q].pc \in Writing, NEW status,
           status = "COMPLETED" => requests[q].job \in DOMAIN artifacts,
           NEW pc \in {"generate", "failed", "recorded", "idle"},
           (pc = "idle" /\ Done(q)) \/ (pc # "idle" /\ Move(q, pc)),
           UNCHANGED cache \/ cache' = CacheJob(requests[q], status),
           UNCHANGED db \/ db' = StoreJob(requests[q], status),
           Fault \/ UNCHANGED used, UNCHANGED <<scores, leadSets, artifacts, shown>>
    PROVE  IInv'
<1>1. PICK x, n : x = requests[q] /\ n = x.job
    OBVIOUS
<1>2. x.pc \in Writing
    BY <1>1
<1>3. /\ Types' /\ Versions' /\ Bundles' /\ Answers' /\ Jobs'
      /\ requests'[q].pc = pc
      /\ \A p \in Servers : p # q => requests'[p] = requests[p]
    <2>1. pc \in Writing \cup {"idle"}
        BY DEF Writing
    <2>2. QED
        BY <1>1, <1>2, <2>1, WriterStep
<1>4. WriterOK(x) /\ n \in DOMAIN db.jobs
    BY <1>1, <1>2 DEF IInv, Jobs, Writes, WriterOK
<1>5. /\ db'.bundles = db.bundles /\ DOMAIN db'.jobs = DOMAIN db.jobs
      /\ \A j \in DOMAIN db.jobs : db'.jobs[j].bundle = db.jobs[j].bundle /\ db'.jobs[j].count = db.jobs[j].count
      /\ \A j \in DOMAIN db.jobs : db'.jobs[j].status = db.jobs[j].status \/ (j = n /\ db'.jobs[j].status = status)
    <2>1. CASE UNCHANGED db
        BY <2>1
    <2>2. CASE db' = StoreJob(x, status)
        <3>1. db'.bundles = db.bundles /\ db'.jobs = With(db.jobs, n, JobOf(x, status))
            <4>1. Types
                BY DEF IInv
            <4>2. /\ db' = [executions |-> db.executions, bundles |-> db.bundles, jobs |-> db'.jobs]
                  /\ db'.jobs = With(db.jobs, x.job, JobOf(x, status))
                BY <2>2, <4>1, ShapeLemma
            <4>3. [executions |-> db.executions, bundles |-> db.bundles, jobs |-> db'.jobs].bundles = db.bundles
                OBVIOUS
            <4>4. QED
                BY <1>1, <4>2, <4>3
        <3>2. \A j \in DOMAIN db.jobs : db'.jobs[j] = IF j = n THEN JobOf(x, status) ELSE db.jobs[j]
            BY <3>1 DEF With
        <3>3. DOMAIN db'.jobs = DOMAIN db.jobs
            BY <1>4, <3>1 DEF With
        <3>4. /\ JobOf(x, status).bundle = db.jobs[n].bundle /\ JobOf(x, status).count = db.jobs[n].count
              /\ JobOf(x, status).status = status
            BY <1>1, <1>4 DEF WriterOK, JobOf, SameFile
        <3>5. QED
            BY <3>1, <3>2, <3>3, <3>4
    <2>3. QED
        BY <1>1, <2>1, <2>2
<1>6. status = "COMPLETED" => n \in DOMAIN artifacts
    BY <1>1
<1>7. Files'
    <2>1. DOMAIN artifacts' \subseteq DOMAIN db'.jobs
        BY <1>5 DEF IInv, Files
    <2>2. \A j \in DOMAIN artifacts' : \E b \in db'.bundles :
              b.id = db'.jobs[j].bundle /\ artifacts'[j] = Slice(b.rows, 0, db'.jobs[j].count)
        <3>1. ASSUME NEW j \in DOMAIN artifacts
              PROVE  \E b \in db'.bundles :
                         b.id = db'.jobs[j].bundle /\ artifacts'[j] = Slice(b.rows, 0, db'.jobs[j].count)
            <4>1. j \in DOMAIN db.jobs
                BY DEF IInv, Files
            <4>2. db'.jobs[j].bundle = db.jobs[j].bundle /\ db'.jobs[j].count = db.jobs[j].count
                BY <1>5, <4>1
            <4>3. PICK b \in db.bundles :
                      b.id = db.jobs[j].bundle /\ artifacts[j] = Slice(b.rows, 0, db.jobs[j].count)
                BY DEF IInv, Files
            <4>4. QED
                BY <1>5, <4>2, <4>3
        <3>2. QED
            BY <3>1
    <2>3. \A j \in DOMAIN db'.jobs : db'.jobs[j].status = "COMPLETED" => j \in DOMAIN artifacts'
        BY <1>5, <1>6 DEF IInv, Files
    <2>4. \A p \in Servers : At(p, "commit job")' => requests'[p].job \in DOMAIN artifacts'
        BY <1>3 DEF IInv, Files, At
    <2>5. \A j \in DOMAIN cache'.jobs : cache'.jobs[j].status = "COMPLETED" => j \in DOMAIN artifacts'
        <3>1. CASE UNCHANGED cache
            BY <3>1 DEF IInv, Files
        <3>2. CASE cache' = CacheJob(x, status)
            <4>1. cache'.jobs = With(cache.jobs, n, JobOf(x, status))
                BY <1>1, <3>2, ShapeLemma DEF IInv
            <4>2. QED
                <5>1. /\ DOMAIN cache'.jobs = DOMAIN cache.jobs \cup {n} /\ cache'.jobs[n].status = status
                      /\ \A j \in DOMAIN cache.jobs : j # n => cache'.jobs[j] = cache.jobs[j]
                    <6>0. JobOf(x, status).status = status
                        BY DEF JobOf
                    <6>1. PICK v : v = JobOf(x, status) /\ v.status = status
                        BY <6>0
                    <6>2. cache'.jobs = With(cache.jobs, n, v)
                        BY <4>1, <6>1
                    <6>3. QED
                        BY <6>1, <6>2 DEF With
                <5>2. QED
                    BY <1>6, <5>1 DEF IInv, Files
        <3>3. QED
            BY <1>1, <3>1, <3>2
    <2>6. QED
        BY <2>1, <2>2, <2>3, <2>4, <2>5 DEF Files
<1>8. QED
    BY <1>3, <1>7 DEF IInv

LEMMA StartJobLemma == ASSUME IInv, NEW q \in Servers, StartJob(q) PROVE IInv'
<1>1. requests[q].pc \in Writing /\ "GENERATING" # "COMPLETED"
    BY DEF StartJob, At, Writing
<1>2. PICK pc \in {"generate", "idle"} :
          /\ (pc = "idle" /\ Done(q)) \/ (pc # "idle" /\ Move(q, pc))
          /\ UNCHANGED cache \/ cache' = CacheJob(requests[q], "GENERATING")
          /\ UNCHANGED db \/ db' = StoreJob(requests[q], "GENERATING")
          /\ Fault \/ UNCHANGED used
          /\ UNCHANGED <<scores, leadSets, artifacts, shown>>
    BY DEF StartJob
<1>3. QED
    BY <1>1, <1>2, StatusLemma

LEMMA CommitCompletedLemma == ASSUME IInv, NEW q \in Servers, CommitCompleted(q) PROVE IInv'
<1>1. requests[q].pc \in Writing /\ requests[q].job \in DOMAIN artifacts
    BY DEF CommitCompleted, At, Writing, IInv, Files
<1>2. PICK pc \in {"failed", "idle"} :
          /\ (pc = "idle" /\ Done(q)) \/ (pc # "idle" /\ Move(q, pc))
          /\ UNCHANGED db \/ db' = StoreJob(requests[q], "COMPLETED")
          /\ Fault \/ UNCHANGED used
          /\ UNCHANGED <<scores, leadSets, cache, artifacts, shown>>
    BY DEF CommitCompleted
<1>3. QED
    BY <1>1, <1>2, StatusLemma

\* The row that records the failure has the status the dictionary has.
LEMMA RecordFailureLemma == ASSUME IInv, NEW q \in Servers, RecordFailure(q) PROVE IInv'
<1>1. PICK x : x = requests[q]
    OBVIOUS
<1>2. x.pc \in Writing
    BY <1>1 DEF RecordFailure, At, Writing
<1>3. PICK status : x.job \in DOMAIN cache.jobs /\ cache.jobs[x.job] = JobOf(x, status)
    BY <1>1, <1>2 DEF IInv, Jobs, Writes, WriterOK, Cached
<1>4. status = "COMPLETED" => x.job \in DOMAIN artifacts
    <2>1. JobOf(x, status).status = status
        BY DEF JobOf
    <2>2. QED
        BY <1>3, <2>1 DEF IInv, Files
<1>5. PICK pc \in {"recorded", "idle"} :
          /\ (pc = "idle" /\ Done(q)) \/ (pc # "idle" /\ Move(q, pc))
          /\ UNCHANGED db \/ db' = StoreJob(x, status)
          /\ Fault \/ UNCHANGED used
          /\ UNCHANGED <<scores, leadSets, cache, artifacts, shown>>
    BY <1>1, <1>3 DEF RecordFailure, StoreJob
<1>6. QED
    BY <1>1, <1>2, <1>4, <1>5, StatusLemma

LEMMA SaveFailedLemma == ASSUME IInv, NEW q \in Servers, SaveFailed(q) PROVE IInv'
<1>1. requests[q].pc \in Writing /\ "FAILED" # "COMPLETED"
    BY DEF SaveFailed, At, Writing
<1>2. /\ Done(q) /\ cache' = CacheJob(requests[q], "FAILED")
      /\ UNCHANGED db \/ db' = StoreJob(requests[q], "FAILED")
      /\ Fault \/ UNCHANGED used
      /\ UNCHANGED <<scores, leadSets, artifacts, shown>>
    BY DEF SaveFailed
<1>3. PICK pc \in {"generate", "failed", "recorded", "idle"} : pc = "idle"
    OBVIOUS
<1>4. QED
    BY <1>1, <1>2, <1>3, StatusLemma

-----------------------------------------------------------------------------
(* What turns do to the version, downloads and restarts. *)

\* A step that concerns the executions only.
LEMMA VersionsStep ==
    ASSUME IInv, Types', Versions', UNCHANGED <<artifacts, requests, shown>>,
           cache'.bundles = cache.bundles, cache'.jobs = cache.jobs,
           db'.bundles = db.bundles, db'.jobs = db.jobs,
           used'.bundles = used.bundles, used'.jobs = used.jobs
    PROVE  IInv'
<1>1. /\ used' \in Counters /\ used'.bundles \in Nat
      /\ used.bundles <= used'.bundles /\ used.jobs <= used'.jobs
    BY DEF Types, Counters
<1>2. Known' \subseteq Known
    BY DEF Known, Held, Holds
<1>3. Bundles' /\ Answers'
    BY <1>1, <1>2, KnownFrame
<1>4. Jobs' /\ Files'
    BY <1>1, JobsFrame
<1>5. QED
    BY <1>3, <1>4 DEF IInv

\* A scoring that starts, and each score it saves.
LEMMA ScoreLemma ==
    ASSUME IInv, (\E s \in Scorings : Score(s)) \/ (\E lead \in Leads : SaveScore(lead)) \/ NextDay
    PROVE  IInv'
<1>1. UNCHANGED <<leadSets, cache, db, artifacts, requests, shown>>
    BY DEF Score, SaveScore, NextDay
<1>2. used' \in Counters /\ used'.bundles = used.bundles /\ used'.jobs = used.jobs
    <2>1. Fresh("scorings") \/ Fresh("days") \/ UNCHANGED used
        BY DEF Score, SaveScore, NextDay
    <2>2. QED
        BY <2>1, UsedLemma DEF IInv, Types
<1>3. scores' \in [latest : [Leads -> Nat], busy : BOOLEAN, given : [Leads -> Nat], left : SUBSET Leads]
    <2>1. scores \in [latest : [Leads -> Nat], busy : BOOLEAN, given : [Leads -> Nat], left : SUBSET Leads]
        BY DEF IInv, Types
    <2>2. CASE \E s \in Scorings : Score(s)
        BY <2>1, <2>2, DeliveryAssumption DEF Score
    <2>3. CASE \E lead \in Leads : SaveScore(lead)
        <3>1. PICK lead \in Leads : scores' = [scores EXCEPT !.latest[lead] = scores.given[lead], !.left = @ \ {lead}]
            BY <2>3 DEF SaveScore
        <3>2. /\ scores.given[lead] \in Nat
              /\ [scores.latest EXCEPT ![lead] = scores.given[lead]] \in [Leads -> Nat]
              /\ scores.left \ {lead} \in SUBSET Leads
            BY <2>1
        <3>3. scores' = [scores EXCEPT !.latest = [scores.latest EXCEPT ![lead] = scores.given[lead]],
                                       !.left = scores.left \ {lead}]
            BY <2>1, <3>1
        <3>4. QED
            BY <2>1, <3>2, <3>3
    <2>4. CASE NextDay
        BY <2>1, <2>4 DEF NextDay
    <2>5. QED
        BY <2>2, <2>3, <2>4
<1>4. Types'
    BY <1>1, <1>2, <1>3 DEF IInv, Types
<1>5. Versions'
    BY <1>1 DEF IInv, Versions, ExecutionOK
<1>6. QED
    BY <1>1, <1>2, <1>4, <1>5, VersionsStep

LEMMA SaveLeadSetLemma == ASSUME IInv, SaveLeadSet PROVE IInv'
<1>1. PICK s : s = scores.given
    OBVIOUS
<1>2. /\ scores' = [scores EXCEPT !.busy = FALSE] /\ leadSets' = Append(leadSets, Ranked(s))
      /\ UNCHANGED <<cache, db, artifacts, requests, shown, used>>
    BY <1>1 DEF SaveLeadSet
<1>3. s \in [Leads -> Nat] /\ IsFiniteSet(Leads)
    BY <1>1, DeliveryAssumption DEF IInv, Types
<1>4. Ranked(s) \in Seq(Leads) /\ OnceEach(Ranked(s))
    <2>1. s \in [Leads -> Int]
        BY <1>3
    <2>2. QED
        BY <1>3, <2>1, OrderedLemma DEF Ranked
<1>5. leadSets \in Seq(Seq(Leads)) /\ \A n \in DOMAIN leadSets : OnceEach(leadSets[n])
    BY DEF IInv, Versions
<1>6. /\ leadSets' \in Seq(Seq(Leads)) /\ Len(leadSets') = Len(leadSets) + 1
      /\ \A n \in 1..Len(leadSets) : leadSets'[n] = leadSets[n]
      /\ leadSets'[Len(leadSets) + 1] = Ranked(s)
    BY <1>2, <1>4, <1>5, AppendProperties
<1>7. /\ Len(leadSets) \in Nat /\ DOMAIN leadSets = 1..Len(leadSets)
      /\ DOMAIN leadSets' = 1..(Len(leadSets) + 1)
    BY <1>5, <1>6, LenProperties
<1>8. DOMAIN leadSets \subseteq DOMAIN leadSets'
    BY <1>7
<1>9. \A n \in DOMAIN leadSets' : OnceEach(leadSets'[n])
    BY <1>4, <1>5, <1>6, <1>7
<1>10. Versions'
    BY <1>2, <1>6, <1>8, <1>9 DEF IInv, Versions, ExecutionOK
<1>11. Types'
    BY <1>2 DEF IInv, Types
<1>12. QED
    BY <1>2, <1>10, <1>11, VersionsStep DEF IInv, Types

LEMMA PromoteLemma == ASSUME IInv, Promote PROVE IInv'
<1>1. PICK e : e = [id |-> used.executions + 1, set |-> Len(leadSets)]
    OBVIOUS
<1>2. /\ used.executions < Len(leadSets) /\ Fresh("executions")
      /\ cache' = [cache EXCEPT !.executions = Append(@, e)]
      /\ db' = IF db.executions = {} THEN [db EXCEPT !.executions = {e}] ELSE db
      /\ UNCHANGED <<scores, leadSets, artifacts, requests, shown>>
    BY <1>1 DEF Promote
<1>3. used' \in Counters /\ used'.bundles = used.bundles /\ used'.jobs = used.jobs
    BY <1>2, UsedLemma DEF IInv
<1>4. ExecutionOK(e)
    <2>1. used.executions \in Nat
        BY DEF IInv, Types, Counters
    <2>2. Len(leadSets) \in Nat /\ DOMAIN leadSets = 1..Len(leadSets)
        BY LenProperties DEF IInv, Versions
    <2>3. QED
        BY <1>1, <1>2, <2>1, <2>2 DEF ExecutionOK, Execution
<1>5. db' = db
    BY <1>2 DEF IInv, Versions
<1>6. /\ cache' = [executions |-> cache'.executions, bundles |-> cache'.bundles,
                   byExecution |-> cache'.byExecution, jobs |-> cache'.jobs, index |-> cache'.index]
      /\ cache'.bundles = cache.bundles /\ cache'.jobs = cache.jobs
      /\ cache'.executions = Append(cache.executions, e)
    BY <1>2 DEF IInv, Types
<1>7. /\ cache.executions \in Seq(Execution)
      /\ \A n \in DOMAIN cache.executions : ExecutionOK(cache.executions[n])
    BY DEF IInv, Versions
<1>8. /\ cache'.executions \in Seq(Execution) /\ Len(cache'.executions) = Len(cache.executions) + 1
      /\ \A n \in 1..Len(cache.executions) : cache'.executions[n] = cache.executions[n]
      /\ cache'.executions[Len(cache.executions) + 1] = e
    BY <1>4, <1>6, <1>7, AppendProperties DEF ExecutionOK
<1>9. /\ Len(cache.executions) \in Nat /\ DOMAIN cache.executions = 1..Len(cache.executions)
      /\ DOMAIN cache'.executions = 1..(Len(cache.executions) + 1)
    BY <1>7, <1>8, LenProperties
<1>10. cache'.executions # <<>> /\ \A n \in DOMAIN cache'.executions : ExecutionOK(cache'.executions[n])
    BY <1>4, <1>7, <1>8, <1>9, SMTT(20)
<1>11. Versions'
    BY <1>2, <1>5, <1>8, <1>10 DEF IInv, Versions, ExecutionOK
<1>12. Types'
    BY <1>2, <1>3, <1>5, <1>6 DEF IInv, Types
<1>13. QED
    BY <1>2, <1>3, <1>5, <1>6, <1>11, <1>12, VersionsStep

\* A file shows rows of the bundle that the dictionary finds for its job.
LEMMA DownloadLemma == ASSUME IInv, NEW j \in DOMAIN cache.jobs, Download(j) PROVE IInv'
<1>1. PICK b \in BundleOf(cache.jobs[j].bundle) :
          /\ Show(b, artifacts[j]) /\ j \in DOMAIN artifacts
          /\ UNCHANGED <<scores, leadSets, cache, db, artifacts, requests, used>>
    BY DEF Download
<1>2. j \in DOMAIN db.jobs /\ SameFile(db.jobs[j], cache.jobs[j]) /\ db.jobs[j].count \in Nat
    BY <1>1 DEF IInv, Files, Jobs
<1>3. PICK c \in db.bundles : c.id = db.jobs[j].bundle /\ artifacts[j] = Slice(c.rows, 0, db.jobs[j].count)
    BY <1>1 DEF IInv, Files
<1>4. b \in Known /\ c \in Known /\ b.id = c.id
    BY <1>1, <1>2, <1>3 DEF BundleOf, Known, SameFile
<1>5. b = c /\ b.rows \in Seq(Row)
    BY <1>4 DEF IInv, Bundles, Bundle
<1>6. Within(artifacts[j], b.rows)
    BY <1>2, <1>3, <1>5, SliceLemma
<1>7. Known' = Known
    BY <1>1 DEF Known, Held, Holds
<1>8. Answers'
    BY <1>1, <1>4, <1>6, <1>7, ShowLemma
<1>9. Types' /\ Versions' /\ Bundles'
    BY <1>1, <1>7 DEF IInv, Types, Versions, ExecutionOK, Bundles
<1>10. used \in Counters /\ used.bundles <= used.bundles /\ used.jobs <= used.jobs
    BY DEF IInv, Types, Counters
<1>11. Jobs' /\ Files'
    BY <1>1, <1>10, JobsFrame
<1>12. QED
    BY <1>8, <1>9, <1>11 DEF IInv

\* The constructors read the one execution of the version.
LEMMA ExecutionsReadLemma ==
    ASSUME IInv
    PROVE  /\ ExecutionsRead \in Seq(Execution) /\ ExecutionsRead # <<>>
           /\ \A n \in DOMAIN ExecutionsRead : ExecutionOK(ExecutionsRead[n])
<1>1. PICK e \in db.executions : db.executions = {e} /\ ExecutionOK(e)
    BY DEF IInv, Versions
<1>2. IsFiniteSet({e}) /\ Cardinality({e}) = 1
    BY FS_Singleton
<1>3. [x \in {e} |-> -x.id] \in [{e} -> Int]
    BY <1>1 DEF ExecutionOK, Execution
<1>4. PICK q : q = ExecutionsRead
    OBVIOUS
<1>5. q \in Seq({e}) /\ Len(q) = 1
    <2>1. q = Ordered({e}, [x \in {e} |-> -x.id])
        BY <1>1, <1>4 DEF ExecutionsRead
    <2>2. QED
        BY <1>2, <1>3, <2>1, OrderedLemma
<1>6. DOMAIN q = 1..1 /\ \A n \in 1..1 : q[n] = e
    BY <1>5, LenProperties, ElementOfSeq
<1>7. q # <<>>
    BY <1>6
<1>8. e \in Execution
    BY <1>1 DEF ExecutionOK
<1>9. q \in [1..1 -> Execution]
    BY <1>5, <1>6, <1>8, LenProperties
<1>10. q \in Seq(Execution)
    <2>1. 1 \in Nat /\ q \in [1..1 -> Execution]
        BY <1>9
    <2>2. \E n \in Nat : q \in [1..n -> Execution]
        BY <2>1
    <2>3. QED
        BY <2>2, SeqDef
<1>11. QED
    BY <1>1, <1>4, <1>6, <1>7, <1>10

LEMMA RestartLemma == ASSUME IInv, Restart PROVE IInv'
<1>1. /\ Fresh("restarts") /\ requests' = [q \in Servers |-> Idle]
      /\ cache' = [executions |-> ExecutionsRead, bundles |-> db.bundles, byExecution |-> BundlesRead,
                   jobs |-> db.jobs, index |-> IndexRead]
      /\ scores' = [scores EXCEPT !.busy = FALSE]
      /\ UNCHANGED <<leadSets, db, artifacts, shown>>
    BY DEF Restart, Hydrate
<1>2. used' \in Counters /\ used'.bundles = used.bundles /\ used'.jobs = used.jobs
    BY <1>1, UsedLemma DEF IInv
<1>3. DOMAIN requests' = Servers /\ \A q \in Servers : requests'[q] = Idle /\ requests'[q].pc = "idle"
    BY <1>1 DEF Idle
<1>4. /\ cache' = [executions |-> cache'.executions, bundles |-> cache'.bundles,
                   byExecution |-> cache'.byExecution, jobs |-> cache'.jobs, index |-> cache'.index]
      /\ cache'.executions = ExecutionsRead /\ cache'.bundles = db.bundles /\ cache'.jobs = db.jobs
    BY <1>1
<1>5. Types'
    BY <1>1, <1>2, <1>3, <1>4 DEF IInv, Types
<1>6. Versions'
    BY <1>1, <1>4, ExecutionsReadLemma DEF IInv, Versions, ExecutionOK
<1>7. Known' \subseteq Known
    <2>1. Held' = {}
        BY <1>3 DEF Held, Holds
    <2>2. QED
        BY <1>1, <1>4, <2>1 DEF Known
<1>8. used'.bundles \in Nat /\ used.bundles <= used'.bundles
    BY <1>2 DEF IInv, Types, Counters
<1>9. Bundles' /\ Answers'
    BY <1>1, <1>7, <1>8, KnownFrame
<1>10. \A q \in Servers : ~Writes(q)' /\ ~At(q, "insert")' /\ ~At(q, "commit job")' /\ requests'[q].pc \notin Exporting
    BY <1>3 DEF Writes, Writing, At, Exporting
<1>11. Jobs'
    BY <1>1, <1>2, <1>4, <1>10 DEF IInv, Jobs, SameFile
<1>12. Files'
    BY <1>1, <1>10 DEF IInv, Files
<1>13. QED
    BY <1>5, <1>6, <1>9, <1>11, <1>12 DEF IInv

-----------------------------------------------------------------------------
(* The invariant and the properties. *)

LEMMA InitLemma == ASSUME Init PROVE IInv
<1>1. PICK s \in Scorings : /\ scores = [latest |-> s, busy |-> FALSE, given |-> s, left |-> {}]
                            /\ leadSets = <<Ranked(s)>>
    BY DEF Init
<1>2. PICK e : e = [id |-> 1, set |-> 1] /\ cache.executions = <<e>> /\ db.executions = {e}
    BY DEF Init
<1>3. s \in [Leads -> Nat] /\ Ranked(s) \in Seq(Leads) /\ OnceEach(Ranked(s))
    <2>1. s \in [Leads -> Nat] /\ s \in [Leads -> Int] /\ IsFiniteSet(Leads)
        BY DeliveryAssumption
    <2>2. QED
        BY <2>1, OrderedLemma DEF Ranked
<1>4. /\ cache.bundles = {} /\ cache.jobs = <<>> /\ db.bundles = {} /\ db.jobs = <<>>
      /\ artifacts = <<>> /\ shown = {} /\ requests = [q \in Servers |-> Idle]
      /\ used = [scorings |-> 0, executions |-> 1, bundles |-> 0, jobs |-> 0,
                 requests |-> 0, faults |-> 0, restarts |-> 0, days |-> 0]
    BY DEF Init
<1>5. DOMAIN requests = Servers /\ \A q \in Servers : requests[q] = Idle /\ requests[q].pc = "idle"
    BY <1>4 DEF Idle
<1>6. Types
    <2>1. /\ cache = [executions |-> cache.executions, bundles |-> cache.bundles,
                      byExecution |-> cache.byExecution, jobs |-> cache.jobs, index |-> cache.index]
          /\ db = [executions |-> db.executions, bundles |-> db.bundles, jobs |-> db.jobs]
        BY DEF Init
    <2>2. QED
        BY <1>1, <1>3, <1>4, <1>5, <2>1 DEF Types, Counters
<1>7. Versions
    <2>1. leadSets \in Seq(Seq(Leads)) /\ DOMAIN leadSets = {1} /\ leadSets[1] = Ranked(s)
        BY <1>1, <1>3
    <2>2. ExecutionOK(e)
        BY <1>2, <2>1 DEF ExecutionOK, Execution
    <2>3. /\ cache.executions \in Seq(Execution) /\ cache.executions # <<>>
          /\ \A n \in DOMAIN cache.executions : cache.executions[n] = e
        BY <1>2, <2>2 DEF ExecutionOK
    <2>4. QED
        BY <1>2, <1>3, <2>1, <2>2, <2>3 DEF Versions
<1>8. Known = {}
    BY <1>4, <1>5 DEF Known, Held, Holds
<1>9. Bundles /\ Answers
    BY <1>4, <1>8 DEF Bundles, Answers
<1>10. \A q \in Servers : ~Writes(q) /\ ~At(q, "insert") /\ ~At(q, "commit job") /\ requests[q].pc \notin Exporting
    BY <1>5 DEF Writes, Writing, At, Exporting
<1>11. DOMAIN db.jobs = {} /\ DOMAIN cache.jobs = {} /\ DOMAIN artifacts = {}
    BY <1>4
<1>12. Jobs /\ Files
    BY <1>10, <1>11 DEF Jobs, Files
<1>13. QED
    BY <1>6, <1>7, <1>9, <1>12 DEF IInv

LEMMA ServeLemma == ASSUME IInv, NEW q \in Servers, Serve(q) PROVE IInv'
<1>1. CASE AskPage(q)
    BY <1>1, AskLemma DEF AskPage
<1>2. ASSUME NEW snapshot \in 1..used.bundles \cup {None}, NEW ask \in Exports, AskExport(q, snapshot, ask)
      PROVE  IInv'
    <2>1. snapshot \in Nat \cup {None} /\ Arrive(q, "export", snapshot, ask)
        BY <1>2 DEF AskExport, IInv, Types, Counters
    <2>2. QED
        BY <2>1, AskLemma
<1>3. CASE GetBundle(q) \/ FreezeCached(q) \/ FreezeBuild(q) \/ SaveBundle(q) \/ CommitBundle(q)
    BY <1>3, GetBundleLemma, FreezeCachedLemma, FreezeBuildLemma, SaveBundleLemma, CommitBundleLemma
<1>4. CASE AnswerPage(q) \/ RejectExport(q) \/ AnswerExisting(q) \/ CheckExport(q) \/ InsertJob(q)
    BY <1>4, AnswerPageLemma, NoJobLemma, CheckExportLemma, InsertJobLemma
<1>5. CASE StartJob(q) \/ Generate(q) \/ CommitCompleted(q) \/ RecordFailure(q) \/ SaveFailed(q)
    BY <1>5, StartJobLemma, GenerateLemma, CommitCompletedLemma, RecordFailureLemma, SaveFailedLemma
<1>6. QED
    BY <1>1, <1>2, <1>3, <1>4, <1>5 DEF Serve

LEMMA StutterLemma == ASSUME IInv, UNCHANGED vars PROVE IInv'
<1>1. UNCHANGED <<scores, leadSets, cache, db, artifacts, requests, shown, used>>
    BY DEF vars
<1>2. Types' /\ Versions'
    BY <1>1 DEF IInv, Types, Versions, ExecutionOK
<1>3. QED
    BY <1>1, <1>2, VersionsStep

\* The executions, bundles and jobs that requests, dictionaries, tables and
\* files hold agree with each other (app/delivery/queries.py:23, app/exports/service.py:41).
THEOREM Invariance == Spec => []IInv
<1>1. Init => IInv
    BY InitLemma
<1>2. ASSUME IInv, Next PROVE IInv'
    <2>1. CASE (\E s \in Scorings : Score(s)) \/ (\E lead \in Leads : SaveScore(lead)) \/ NextDay
        BY <1>2, <2>1, ScoreLemma
    <2>2. CASE SaveLeadSet \/ Promote
        BY <1>2, <2>2, SaveLeadSetLemma, PromoteLemma
    <2>3. CASE \E q \in Servers : Serve(q)
        BY <1>2, <2>3, ServeLemma
    <2>4. CASE \E j \in DOMAIN cache.jobs : Download(j)
        BY <1>2, <2>4, DownloadLemma
    <2>5. CASE Restart
        BY <1>2, <2>5, RestartLemma
    <2>6. QED
        BY <1>2, <2>1, <2>2, <2>3, <2>4, <2>5 DEF Next
<1>3. IInv /\ [Next]_vars => IInv'
    BY <1>2, StutterLemma
<1>4. QED
    BY <1>1, <1>3, PTL DEF Spec

\* What pages, lead details and workbooks showed of one execution from stored
\* snapshots agrees: the table keeps one snapshot of an execution
\* (migrations/versions/0007_phase7_delivery_exports.py:30).
THEOREM OneSnapshotShown == Spec => []FiguresAgree
<1>1. ASSUME IInv PROVE FiguresAgree
    <2>1. ASSUME NEW x \in shown, NEW y \in shown, x.execution = y.execution,
                 Stored(x.bundle), Stored(y.bundle), x.figure.lead = y.figure.lead
          PROVE  x.figure = y.figure
        <3>1. PICK a \in db.bundles, b \in db.bundles : a.id = x.bundle /\ b.id = y.bundle
            BY <2>1 DEF Stored
        <3>2. /\ x.execution = a.execution /\ x.figure \in Figures(a.rows)
              /\ y.execution = b.execution /\ y.figure \in Figures(b.rows)
            BY <1>1, <3>1 DEF IInv, Answers, Known
        <3>3. a = b /\ LeadsOnce(a.rows)
            BY <1>1, <2>1, <3>1, <3>2 DEF IInv, Bundles, Known
        <3>4. PICK rows : rows = a.rows /\ LeadsOnce(rows) /\ x.figure \in Figures(rows) /\ y.figure \in Figures(rows)
            BY <3>2, <3>3
        <3>5. PICK i \in DOMAIN rows, k \in DOMAIN rows :
                  /\ x.figure = [rank |-> rows[i].rank, lead |-> rows[i].lead, score |-> rows[i].score]
                  /\ y.figure = [rank |-> rows[k].rank, lead |-> rows[k].lead, score |-> rows[k].score]
            BY <3>4 DEF Figures
        <3>6. i = k
            BY <2>1, <3>4, <3>5 DEF LeadsOnce
        <3>7. QED
            BY <3>5, <3>6
    <2>2. QED
        BY <2>1 DEF FiguresAgree, Agree
<1>2. QED
    BY <1>1, Invariance, PTL

\* A stored job that is COMPLETED has its file, with the rows of its snapshot:
\* the file is written before the status (app/exports/service.py:114).
THEOREM CompletedHasFile == Spec => []ArtifactKept
<1>1. IInv => ArtifactKept
    BY DEF IInv, Files, ArtifactKept
<1>2. QED
    BY <1>1, Invariance, PTL

\* A request is generated to the end once: the table takes a request hash once
\* (app/persistence/models/delivery.py:49), and only its writer completes a job.
THEOREM GeneratedOnce == Spec => []OneFilePerRequest
<1>1. IInv => OneFilePerRequest
    BY DEF IInv, Jobs, OneFilePerRequest
<1>2. QED
    BY <1>1, Invariance, PTL
=============================================================================
