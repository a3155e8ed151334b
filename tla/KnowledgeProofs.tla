--------------------------- MODULE KnowledgeProofs ---------------------------
(***************************************************************************)
(* Two results about app/knowledge, for every number of files, documents,  *)
(* requests, models, failures and restarts.                                *)
(*                                                                         *)
(* The vector of a question meets vectors of its own model only.  New      *)
(* chunks and the row that tells their model are written in two            *)
(* transactions, from a copy of the document that may be old, and a search *)
(* goes by the row.  The inductive invariant IInv says why that is enough: *)
(* whoever says that a document has vectors of the present model, the      *)
(* dictionary, the table or the copy of a request, is right, because a     *)
(* process writes no other vectors and a model never comes back.           *)
(*                                                                         *)
(* A document that was answered READY stays so.  The inductive invariant   *)
(* RInv says who can take it away: the one request that runs, whose        *)
(* document it is, and no other; a file belongs to one row, because the    *)
(* table takes a hash once, so that the upload that deletes a file deletes *)
(* its own; and a request that waits for a provider has its row and file   *)
(* when it resumes, or was overlapped.                                     *)
(***************************************************************************)
EXTENDS Knowledge, FiniteSetTheorems, WellFoundedInduction, TLAPS

Statuses == {"UPLOADED", "PARSING", "INDEXING", "READY", "FAILED", "DISABLED"}
Document == [file : Files, shelf : Shelves, status : Statuses, path : BOOLEAN, profile : Nat]
Request ==
    [pc : {"save", "parse", "embedding", "replace", "ready", "failed", "delete"},
     kind : {"upload", "reindex"}, id : Nat, doc : Document]

Counters == [documents : Nat, generations : Nat, requests : Nat, faults : Nat, restarts : Nat]

\* The chunks of a document, if there are any, are of the present model.
Present(id) == id \in DOMAIN chunks => chunks[id].profile = profile

\* What d says of the vectors of a document is right.
Right(id, d) ==
    /\ id \in Nat /\ d \in Document
    /\ d.profile <= profile
    /\ d.profile = profile => Present(id)

RightTable(table) == \A id \in DOMAIN table : Right(id, table[id])

\* A request that is about to say READY has just written the chunks.
RightRequest(x) ==
    \/ x = Idle
    \/ /\ x \in Request
       /\ Right(x.id, x.doc)
       /\ x.pc = "ready" => Present(x.id)

IInv ==
    /\ profile \in Nat \ {0}
    /\ used \in Counters
    /\ RightTable(cached) /\ RightTable(documents)
    /\ DOMAIN requests = Handlers /\ \A h \in Handlers : RightRequest(requests[h])
    /\ DOMAIN questions = Readers /\ VectorsMatch

-----------------------------------------------------------------------------

LEMMA InitLemma == Init => IInv
BY KnowledgeAssumption
   DEF Init, IInv, RightTable, RightRequest, VectorsMatch, Unasked, Idle, Counters

LEMMA PutRight ==
    ASSUME NEW t, NEW id, NEW d, RightTable(t), Right(id, d)
    PROVE  RightTable(Put(t, id, d))
BY DEF RightTable, Put

\* A step that leaves the chunks and the model alone is judged by the tables and
\* requests it leaves.
LEMMA KeepLemma ==
    ASSUME IInv, UNCHANGED <<chunks, profile>>, used' \in Counters,
           RightTable(cached'), RightTable(documents'),
           DOMAIN requests' = Handlers, \A h \in Handlers : RightRequest(requests'[h]),
           DOMAIN questions' = Readers,
           \A r \in Readers : \A x \in questions'[r].hits : x.profile = profile
    PROVE  IInv'
<1>1. \A id, d : Right(id, d) => Right(id, d)'
    BY DEF Right, Present
<1>2. \A x : RightRequest(x) => RightRequest(x)'
    BY <1>1 DEF RightRequest, Present
<1>3. RightTable(cached)' /\ RightTable(documents)'
    BY <1>1 DEF RightTable
<1>4. QED
    BY <1>2, <1>3 DEF IInv, VectorsMatch

\* The requests after one of them has changed.
RightRequests == DOMAIN requests' = Handlers /\ \A h \in Handlers : RightRequest(requests'[h])

LEMMA GotoLemma ==
    ASSUME IInv, NEW h \in Handlers, NEW x, RightRequest(x), Goto(h, x)
    PROVE  RightRequests
BY DEF IInv, Goto, RightRequests

LEMMA BusyLemma ==
    ASSUME IInv, NEW h \in Handlers, requests[h].pc # "idle"
    PROVE  /\ requests[h] \in Request
           /\ requests[h].id \in Nat /\ requests[h].doc \in Document
           /\ Right(requests[h].id, requests[h].doc)
           /\ requests[h].pc = "ready" => Present(requests[h].id)
<1>1. requests[h] \in Request /\ Right(requests[h].id, requests[h].doc)
      /\ (requests[h].pc = "ready" => Present(requests[h].id))
    BY DEF IInv, RightRequest, Idle
<1>2. QED
    BY <1>1 DEF Right

LEMMA MoveLemma ==
    ASSUME IInv, NEW h \in Handlers, requests[h].pc # "idle",
           NEW pc \in {"save", "parse", "embedding", "replace", "failed", "delete"}, Move(h, pc)
    PROVE  RightRequests
<1>1. PICK x : x = [requests[h] EXCEPT !.pc = pc]
    OBVIOUS
<1>2. x \in Request /\ x.pc = pc /\ x.id = requests[h].id /\ x.doc = requests[h].doc
    BY <1>1, BusyLemma DEF Request
<1>3. RightRequest(x)
    BY <1>2, BusyLemma DEF RightRequest
<1>4. QED
    BY <1>1, <1>3, GotoLemma DEF Move

LEMMA DoneLemma == ASSUME IInv, NEW h \in Handlers, Done(h) PROVE RightRequests
BY GotoLemma DEF Done, RightRequest

LEMMA CountLemma == ASSUME IInv, Fault \/ UNCHANGED used PROVE used' \in Counters
BY DEF IInv, Fault, Counters

LEMMA CountBothLemma ==
    ASSUME NEW u \in Counters, NEW v,
           \/ v = [u EXCEPT !.documents = @ + 1, !.requests = @ + 1]
           \/ v = [u EXCEPT !.requests = @ + 1, !.faults = @ + 1]
           \/ v = [u EXCEPT !.requests = @ + 1, !.faults = u.faults]
    PROVE  v \in Counters
<1>1. PICK d \in Nat, r \in Nat, f \in Nat, g \in Nat :
          d = u.documents + 1 /\ r = u.requests + 1 /\ f = u.faults + 1 /\ g = u.faults
    BY DEF Counters
<1>2. \/ v = [u EXCEPT !.documents = d, !.requests = r]
      \/ v = [u EXCEPT !.requests = r, !.faults = f]
      \/ v = [u EXCEPT !.requests = r, !.faults = g]
    BY <1>1
<1>3. CASE v = [u EXCEPT !.documents = d, !.requests = r]
    BY <1>3 DEF Counters
<1>4. CASE v = [u EXCEPT !.requests = r, !.faults = f]
    BY <1>4 DEF Counters
<1>5. CASE v = [u EXCEPT !.requests = r, !.faults = g]
    BY <1>5 DEF Counters
<1>6. QED
    BY <1>2, <1>3, <1>4, <1>5

\* What a step on one document leaves of the tables.
LEMMA StoreLemma ==
    ASSUME IInv, NEW id, NEW d, Right(id, d), Stored(id, d) \/ NotStored(id, d)
    PROVE  RightTable(documents') /\ used' \in Counters
BY PutRight, CountLemma DEF Stored, NotStored, IInv

\* A copy that is given a status says of the vectors what it said before.
LEMMA StatusLemma ==
    ASSUME NEW id, NEW d, Right(id, d), NEW status \in Statuses, NEW path \in BOOLEAN,
           NEW e, e = [d EXCEPT !.path = path, !.status = status] \/ e = [d EXCEPT !.status = status]
    PROVE  Right(id, e)
<1>1. d \in Document
    BY DEF Right
<1>2. e \in Document /\ e.profile = d.profile
    BY <1>1 DEF Document
<1>3. QED
    BY <1>2 DEF Right

LEMMA UpdateLemma ==
    ASSUME IInv, NEW h \in Handlers, requests[h].pc # "idle", NEW d, Right(requests[h].id, d),
           NEW then \in {"parse", "embedding"}, Update(h, d, then)
    PROVE  RightTable(cached') /\ RightTable(documents') /\ used' \in Counters /\ RightRequests
<1>1. RightTable(cached') /\ RightTable(documents') /\ used' \in Counters
    BY PutRight, StoreLemma DEF Update, IInv
<1>2. PICK pc \in {"parse", "embedding", "failed"} :
          Goto(h, [requests[h] EXCEPT !.doc = d, !.pc = pc])
    BY DEF Update
<1>3. PICK x : x = [requests[h] EXCEPT !.doc = d, !.pc = pc]
    OBVIOUS
<1>4. d \in Document
    BY DEF Right
<1>5. x \in Request /\ x.pc = pc /\ x.id = requests[h].id /\ x.doc = d
    BY <1>3, <1>4, BusyLemma DEF Request
<1>6. RightRequest(x)
    BY <1>5 DEF RightRequest
<1>7. QED
    BY <1>1, <1>2, <1>3, <1>6, GotoLemma

-----------------------------------------------------------------------------

LEMMA UploadLemma ==
    ASSUME IInv, NEW h \in Handlers, NEW f \in Files, NEW s \in Shelves,
           UploadExisting(h, f, s) \/ Upload(h, f, s)
    PROVE  IInv'
<1>1. CASE UploadExisting(h, f, s)
    <2>1. UNCHANGED <<cached, documents, chunks, profile, requests, questions>>
          /\ used' = [used EXCEPT !.requests = @ + 1]
        BY <1>1 DEF UploadExisting
    <2>2. used' \in Counters
        BY <2>1 DEF IInv, Counters
    <2>3. QED
        BY <2>1, <2>2, KeepLemma DEF IInv, VectorsMatch
<1>2. CASE Upload(h, f, s)
    <2>1. PICK id, d :
             /\ id = used.documents + 1 /\ d = NewDocument(f, s)
             /\ cached' = Put(cached, id, d)
             /\ \/ /\ documents' = Put(documents, id, d)
                   /\ Goto(h, [pc |-> "save", kind |-> "upload", id |-> id, doc |-> d])
                \/ UNCHANGED <<documents, requests>>
        BY <1>2 DEF Upload
    <2>2. UNCHANGED <<chunks, profile, questions>>
        BY <1>2 DEF Upload
    <2>3. used' \in Counters
        <3>1. PICK counted : counted = [used EXCEPT !.documents = @ + 1, !.requests = @ + 1]
            OBVIOUS
        <3>2. counted \in Counters
            BY <3>1, CountBothLemma DEF IInv
        <3>3. [counted EXCEPT !.faults = @ + 1] \in Counters
            BY <3>2 DEF Counters
        <3>4. used' = counted \/ used' = [counted EXCEPT !.faults = @ + 1]
            BY <1>2, <3>1 DEF Upload
        <3>5. QED
            BY <3>2, <3>3, <3>4
    <2>4. id \in Nat /\ d \in Document /\ d.profile = 0
        BY <2>1 DEF IInv, Counters, NewDocument, Document, Statuses
    <2>5. Right(id, d)
        BY <2>4 DEF IInv, Right
    <2>6. RightTable(cached') /\ RightTable(documents')
        BY <2>1, <2>5, PutRight DEF IInv
    <2>7. RightRequests
        <3>1. PICK x : x = [pc |-> "save", kind |-> "upload", id |-> id, doc |-> d]
            OBVIOUS
        <3>2. RightRequest(x)
            BY <2>4, <2>5, <3>1 DEF RightRequest, Request
        <3>3. QED
            BY <2>1, <3>1, <3>2, GotoLemma DEF IInv, RightRequests
    <2>8. QED
        BY <2>2, <2>3, <2>6, <2>7, KeepLemma DEF IInv, VectorsMatch, RightRequests
<1>3. QED
    BY <1>1, <1>2

LEMMA SaveOrParseLemma ==
    ASSUME IInv, NEW h \in Handlers, SaveFile(h) \/ Parse(h)
    PROVE  IInv'
<1>1. requests[h].pc # "idle" /\ UNCHANGED <<chunks, profile, questions>>
    BY DEF SaveFile, Parse, At
<1>2. \/ \E e, then : /\ then \in {"parse", "embedding"} /\ Right(requests[h].id, e)
                      /\ Update(h, e, then)
      \/ Move(h, "failed") /\ UNCHANGED <<cached, documents>> /\ (Fault \/ UNCHANGED used)
    <2>1. Right(requests[h].id, requests[h].doc)
        BY <1>1, BusyLemma
    <2>2. Right(requests[h].id, [requests[h].doc EXCEPT !.path = TRUE, !.status = "PARSING"])
        BY <2>1, StatusLemma DEF Statuses
    <2>3. Right(requests[h].id, [requests[h].doc EXCEPT !.status = "INDEXING"])
        BY <2>1, StatusLemma DEF Statuses
    <2>4. QED
        BY <2>2, <2>3 DEF SaveFile, Parse
<1>3. RightTable(cached') /\ RightTable(documents') /\ used' \in Counters /\ RightRequests
    BY <1>1, <1>2, UpdateLemma, MoveLemma, CountLemma DEF IInv
<1>4. QED
    BY <1>1, <1>3, KeepLemma DEF IInv, VectorsMatch, RightRequests

LEMMA EmbedOrDeleteLemma ==
    ASSUME IInv, NEW h \in Handlers, Embed(h) \/ DeleteFile(h)
    PROVE  IInv'
<1>1. requests[h].pc # "idle"
      /\ UNCHANGED <<cached, documents, chunks, profile, questions>>
    BY DEF Embed, DeleteFile, At
<1>2. Fault \/ UNCHANGED used
    BY DEF Embed, DeleteFile
<1>3. RightRequests
    BY <1>1, MoveLemma, DoneLemma DEF Embed, DeleteFile
<1>4. QED
    BY <1>1, <1>2, <1>3, KeepLemma, CountLemma DEF IInv, VectorsMatch, RightRequests

\* New chunks are of the present model: who was right before still is.
LEMMA ReplaceChunksLemma ==
    ASSUME IInv, NEW h \in Handlers, ReplaceChunks(h)
    PROVE  IInv'
<1>1. requests[h].pc # "idle" /\ UNCHANGED <<cached, documents, profile, questions>>
    BY DEF ReplaceChunks, At
<1>2. CASE Move(h, "failed") /\ UNCHANGED chunks /\ (Fault \/ UNCHANGED used)
    BY <1>1, <1>2, KeepLemma, MoveLemma, CountLemma DEF IInv, VectorsMatch, RightRequests
<1>3. CASE Chunked(requests[h].id) /\ Move(h, "ready")
    <2>1. PICK id : id = requests[h].id
        OBVIOUS
    <2>2. /\ chunks' = Put(chunks, id, NewChunks)
          /\ used' = [used EXCEPT !.generations = @ + 1]
          /\ requests' = [requests EXCEPT ![h] = [requests[h] EXCEPT !.pc = "ready"]]
        BY <1>3, <2>1 DEF Chunked, Move, Goto
    <2>3. NewChunks.profile = profile
        BY DEF NewChunks
    <2>4. \A x : Present(x) => Present(x)'
        BY <1>1, <2>2, <2>3 DEF Present, Put
    <2>5. Present(id)'
        BY <1>1, <2>2, <2>3 DEF Present, Put
    <2>6. \A x, d : Right(x, d) => Right(x, d)'
        BY <1>1, <2>4 DEF Right
    <2>7. RightTable(cached)' /\ RightTable(documents)'
        BY <1>1, <2>6 DEF IInv, RightTable
    <2>8. \A g \in Handlers : g # h => RightRequest(requests[g])'
        BY <2>2, <2>4, <2>6 DEF IInv, RightRequest
    <2>9. RightRequest(requests[h])'
        <3>1. PICK x : x = [requests[h] EXCEPT !.pc = "ready"]
            OBVIOUS
        <3>2. x \in Request /\ x.id = id /\ x.doc = requests[h].doc
            BY <1>1, <2>1, <3>1, BusyLemma DEF Request
        <3>3. requests'[h] = x
            BY <2>2, <3>1 DEF IInv
        <3>4. Right(x.id, x.doc)'
            BY <1>1, <2>1, <2>6, <3>2, BusyLemma
        <3>5. QED
            BY <2>5, <3>2, <3>3, <3>4 DEF RightRequest
    <2>10. used' \in Counters
        BY <2>2 DEF IInv, Counters
    <2>11. QED
        BY <1>1, <2>2, <2>7, <2>8, <2>9, <2>10 DEF IInv, VectorsMatch
<1>4. QED
    BY <1>2, <1>3 DEF ReplaceChunks

\* READY under the present model: its chunks have just been written.
LEMMA ReadyLemma ==
    ASSUME IInv, NEW h \in Handlers, Ready(h)
    PROVE  IInv'
<1>1. requests[h].pc = "ready" /\ requests[h].pc # "idle" /\ UNCHANGED <<chunks, profile, questions>>
    BY DEF Ready, At
<1>2. PICK id, d : id = requests[h].id
                   /\ d = [requests[h].doc EXCEPT !.status = "READY", !.profile = profile]
    OBVIOUS
<1>3. d \in Document /\ d.profile = profile
    BY <1>1, <1>2, BusyLemma DEF Document, Statuses, IInv
<1>4. Right(id, d)
    BY <1>1, <1>2, <1>3, BusyLemma DEF Right, IInv
<1>5. /\ cached' = Put(cached, id, d)
      /\ \/ Stored(id, d) /\ Done(h)
         \/ NotStored(id, d) /\ Goto(h, [requests[h] EXCEPT !.doc = d, !.pc = "failed"])
    BY <1>2 DEF Ready
<1>6. RightTable(cached') /\ RightTable(documents') /\ used' \in Counters
    BY <1>4, <1>5, PutRight, StoreLemma DEF IInv
<1>7. RightRequests
    <2>1. PICK x : x = [requests[h] EXCEPT !.doc = d, !.pc = "failed"]
        OBVIOUS
    <2>2. x \in Request /\ x.pc = "failed" /\ x.id = id /\ x.doc = d
        BY <1>1, <1>2, <1>3, <2>1, BusyLemma DEF Request
    <2>3. RightRequest(x)
        BY <1>4, <2>2 DEF RightRequest
    <2>4. QED
        BY <1>5, <2>1, <2>3, GotoLemma, DoneLemma
<1>8. QED
    BY <1>1, <1>6, <1>7, KeepLemma DEF IInv, VectorsMatch, RightRequests

LEMMA FailedLemma ==
    ASSUME IInv, NEW h \in Handlers, Failed(h)
    PROVE  IInv'
<1>1. requests[h].pc # "idle" /\ UNCHANGED <<chunks, profile, questions>>
    BY DEF Failed, At
<1>2. PICK d : d = [requests[h].doc EXCEPT !.status = "FAILED"]
    OBVIOUS
<1>3. Right(requests[h].id, d)
    BY <1>1, <1>2, BusyLemma, StatusLemma DEF Statuses
<1>4. /\ cached' = Put(cached, requests[h].id, d)
      /\ Stored(requests[h].id, d) \/ NotStored(requests[h].id, d)
      /\ Move(h, "delete") \/ Done(h)
    BY <1>2 DEF Failed
<1>5. RightTable(cached') /\ RightTable(documents') /\ used' \in Counters
    BY <1>3, <1>4, PutRight, StoreLemma DEF IInv
<1>6. RightRequests
    BY <1>1, <1>4, MoveLemma, DoneLemma
<1>7. QED
    BY <1>1, <1>5, <1>6, KeepLemma DEF IInv, VectorsMatch, RightRequests

LEMMA ReindexLemma ==
    ASSUME IInv, NEW h \in Handlers, NEW id \in DOMAIN cached, Reindex(h, id)
    PROVE  IInv'
<1>1. UNCHANGED <<cached, documents, chunks, profile, questions>>
      /\ used' = [used EXCEPT !.requests = @ + 1]
    BY DEF Reindex
<1>2. PICK pc \in {"embedding", "failed"} :
          Goto(h, [pc |-> pc, kind |-> "reindex", id |-> id, doc |-> cached[id]])
    BY DEF Reindex
<1>3. PICK x : x = [pc |-> pc, kind |-> "reindex", id |-> id, doc |-> cached[id]]
    OBVIOUS
<1>4. Right(id, cached[id])
    BY DEF IInv, RightTable
<1>5. RightRequest(x)
    BY <1>3, <1>4 DEF RightRequest, Request, Right
<1>6. RightRequests
    BY <1>2, <1>3, <1>5, GotoLemma
<1>7. used' \in Counters
    BY <1>1 DEF IInv, Counters
<1>8. QED
    BY <1>1, <1>6, <1>7, KeepLemma DEF IInv, VectorsMatch, RightRequests

LEMMA DisableLemma ==
    ASSUME IInv, NEW h \in Handlers, NEW id \in DOMAIN cached, Disable(h, id)
    PROVE  IInv'
<1>1. UNCHANGED <<chunks, profile, requests, questions>>
    BY DEF Disable
<1>2. PICK d : d = [cached[id] EXCEPT !.status = "DISABLED"]
    OBVIOUS
<1>3. cached' = Put(cached, id, d) /\ (documents' = Put(documents, id, d) \/ UNCHANGED documents)
    BY <1>2 DEF Disable
<1>4. Right(id, d)
    BY <1>2, StatusLemma DEF IInv, RightTable, Statuses
<1>5. RightTable(cached') /\ RightTable(documents')
    BY <1>3, <1>4, PutRight DEF IInv
<1>6. used' \in Counters
    <2>1. \/ used' = [used EXCEPT !.requests = @ + 1]
          \/ used' = [used EXCEPT !.requests = @ + 1, !.faults = @ + 1]
          \/ used' = [used EXCEPT !.requests = @ + 1, !.faults = used.faults]
        BY DEF Disable
    <2>2. CASE used' = [used EXCEPT !.requests = @ + 1]
        BY <2>2 DEF IInv, Counters
    <2>3. CASE used' = [used EXCEPT !.requests = @ + 1, !.faults = @ + 1]
        BY <2>3, CountBothLemma DEF IInv
    <2>4. CASE used' = [used EXCEPT !.requests = @ + 1, !.faults = used.faults]
        BY <2>4, CountBothLemma DEF IInv
    <2>5. QED
        BY <2>1, <2>2, <2>3, <2>4
<1>7. QED
    BY <1>1, <1>5, <1>6, KeepLemma DEF IInv, VectorsMatch

\* A search finds documents whose row says the present model, and the row is right.
LEMMA QuestionLemma ==
    ASSUME IInv, NEW r \in Readers,
           (\E s \in Shelves : Dense(r, s)) \/ Sparse(r) \/ Answer(r)
    PROVE  IInv'
<1>1. UNCHANGED <<cached, documents, chunks, profile, requests>> /\ (Fault \/ UNCHANGED used)
    BY DEF Dense, Sparse, Answer
<1>2. ASSUME NEW s PROVE \A x \in Hits(s) : x.profile = profile
    BY DEF Hits, Searchable, IInv, RightTable, Right, Present
<1>3. DOMAIN questions' = Readers
      /\ \A q \in Readers : \A x \in questions'[q].hits : x.profile = profile
    <2>1. DOMAIN questions' = Readers /\ \A q \in Readers : q # r => questions'[q] = questions[q]
        BY DEF Dense, Sparse, Answer, IInv
    <2>2. \A x \in questions'[r].hits : x.profile = profile
        <3>1. ASSUME NEW s \in Shelves, Dense(r, s)
              PROVE  \A x \in questions'[r].hits : x.profile = profile
            <4>1. questions'[r].hits \in {Hits(s), {}}
                BY <3>1 DEF Dense, IInv
            <4>2. QED
                BY <1>2, <4>1
        <3>2. ASSUME Sparse(r) PROVE \A x \in questions'[r].hits : x.profile = profile
            <4>1. questions'[r].hits = questions[r].hits \cup Hits(questions[r].shelf)
                BY <3>2 DEF Sparse, Fused, IInv
            <4>2. QED
                BY <1>2, <4>1 DEF IInv, VectorsMatch
        <3>3. ASSUME Answer(r) PROVE questions'[r].hits = {}
            BY <3>3 DEF Answer, Unasked, IInv
        <3>4. QED
            BY <3>1, <3>2, <3>3
    <2>3. QED
        BY <2>1, <2>2 DEF IInv, VectorsMatch
<1>4. QED
    BY <1>1, <1>3, KeepLemma, CountLemma DEF IInv

\* Where the model is a new one, nobody says yet that a document has its vectors.
LEMMA RestartLemma ==
    ASSUME IInv, NEW p \in 1..MaxProfile, Restart(p)
    PROVE  IInv'
<1>1. /\ p \in Nat \ {0} /\ p >= profile /\ profile' = p /\ profile \in Nat
      /\ cached' = documents /\ documents' = documents /\ chunks' = chunks
      /\ requests' = [h \in Handlers |-> Idle]
      /\ questions' = [r \in Readers |-> Unasked]
      /\ used' = [used EXCEPT !.restarts = @ + 1]
    BY KnowledgeAssumption DEF Restart, IInv
<1>2. ASSUME NEW id, NEW d, Right(id, d) PROVE Right(id, d)'
    <2>1. d.profile \in Nat /\ d.profile <= profile
        BY <1>2 DEF Right, Document
    <2>2. d.profile <= p /\ (d.profile = p => d.profile = profile /\ profile = p)
        BY <1>1, <2>1
    <2>3. QED
        BY <1>1, <1>2, <2>2 DEF Right, Present
<1>3. RightTable(cached)' /\ RightTable(documents)'
    BY <1>1, <1>2 DEF IInv, RightTable
<1>4. used' \in Counters
    BY <1>1 DEF IInv, Counters
<1>5. QED
    BY <1>1, <1>3, <1>4 DEF IInv, RightRequest, VectorsMatch, Unasked

-----------------------------------------------------------------------------

\* In every state whoever says that a document has present vectors is right.
THEOREM Invariance == Spec => []IInv
<1>1. IInv /\ [Next]_vars => IInv'
    <2> SUFFICES ASSUME IInv, [Next]_vars PROVE IInv'
        OBVIOUS
    <2>1. ASSUME NEW h \in Handlers, Handle(h) PROVE IInv'
        BY <2>1, UploadLemma, SaveOrParseLemma, EmbedOrDeleteLemma, ReplaceChunksLemma,
           ReadyLemma, FailedLemma, ReindexLemma, DisableLemma DEF Handle
    <2>2. CASE \E r \in Readers : (\E s \in Shelves : Dense(r, s)) \/ Sparse(r) \/ Answer(r)
        BY <2>2, QuestionLemma
    <2>3. CASE \E p \in 1..MaxProfile : Restart(p)
        BY <2>3, RestartLemma
    <2>4. CASE UNCHANGED vars
        BY <2>4, KeepLemma DEF vars, IInv, VectorsMatch
    <2>5. QED
        BY <2>1, <2>2, <2>3, <2>4 DEF Next
<1>2. QED
    BY <1>1, InitLemma, PTL DEF Spec

\* ingestion/service.py:93-100 and postgres_business.py:1618: a restart with a new
\* model, or a death between the chunks of a document and its row, never lets a
\* search compare vectors of two models.
THEOREM SameModel == Spec => []VectorsMatch
<1>1. IInv => VectorsMatch
    BY DEF IInv
<1>2. QED
    BY <1>1, Invariance, PTL

-----------------------------------------------------------------------------
(***************************************************************************)
(* Documents that are READY.                                               *)
(***************************************************************************)

Busy(h) == ~At(h, "idle")
Running(h) == requests[h].pc \notin {"idle", "embedding"}
HasFile(id) == documents[id].file \in pdfs \/ id \in overlapped

\* The dictionary has every row, a document keeps its file, and no two rows
\* have the same.
Rows ==
    /\ DOMAIN documents \subseteq DOMAIN cached /\ DOMAIN cached \subseteq 1..used.documents
    /\ \A id \in DOMAIN documents : cached[id].file = documents[id].file
    /\ \A id \in DOMAIN cached : cached[id].path => id \in DOMAIN documents
    /\ \A x, y \in DOMAIN documents : documents[x].file = documents[y].file => x = y

\* A row that is READY can be read and reindexed; where the dictionary says
\* READY and the row does not, a request is about to say FAILED.
Serving ==
    /\ \A id \in DOMAIN documents : documents[id].status = "READY" => id \in DOMAIN chunks /\ HasFile(id)
    /\ \A id \in DOMAIN cached : cached[id].status = "READY" =>
          \/ \E h \in Handlers : At(h, "failed") /\ requests[h].id = id
          \/ id \in DOMAIN documents /\ documents[id] = cached[id]

\* What a request has done to its document.
WorkOK(x) ==
    /\ x.id \in DOMAIN cached /\ cached[x.id].file = x.doc.file
    /\ (x.kind = "upload" \/ x.doc.path \/ x.pc # "failed") => x.id \in DOMAIN documents
    /\ x.pc \in {"save", "parse", "delete"} => x.kind = "upload"
    /\ x.pc \in {"embedding", "replace", "ready"} => HasFile(x.id)
    /\ x.pc = "ready" => x.id \in DOMAIN chunks
    /\ x.pc = "delete" => documents[x.id].status = "FAILED"

\* One request runs at a time, and two on one document overlap.
Work ==
    /\ \A h \in Handlers : Busy(h) => WorkOK(requests[h])
    /\ \A g, h \in Handlers : Running(g) /\ Running(h) => g = h
    /\ \A g, h \in Handlers : Busy(g) /\ Busy(h) /\ requests[g].id = requests[h].id /\ g # h =>
          requests[g].id \in overlapped

\* Nobody works on a document that was answered READY.
Kept == \A id \in promised : id \in DOMAIN documents /\ documents[id].status = "READY" /\ Working(id) = {}

RInv == Rows /\ Serving /\ Work /\ Kept

LEMMA LoopLemma == ASSUME RInv, NEW h \in Handlers, Running(h) PROVE Loop(h)
BY DEF RInv, Work, Running, Loop

\* What other requests rely on and no step takes away.
Grows ==
    /\ DOMAIN cached \subseteq DOMAIN cached'
    /\ \A id \in DOMAIN cached : cached'[id].file = cached[id].file
    /\ DOMAIN documents \subseteq DOMAIN documents'
    /\ \A id \in DOMAIN documents : documents'[id].file = documents[id].file
    /\ DOMAIN chunks \subseteq DOMAIN chunks'
    /\ overlapped \subseteq overlapped'

\* Only one request changes.
Steps(h, x) == \A g \in Handlers : requests'[g] = IF g = h THEN x ELSE requests[g]

LEMMA StepLemma == ASSUME IInv, NEW h \in Handlers, NEW x, Goto(h, x) PROVE Steps(h, x)
BY DEF IInv, Goto, Steps

LEMMA WorkLemma ==
    ASSUME IInv, RInv, NEW h \in Handlers, NEW x, Steps(h, x), Loop(h), Grows,
           x.pc = "idle" \/ WorkOK(x)',
           x.pc # "idle" =>
               \/ Busy(h) /\ x.id = requests[h].id
               \/ \A g \in Handlers \ {h} : Busy(g) /\ requests[g].id = x.id => x.id \in overlapped',
           \A g \in Handlers \ {h} : \A i : Busy(g) /\ i = requests[g].id /\ HasFile(i) => HasFile(i)'
    PROVE  Work'
<1>1. \A g \in Handlers : requests'[g] = IF g = h THEN x ELSE requests[g]
    BY DEF Steps
<1>2. \A g \in Handlers \ {h} : Busy(g) => requests[g].pc = "embedding" /\ WorkOK(requests[g])
    BY DEF RInv, Work, Loop, Busy, At
<1>3. ASSUME NEW g \in Handlers \ {h}, Busy(g) PROVE WorkOK(requests[g])'
    <2>1. PICK y : y = requests[g] /\ y.pc = "embedding" /\ WorkOK(y) /\ requests'[g] = y
        BY <1>1, <1>2, <1>3
    <2>2. HasFile(y.id)'
        BY <1>3, <2>1 DEF WorkOK
    <2>3. WorkOK(y)'
        BY <2>1, <2>2 DEF WorkOK, Grows
    <2>4. QED
        BY <2>1, <2>3 DEF WorkOK, HasFile
<1>4. \A g \in Handlers : Busy(g)' => WorkOK(requests[g])'
    <2>1. CASE x.pc = "idle"
        BY <1>1, <1>3, <2>1 DEF Busy, At
    <2>2. CASE WorkOK(x)'
        <3>1. WorkOK(requests[h])'
            BY <1>1, <2>2 DEF WorkOK, HasFile
        <3>2. \A g \in Handlers \ {h} : Busy(g)' => Busy(g)
            BY <1>1 DEF Busy, At
        <3>3. QED
            BY <1>3, <3>1, <3>2
    <2>3. QED
        BY <2>1, <2>2
<1>5. \A g, o \in Handlers : Running(g)' /\ Running(o)' => g = o
    BY <1>1 DEF Running, Loop
<1>6. \A g, o \in Handlers : Busy(g)' /\ Busy(o)' /\ requests'[g].id = requests'[o].id /\ g # o =>
          requests'[g].id \in overlapped'
    BY <1>1 DEF RInv, Work, Grows, Busy, At
<1>7. QED
    BY <1>4, <1>5, <1>6 DEF Work

\* A document and perhaps its row change, but not their file.
Writes(id, d) ==
    /\ cached' = Put(cached, id, d)
    /\ documents' = documents \/ (~HashTaken(id, d) /\ documents' = Put(documents, id, d))

LEMMA RowsLemma ==
    ASSUME IInv, RInv, NEW id, NEW d, Writes(id, d), used' \in Counters,
           used.documents <= used'.documents, id \in 1..used'.documents,
           id \in DOMAIN cached => d.file = cached[id].file,
           d.path => id \in DOMAIN documents'
    PROVE  /\ Rows'
           /\ DOMAIN cached' = DOMAIN cached \cup {id} /\ cached'[id] = d
           /\ DOMAIN cached \subseteq DOMAIN cached'
           /\ \A x \in DOMAIN cached : cached'[x].file = cached[x].file
           /\ DOMAIN documents \subseteq DOMAIN documents'
           /\ \A x \in DOMAIN documents : documents'[x].file = documents[x].file
           /\ \A x \in DOMAIN cached : x # id => cached'[x] = cached[x]
           /\ \A x \in DOMAIN documents' : x # id => x \in DOMAIN documents /\ documents'[x] = documents[x]
<1>1. /\ DOMAIN cached' = DOMAIN cached \cup {id} /\ cached'[id] = d
      /\ \A x \in DOMAIN cached : x # id => cached'[x] = cached[x]
    BY DEF Writes, Put
<1>2. \/ documents' = documents
      \/ /\ ~HashTaken(id, d)
         /\ DOMAIN documents' = DOMAIN documents \cup {id} /\ documents'[id] = d
         /\ \A x \in DOMAIN documents : x # id => documents'[x] = documents[x]
    BY DEF Writes, Put
<1>3. \A x \in DOMAIN cached : cached'[x].file = cached[x].file
    BY <1>1
<1>4. \A x \in DOMAIN documents : x \in DOMAIN cached /\ documents[x].file = cached[x].file
    BY DEF RInv, Rows
<1>5. /\ DOMAIN documents \subseteq DOMAIN documents'
      /\ \A x \in DOMAIN documents : documents'[x].file = documents[x].file
      /\ \A x \in DOMAIN documents' : x # id => x \in DOMAIN documents /\ documents'[x] = documents[x]
    BY <1>2, <1>4
<1>6. DOMAIN documents' \subseteq DOMAIN cached' /\ DOMAIN cached' \subseteq 1..used'.documents
    <2>1. used.documents \in Nat /\ used'.documents \in Nat
        BY DEF IInv, Counters
    <2>2. 1..used.documents \subseteq 1..used'.documents
        BY <2>1
    <2>3. QED
        BY <1>1, <1>2, <1>4, <2>2 DEF RInv, Rows
<1>7. \A x \in DOMAIN documents' : cached'[x].file = documents'[x].file
    BY <1>1, <1>2, <1>4
<1>8. \A x \in DOMAIN cached' : cached'[x].path => x \in DOMAIN documents'
    BY <1>1, <1>5 DEF RInv, Rows
<1>9. \A x, y \in DOMAIN documents' : documents'[x].file = documents'[y].file => x = y
    BY <1>2 DEF RInv, Rows, HashTaken
<1>10. Rows'
    BY <1>6, <1>7, <1>8, <1>9 DEF Rows
<1>11. QED
    BY <1>1, <1>3, <1>5, <1>10

\* Where no request is about to say FAILED, the dictionary is right.
LEMMA SettledLemma ==
    ASSUME RInv, NEW h \in Handlers, Loop(h), NEW id \in DOMAIN cached, cached[id].status = "READY",
           At(h, "failed") => requests[h].id # id
    PROVE  id \in DOMAIN documents /\ documents[id] = cached[id]
BY DEF RInv, Serving, Loop, At

LEMMA ServingLemma ==
    ASSUME IInv, RInv, NEW h \in Handlers, Loop(h), NEW id, NEW d, Writes(id, d),
           At(h, "failed") => requests[h].id = id,
           DOMAIN chunks \subseteq DOMAIN chunks',
           \A i \in DOMAIN documents : HasFile(i) => HasFile(i)',
           d.status = "READY" =>
               /\ id \in DOMAIN chunks' /\ HasFile(id)'
               /\ documents' = Put(documents, id, d) \/ (At(h, "failed") /\ requests[h].id = id)'
    PROVE  Serving'
<1>1. /\ DOMAIN cached' = DOMAIN cached \cup {id} /\ cached'[id] = d
      /\ \A x \in DOMAIN cached : x # id => cached'[x] = cached[x]
    BY DEF Writes, Put
<1>2. /\ DOMAIN documents \subseteq DOMAIN documents'
      /\ \A x \in DOMAIN documents' : x # id => x \in DOMAIN documents /\ documents'[x] = documents[x]
      /\ documents' = documents \/ documents' = Put(documents, id, d)
    BY DEF Writes, Put
<1>3. documents' = Put(documents, id, d) => id \in DOMAIN documents' /\ documents'[id] = d
    BY DEF Put
<1>4. ASSUME NEW i \in DOMAIN documents', documents'[i].status = "READY"
      PROVE  i \in DOMAIN chunks' /\ HasFile(i)'
    <2>1. CASE i \in DOMAIN documents /\ documents'[i] = documents[i]
        BY <1>4, <2>1 DEF RInv, Serving
    <2>2. CASE i = id /\ documents' = Put(documents, id, d)
        BY <1>3, <1>4, <2>2
    <2>3. QED
        BY <1>2, <2>1, <2>2
<1>5. ASSUME NEW i \in DOMAIN cached', cached'[i].status = "READY"
      PROVE  \/ \E g \in Handlers : (At(g, "failed") /\ requests[g].id = i)'
             \/ i \in DOMAIN documents' /\ documents'[i] = cached'[i]
    <2>1. CASE i = id
        BY <1>1, <1>3, <1>5, <2>1
    <2>2. CASE i # id
        <3>1. i \in DOMAIN cached /\ cached'[i] = cached[i]
            BY <1>1, <2>2
        <3>2. i \in DOMAIN documents /\ documents[i] = cached[i]
            BY <1>5, <2>2, <3>1, SettledLemma
        <3>3. QED
            BY <1>2, <2>2, <3>1, <3>2
    <2>3. QED
        BY <2>1, <2>2
<1>6. QED
    BY <1>4, <1>5 DEF Serving

\* Only one row changes.
OthersStay(id) == \A i \in DOMAIN documents : i # id => i \in DOMAIN documents' /\ documents'[i] = documents[i]

\* Who was answered READY before still is, and who is answered now.
LEMMA KeptLemma ==
    ASSUME IInv, RInv, NEW h \in Handlers, NEW x, Steps(h, x), NEW id,
           x.pc # "idle" => x.id = id,
           OthersStay(id),
           \A i \in promised' :
               \/ i \in promised /\ i # id
               \/ /\ i \in DOMAIN documents' /\ documents'[i].status = "READY" /\ x.pc = "idle"
                  /\ \A g \in Handlers \ {h} : Busy(g) => requests[g].id # i
    PROVE  Kept'
<1>1. \A g \in Handlers : requests'[g] = IF g = h THEN x ELSE requests[g]
    BY DEF Steps
<1>2. ASSUME NEW i \in promised'
      PROVE  i \in DOMAIN documents' /\ documents'[i].status = "READY" /\ Working(i)' = {}
    <2>1. CASE i \in promised /\ i # id
        <3>1. i \in DOMAIN documents /\ documents[i].status = "READY" /\ Working(i) = {}
            BY <2>1 DEF RInv, Kept
        <3>2. Working(i)' = {}
            BY <1>1, <2>1, <3>1 DEF Working, At
        <3>3. QED
            BY <2>1, <3>1, <3>2 DEF OthersStay
    <2>2. CASE /\ i \in DOMAIN documents' /\ documents'[i].status = "READY" /\ x.pc = "idle"
               /\ \A g \in Handlers \ {h} : Busy(g) => requests[g].id # i
        BY <1>1, <2>2 DEF Working, At, Busy
    <2>3. QED
        BY <1>2, <2>1, <2>2
<1>3. QED
    BY <1>2 DEF Kept

\* A running request writes its document and goes on.
LEMMA WriteLemma ==
    ASSUME IInv, IInv', RInv, NEW h \in Handlers, Running(h), NEW id, id = requests[h].id,
           NEW d, d.file = requests[h].doc.file, d.path => id \in DOMAIN documents, Writes(id, d),
           NEW x, Goto(h, x),
           \/ x.pc = "idle"
           \/ /\ x.id = id /\ x.kind = requests[h].kind /\ x.doc.file = d.file
              /\ \/ x.pc = "failed" /\ id \in DOMAIN documents
                 \/ x.pc = "parse" /\ x.kind = "upload"
                 \/ x.pc = "embedding" /\ id \in DOMAIN documents /\ d.file \in pdfs'
                 \/ x.pc = "delete" /\ x.kind = "upload" /\ d.status = "FAILED" /\ documents' = Put(documents, id, d),
           pdfs \subseteq pdfs', UNCHANGED <<chunks, overlapped>>, used'.documents = used.documents,
           d.status = "READY" =>
               /\ id \in DOMAIN chunks /\ id \in DOMAIN documents /\ HasFile(id)
               /\ documents' = Put(documents, id, d) \/ x.pc = "failed",
           \A i \in promised' :
               \/ i \in promised
               \/ /\ i = id /\ Working(id) = {h} /\ x.pc = "idle"
                  /\ d.status = "READY" /\ documents' = Put(documents, id, d)
    PROVE  RInv'
<1>1. Loop(h) /\ Busy(h) /\ WorkOK(requests[h])
    BY LoopLemma DEF RInv, Work, Running, Busy, At
<1>2. /\ id \in DOMAIN cached /\ d.file = cached[id].file
      /\ requests[h].kind = "upload" => id \in DOMAIN documents
    BY <1>1 DEF WorkOK
<1>3. used' \in Counters /\ used.documents <= used'.documents /\ id \in 1..used'.documents
    BY <1>2 DEF IInv, Counters, RInv, Rows
<1>4. d.path => id \in DOMAIN documents'
    BY DEF Writes, Put
<1>5. /\ Rows'
      /\ DOMAIN cached' = DOMAIN cached \cup {id} /\ cached'[id] = d
      /\ DOMAIN cached \subseteq DOMAIN cached'
      /\ \A y \in DOMAIN cached : cached'[y].file = cached[y].file
      /\ DOMAIN documents \subseteq DOMAIN documents'
      /\ \A y \in DOMAIN documents : documents'[y].file = documents[y].file
      /\ \A y \in DOMAIN documents' : y # id => y \in DOMAIN documents /\ documents'[y] = documents[y]
    BY <1>2, <1>3, <1>4, RowsLemma, ZenonT(40)
<1>6. \A i \in DOMAIN documents : HasFile(i) => HasFile(i)'
    BY <1>5 DEF HasFile
<1>7. Grows
    BY <1>5 DEF Grows
<1>8. Steps(h, x) /\ requests'[h] = x
    BY StepLemma DEF Steps
<1>9. Serving'
    <2>1. d.status = "READY" =>
               /\ id \in DOMAIN chunks' /\ HasFile(id)'
               /\ documents' = Put(documents, id, d) \/ (At(h, "failed") /\ requests[h].id = id)'
        BY <1>6, <1>8 DEF At
    <2>2. QED
        BY <1>1, <1>6, <2>1, ServingLemma
<1>10. x.pc = "idle" \/ WorkOK(x)'
    <2>1. ASSUME x.pc # "idle" PROVE WorkOK(x)'
        <3>1. x.id = id /\ x.kind = requests[h].kind /\ x.doc.file = d.file /\ id \in DOMAIN documents'
            BY <1>2, <1>5, <2>1
        <3>2. documents'[id].file = d.file
            BY <1>5, <3>1 DEF Rows
        <3>3. CASE x.pc = "failed" \/ (x.pc = "parse" /\ x.kind = "upload")
            BY <1>5, <3>1, <3>3 DEF WorkOK
        <3>4. CASE x.pc = "embedding" /\ d.file \in pdfs'
            BY <1>5, <3>1, <3>2, <3>4 DEF WorkOK, HasFile
        <3>5. CASE x.pc = "delete" /\ x.kind = "upload" /\ d.status = "FAILED" /\ documents' = Put(documents, id, d)
            <4>1. documents'[id] = d
                BY <3>5 DEF Put
            <4>2. QED
                BY <1>5, <3>1, <3>5, <4>1 DEF WorkOK
        <3>6. QED
            BY <2>1, <3>3, <3>4, <3>5
    <2>2. QED
        BY <2>1
<1>11. Work'
    <2>1. ASSUME NEW g \in Handlers \ {h}, NEW i, Busy(g), i = requests[g].id, HasFile(i)
          PROVE  HasFile(i)'
        <3>1. WorkOK(requests[g]) /\ requests[g].pc = "embedding"
            BY <1>1, <2>1 DEF RInv, Work, Loop, Busy, At
        <3>2. i \in DOMAIN documents
            BY <2>1, <3>1 DEF WorkOK
        <3>3. QED
            BY <1>6, <2>1, <3>2
    <2>2. QED
        BY <1>1, <1>7, <1>8, <1>10, <2>1, WorkLemma
<1>12. Kept'
    <2>1. id \notin promised
        BY <1>1 DEF RInv, Kept, Working, Busy
    <2>2. documents' = Put(documents, id, d) => id \in DOMAIN documents' /\ documents'[id] = d
        BY DEF Put
    <2>3. Working(id) = {h} => \A g \in Handlers \ {h} : Busy(g) => requests[g].id # id
        BY DEF Working, Busy
    <2>4. \A i \in promised' :
               \/ i \in promised /\ i # id
               \/ /\ i \in DOMAIN documents' /\ documents'[i].status = "READY" /\ x.pc = "idle"
                  /\ \A g \in Handlers \ {h} : Busy(g) => requests[g].id # i
        BY <2>1, <2>2, <2>3
    <2>5. OthersStay(id)
        BY <1>5 DEF OthersStay
    <2>6. QED
        BY <1>8, <2>4, <2>5, KeptLemma
<1>13. QED
    BY <1>5, <1>9, <1>11, <1>12 DEF RInv

\* A request goes on and leaves the tables alone.
LEMMA GoOnLemma ==
    ASSUME IInv, IInv', RInv, NEW h \in Handlers, Loop(h), Busy(h), ~At(h, "failed"),
           NEW x, Goto(h, x), x.id = requests[h].id, x.kind = requests[h].kind, x.doc = requests[h].doc,
           \/ x.pc = "failed"
           \/ x.pc = "replace" /\ At(h, "embedding")
           \/ x.pc = "ready" /\ At(h, "replace") /\ x.id \in DOMAIN chunks',
           UNCHANGED <<cached, documents, pdfs, overlapped, promised>>, DOMAIN chunks \subseteq DOMAIN chunks',
           used'.documents = used.documents
    PROVE  RInv'
<1>1. WorkOK(requests[h])
    BY DEF RInv, Work
<1>2. Grows /\ \A i : HasFile(i) => HasFile(i)'
    BY DEF Grows, HasFile
<1>3. Rows'
    BY DEF RInv, Rows
<1>4. Serving'
    BY <1>2, SettledLemma DEF RInv, Serving
<1>5. WorkOK(x)'
    BY <1>1, <1>2 DEF WorkOK, At
<1>6. Work'
    BY <1>2, <1>5, StepLemma, WorkLemma
<1>7. Kept'
    <2>1. x.id \notin promised
        BY DEF RInv, Kept, Working, Busy
    <2>2. OthersStay(x.id)
        BY DEF OthersStay
    <2>3. QED
        BY <2>1, <2>2, StepLemma, KeptLemma
<1>8. QED
    BY <1>3, <1>4, <1>6, <1>7 DEF RInv

\* A document is written to the dictionary, and to its row or not.
LEMMA WrittenLemma ==
    ASSUME IInv, NEW id, NEW d, cached' = Put(cached, id, d), Stored(id, d) \/ NotStored(id, d)
    PROVE  /\ Writes(id, d) /\ used'.documents = used.documents
           /\ Stored(id, d) => documents' = Put(documents, id, d)
BY DEF Writes, Stored, NotStored, Fault, IInv, Counters

LEMMA UpdateKept ==
    ASSUME IInv, IInv', RInv, NEW h \in Handlers, Running(h), NEW d, NEW then,
           d.file = requests[h].doc.file, d.status # "READY", requests[h].id \in DOMAIN documents,
           Update(h, d, then), pdfs \subseteq pdfs', UNCHANGED <<chunks, promised, overlapped>>,
           \/ then = "parse" /\ requests[h].kind = "upload"
           \/ then = "embedding" /\ d.file \in pdfs'
    PROVE  RInv'
<1>1. PICK id : id = requests[h].id
    OBVIOUS
<1>2. Writes(id, d) /\ used'.documents = used.documents
    BY <1>1, WrittenLemma DEF Update
<1>3. PICK pc : /\ pc = then \/ pc = "failed"
                /\ Goto(h, [requests[h] EXCEPT !.doc = d, !.pc = pc])
    BY DEF Update
<1>4. PICK x : x = [requests[h] EXCEPT !.doc = d, !.pc = pc]
    OBVIOUS
<1>5. requests[h] \in Request
    BY BusyLemma DEF Running
<1>6. x.pc = pc /\ x.id = id /\ x.kind = requests[h].kind /\ x.doc = d
    BY <1>1, <1>4, <1>5 DEF Request
<1>7. /\ Goto(h, x)
      /\ \/ x.pc = "failed" /\ id \in DOMAIN documents
         \/ x.pc = "parse" /\ x.kind = "upload"
         \/ x.pc = "embedding" /\ id \in DOMAIN documents /\ d.file \in pdfs'
    BY <1>1, <1>3, <1>4, <1>6
<1>8. QED
    BY <1>1, <1>2, <1>6, <1>7, WriteLemma

LEMMA MoveKept ==
    ASSUME IInv, IInv', RInv, NEW h \in Handlers, Loop(h), Busy(h), ~At(h, "failed"),
           NEW pc, Move(h, pc),
           \/ pc = "failed"
           \/ pc = "replace" /\ At(h, "embedding")
           \/ pc = "ready" /\ At(h, "replace") /\ requests[h].id \in DOMAIN chunks',
           UNCHANGED <<cached, documents, pdfs, overlapped, promised>>, DOMAIN chunks \subseteq DOMAIN chunks',
           used'.documents = used.documents
    PROVE  RInv'
<1>1. PICK x : x = [requests[h] EXCEPT !.pc = pc]
    OBVIOUS
<1>2. requests[h] \in Request
    BY BusyLemma DEF Busy, At
<1>3. x.pc = pc /\ x.id = requests[h].id /\ x.kind = requests[h].kind /\ x.doc = requests[h].doc
    BY <1>1, <1>2 DEF Request
<1>4. Goto(h, x)
    BY <1>1 DEF Move
<1>5. QED
    BY <1>3, <1>4, GoOnLemma

LEMMA FaultLemma == ASSUME IInv, Fault \/ UNCHANGED used PROVE used'.documents = used.documents
BY DEF IInv, Fault, Counters

LEMMA SaveFileKept == ASSUME IInv, IInv', RInv, NEW h \in Handlers, SaveFile(h) PROVE RInv'
<1>1. requests[h].pc = "save" /\ Running(h) /\ Busy(h) /\ Loop(h)
    BY LoopLemma DEF SaveFile, At, Running, Busy
<1>2. WorkOK(requests[h]) /\ requests[h].kind = "upload" /\ requests[h].id \in DOMAIN documents
    BY <1>1 DEF RInv, Work, WorkOK
<1>3. CASE Fault /\ Move(h, "failed") /\ UNCHANGED <<cached, documents, pdfs>>
    BY <1>1, <1>3, FaultLemma, MoveKept DEF SaveFile, At
<1>4. CASE /\ pdfs' = pdfs \cup {requests[h].doc.file}
           /\ Update(h, [requests[h].doc EXCEPT !.path = TRUE, !.status = "PARSING"], "parse")
    <2>1. PICK d : d = [requests[h].doc EXCEPT !.path = TRUE, !.status = "PARSING"]
        OBVIOUS
    <2>2. d.file = requests[h].doc.file /\ d.status # "READY"
        BY <1>1, <2>1, BusyLemma DEF Document
    <2>3. QED
        BY <1>1, <1>2, <1>4, <2>1, <2>2, UpdateKept DEF SaveFile
<1>5. QED
    BY <1>3, <1>4 DEF SaveFile

LEMMA ParseKept == ASSUME IInv, IInv', RInv, NEW h \in Handlers, Parse(h) PROVE RInv'
<1>1. requests[h].pc = "parse" /\ Running(h) /\ Busy(h) /\ Loop(h)
    BY LoopLemma DEF Parse, At, Running, Busy
<1>2. WorkOK(requests[h]) /\ requests[h].id \in DOMAIN documents
    BY <1>1 DEF RInv, Work, WorkOK
<1>3. CASE Move(h, "failed") /\ UNCHANGED <<cached, documents, used>>
    BY <1>1, <1>3, MoveKept DEF Parse, At
<1>4. CASE /\ Parses(requests[h].doc)
           /\ Update(h, [requests[h].doc EXCEPT !.status = "INDEXING"], "embedding")
    <2>1. PICK d : d = [requests[h].doc EXCEPT !.status = "INDEXING"]
        OBVIOUS
    <2>2. d.file = requests[h].doc.file /\ d.status # "READY"
        BY <1>1, <2>1, BusyLemma DEF Document
    <2>3. d.file \in pdfs'
        BY <1>4, <2>2 DEF Parse, Parses
    <2>4. QED
        BY <1>1, <1>2, <1>4, <2>1, <2>2, <2>3, UpdateKept DEF Parse
<1>5. QED
    BY <1>3, <1>4 DEF Parse

LEMMA EmbedKept == ASSUME IInv, IInv', RInv, NEW h \in Handlers, Embed(h) PROVE RInv'
<1>1. At(h, "embedding") /\ ~At(h, "failed") /\ Busy(h) /\ Loop(h) /\ (Move(h, "replace") \/ Move(h, "failed"))
    BY DEF Embed, At, Busy
<1>2. UNCHANGED <<cached, documents, pdfs, overlapped, promised, chunks>> /\ used'.documents = used.documents
    BY FaultLemma DEF Embed
<1>3. QED
    BY <1>1, <1>2, MoveKept

LEMMA ReplaceChunksKept == ASSUME IInv, IInv', RInv, NEW h \in Handlers, ReplaceChunks(h) PROVE RInv'
<1>1. At(h, "replace") /\ ~At(h, "failed") /\ Running(h) /\ Busy(h) /\ Loop(h)
    BY LoopLemma DEF ReplaceChunks, At, Running, Busy
<1>2. UNCHANGED <<cached, documents, pdfs, overlapped, promised>>
    BY DEF ReplaceChunks
<1>3. CASE Chunked(requests[h].id) /\ Move(h, "ready")
    <2>1. used'.documents = used.documents
        BY <1>3 DEF Chunked, IInv, Counters
    <2>2. DOMAIN chunks' = DOMAIN chunks \cup {requests[h].id}
        BY <1>3 DEF Chunked, Put
    <2>3. QED
        BY <1>1, <1>2, <1>3, <2>1, <2>2, MoveKept
<1>4. CASE Move(h, "failed") /\ UNCHANGED chunks /\ (Fault \/ UNCHANGED used)
    BY <1>1, <1>2, <1>4, FaultLemma, MoveKept
<1>5. QED
    BY <1>3, <1>4 DEF ReplaceChunks

\* Answered READY: the row and the chunks are there, and nobody else works on it.
LEMMA ReadyKept == ASSUME IInv, IInv', RInv, NEW h \in Handlers, Ready(h) PROVE RInv'
<1>1. requests[h].pc = "ready" /\ Running(h) /\ Busy(h)
    BY DEF Ready, At, Running, Busy
<1>2. PICK id, d : id = requests[h].id
                   /\ d = [requests[h].doc EXCEPT !.status = "READY", !.profile = profile]
    OBVIOUS
<1>3. requests[h] \in Request /\ d.file = requests[h].doc.file
    BY <1>1, <1>2, BusyLemma DEF Document
<1>4. id \in DOMAIN documents /\ id \in DOMAIN chunks /\ HasFile(id)
    BY <1>1, <1>2 DEF RInv, Work, WorkOK
<1>5. /\ cached' = Put(cached, id, d)
      /\ \/ /\ Stored(id, d) /\ Done(h)
            /\ promised' = IF Working(id) = {h} THEN promised \cup {id} ELSE promised
         \/ /\ NotStored(id, d) /\ UNCHANGED promised
            /\ Goto(h, [requests[h] EXCEPT !.doc = d, !.pc = "failed"])
    BY <1>2 DEF Ready
<1>6. Writes(id, d) /\ used'.documents = used.documents /\ (Stored(id, d) => documents' = Put(documents, id, d))
    BY <1>5, WrittenLemma
<1>7. PICK x : x = [requests[h] EXCEPT !.doc = d, !.pc = "failed"]
    OBVIOUS
<1>8. x.pc = "failed" /\ x.id = id /\ x.kind = requests[h].kind /\ x.doc = d
    BY <1>2, <1>3, <1>7 DEF Request
<1>9. UNCHANGED <<chunks, pdfs, overlapped>>
    BY DEF Ready
<1>10. CASE Stored(id, d) /\ Done(h) /\ promised' = IF Working(id) = {h} THEN promised \cup {id} ELSE promised
    <2>1. Goto(h, Idle) /\ Idle.pc = "idle" /\ documents' = Put(documents, id, d)
        BY <1>6, <1>10 DEF Done, Idle
    <2>2. d.status = "READY"
        BY <1>1, <1>2, BusyLemma DEF Document
    <2>3. QED
        BY <1>1, <1>2, <1>3, <1>4, <1>6, <1>9, <1>10, <2>1, <2>2, WriteLemma
<1>11. CASE NotStored(id, d) /\ UNCHANGED promised /\ Goto(h, x)
    <2>1. /\ id = requests[h].id /\ d.file = requests[h].doc.file
          /\ x.id = id /\ x.kind = requests[h].kind /\ x.doc.file = d.file /\ x.pc = "failed"
          /\ pdfs \subseteq pdfs' /\ \A i \in promised' : i \in promised
        BY <1>2, <1>3, <1>8, <1>9, <1>11
    <2>2. Writes(id, d) /\ Goto(h, x) /\ used'.documents = used.documents
        BY <1>6, <1>11
    <2>3. QED
        BY <1>1, <1>4, <1>9, <2>1, <2>2, WriteLemma
<1>12. QED
    BY <1>5, <1>7, <1>10, <1>11

LEMMA FailedKept == ASSUME IInv, IInv', RInv, NEW h \in Handlers, Failed(h) PROVE RInv'
<1>1. requests[h].pc = "failed" /\ Running(h) /\ Busy(h)
    BY DEF Failed, At, Running, Busy
<1>2. PICK id, d : id = requests[h].id /\ d = [requests[h].doc EXCEPT !.status = "FAILED"]
    OBVIOUS
<1>3. /\ requests[h] \in Request /\ d.file = requests[h].doc.file
      /\ d.path = requests[h].doc.path /\ d.status = "FAILED"
    BY <1>1, <1>2, BusyLemma DEF Document
<1>4. d.path => id \in DOMAIN documents
    BY <1>1, <1>2, <1>3 DEF RInv, Work, WorkOK
<1>5. /\ cached' = Put(cached, id, d)
      /\ \/ Stored(id, d) /\ (IF requests[h].kind = "upload" /\ d.path THEN Move(h, "delete") ELSE Done(h))
         \/ NotStored(id, d) /\ Done(h)
    BY <1>2 DEF Failed
<1>6. Writes(id, d) /\ used'.documents = used.documents /\ (Stored(id, d) => documents' = Put(documents, id, d))
    BY <1>5, WrittenLemma
<1>7. UNCHANGED <<chunks, pdfs, overlapped, promised>>
    BY DEF Failed
<1>8. CASE Stored(id, d) /\ requests[h].kind = "upload" /\ Move(h, "delete")
    <2>1. PICK x : x = [requests[h] EXCEPT !.pc = "delete"]
        OBVIOUS
    <2>2. x.pc = "delete" /\ x.id = id /\ x.kind = requests[h].kind /\ x.doc = requests[h].doc
        BY <1>2, <1>3, <2>1 DEF Request
    <2>3. Goto(h, x)
        BY <1>8, <2>1 DEF Move
    <2>4. QED
        BY <1>1, <1>2, <1>3, <1>4, <1>6, <1>7, <1>8, <2>2, <2>3, WriteLemma
<1>9. CASE Done(h)
    <2>1. Goto(h, Idle) /\ Idle.pc = "idle"
        BY <1>9 DEF Done, Idle
    <2>2. QED
        BY <1>1, <1>2, <1>3, <1>4, <1>6, <1>7, <2>1, WriteLemma
<1>10. QED
    BY <1>5, <1>8, <1>9

\* The file that goes is of a document that says FAILED, or a reindex overlaps it.
LEMMA DeleteFileKept == ASSUME IInv, IInv', RInv, NEW h \in Handlers, DeleteFile(h) PROVE RInv'
<1>1. requests[h].pc = "delete" /\ Running(h) /\ Busy(h) /\ Loop(h)
    BY LoopLemma DEF DeleteFile, At, Running, Busy
<1>2. PICK id, f : id = requests[h].id /\ f = requests[h].doc.file
    OBVIOUS
<1>3. id \in DOMAIN documents /\ documents[id].file = f /\ documents[id].status = "FAILED"
    BY <1>1, <1>2 DEF RInv, Rows, Work, WorkOK
<1>4. /\ pdfs' = pdfs \ {f} /\ Steps(h, Idle) /\ Idle.pc = "idle"
      /\ UNCHANGED <<cached, documents, chunks, promised, overlapped, used>>
    BY <1>2, StepLemma DEF DeleteFile, Done, Idle
<1>5. \A i \in DOMAIN documents : i # id /\ HasFile(i) => HasFile(i)'
    BY <1>3, <1>4 DEF RInv, Rows, HasFile
<1>6. Rows' /\ Grows
    BY <1>4 DEF RInv, Rows, Grows
<1>7. Serving'
    <2>1. \A i \in DOMAIN documents : documents[i].status = "READY" => i \in DOMAIN chunks /\ HasFile(i)'
        BY <1>3, <1>5 DEF RInv, Serving
    <2>2. \A i \in DOMAIN cached : cached[i].status = "READY" => i \in DOMAIN documents /\ documents[i] = cached[i]
        BY <1>1, SettledLemma DEF At
    <2>3. QED
        BY <1>4, <2>1, <2>2 DEF Serving
<1>8. Work'
    <2>1. ASSUME NEW g \in Handlers \ {h}, NEW i, Busy(g), i = requests[g].id, HasFile(i)
          PROVE  HasFile(i)'
        <3>1. CASE i = id
            BY <1>1, <1>2, <1>4, <2>1, <3>1 DEF RInv, Work, HasFile
        <3>2. CASE i # id
            <4>1. WorkOK(requests[g]) /\ requests[g].pc = "embedding"
                BY <1>1, <2>1 DEF RInv, Work, Loop, Busy, At
            <4>2. i \in DOMAIN documents
                BY <2>1, <4>1 DEF WorkOK
            <4>3. QED
                BY <1>5, <2>1, <3>2, <4>2
        <3>3. QED
            BY <3>1, <3>2
    <2>2. QED
        BY <1>1, <1>4, <1>6, <2>1, WorkLemma
<1>9. Kept'
    <2>1. id \notin promised
        BY <1>1, <1>2 DEF RInv, Kept, Working, Busy
    <2>2. OthersStay(id)
        BY <1>4 DEF OthersStay
    <2>3. QED
        BY <1>4, <2>1, <2>2, KeptLemma
<1>10. QED
    BY <1>6, <1>7, <1>8, <1>9 DEF RInv

-----------------------------------------------------------------------------

\* A handler that begins is idle and the only one to run.
LEMMA StartLemma ==
    ASSUME IInv, NEW h \in Handlers, Begin(h)
    PROVE  /\ Loop(h) /\ requests[h].pc = "idle" /\ ~At(h, "failed") /\ ~Busy(h)
           /\ UNCHANGED requests => Steps(h, requests[h])
BY DEF Begin, At, Busy, Steps

LEMMA LeastLemma == ASSUME NEW n \in Nat, NEW S, S \subseteq 1..n, S # {} PROVE Min(S) \in S
<1> DEFINE Upto(m) == S \cap (1..m)
           B == {Upto(m) : m \in S}
<1>1. IsFiniteSet(S)
    <2>1. IsFiniteSet(1..n)
        BY FS_Interval
    <2>2. QED
        BY <2>1, FS_Subset
<1>2. B \subseteq FiniteSubsetsOf(S) /\ B # {}
    <2>1. \A T \in B : T \subseteq S /\ IsFiniteSet(T)
        BY <1>1, FS_Subset
    <2>2. QED
        BY <2>1 DEF FiniteSubsetsOf
<1>3. PICK T \in B : \A U \in B : <<U, T>> \notin StrictSubsetOrdering(S)
    BY <1>2, FS_StrictSubsetOrderingWellFounded, WFMin
<1>4. PICK m \in S : T = Upto(m)
    BY <1>3
<1>5. ASSUME NEW k \in S, k < m PROVE FALSE
    <2>1. k \in Nat /\ m \in Nat /\ k >= 1
        OBVIOUS
    <2>2. Upto(k) \subseteq Upto(m) /\ m \in Upto(m) /\ m \notin Upto(k)
        BY <1>5, <2>1
    <2>3. <<Upto(k), T>> \in StrictSubsetOrdering(S)
        BY <1>4, <2>2 DEF StrictSubsetOrdering
    <2>4. QED
        BY <1>3, <2>3
<1>6. \A k \in S : m <= k
    <2>1. \A k \in S : k \in Nat /\ m \in Nat
        OBVIOUS
    <2>2. QED
        BY <1>5, <2>1
<1>7. QED
    BY <1>6 DEF Min

LEMMA FoundLemma ==
    ASSUME IInv, RInv, NEW f, NEW s, NEW id \in FindByHash(f, s)
    PROVE  id \in DOMAIN cached
<1>1. Found(f, s) \subseteq 1..used.documents /\ used.documents \in Nat
    BY DEF RInv, Rows, Found, IInv, Counters
<1>2. Found(f, s) # {} /\ id = Min(Found(f, s))
    BY DEF FindByHash
<1>3. id \in Found(f, s)
    BY <1>1, <1>2, LeastLemma
<1>4. QED
    BY <1>3 DEF Found

\* The document that is found is READY in its row as well.
LEMMA UploadExistingKept ==
    ASSUME IInv, IInv', RInv, NEW h \in Handlers, NEW f \in Files, NEW s \in Shelves, UploadExisting(h, f, s)
    PROVE  RInv'
<1>1. PICK id \in FindByHash(f, s) :
          /\ cached[id].status = "READY"
          /\ promised' = IF Working(id) = {} THEN promised \cup {id} ELSE promised
    BY DEF UploadExisting
<1>2. id \in DOMAIN cached
    BY FoundLemma
<1>3. id \in DOMAIN documents /\ documents[id] = cached[id]
    BY <1>1, <1>2, StartLemma, SettledLemma DEF UploadExisting
<1>4. UNCHANGED <<cached, documents, chunks, pdfs, requests, overlapped>> /\ used'.documents = used.documents
    BY DEF UploadExisting, IInv, Counters
<1>5. Rows'
    BY <1>4 DEF RInv, Rows
<1>6. Serving'
    BY <1>4 DEF RInv, Serving, HasFile, At
<1>7. Work'
    <2>1. \A x : WorkOK(x) => WorkOK(x)'
        BY <1>4 DEF WorkOK, HasFile
    <2>2. QED
        BY <1>4, <2>1 DEF RInv, Work, Busy, Running, At
<1>8. Kept'
    BY <1>1, <1>3, <1>4 DEF RInv, Kept, Working, At
<1>9. QED
    BY <1>5, <1>6, <1>7, <1>8 DEF RInv

\* A new document has an id of its own.
LEMMA UploadKept ==
    ASSUME IInv, IInv', RInv, NEW h \in Handlers, NEW f \in Files, NEW s \in Shelves, Upload(h, f, s)
    PROVE  RInv'
<1>1. PICK id, d : id = used.documents + 1 /\ d = NewDocument(f, s)
    OBVIOUS
<1>2. /\ d.status = "UPLOADED" /\ d.path = FALSE
      /\ used.documents \in Nat /\ id \in Nat
    BY <1>1 DEF NewDocument, IInv, Counters
<1>3. used' \in Counters /\ used'.documents = id
    <2>1. PICK counted : counted = [used EXCEPT !.documents = @ + 1, !.requests = @ + 1]
        OBVIOUS
    <2>2. counted \in Counters /\ counted.documents = id
        BY <1>1, <2>1, CountBothLemma DEF IInv, Counters
    <2>3. used' = counted \/ used' = [counted EXCEPT !.faults = @ + 1]
        BY <2>1 DEF Upload
    <2>4. QED
        BY <2>2, <2>3 DEF IInv, Counters
<1>4. PICK x : x = [pc |-> "save", kind |-> "upload", id |-> id, doc |-> d]
    OBVIOUS
<1>5. /\ cached' = Put(cached, id, d)
      /\ \/ ~HashTaken(id, d) /\ documents' = Put(documents, id, d) /\ Goto(h, x)
         \/ UNCHANGED <<documents, requests>>
      /\ UNCHANGED <<chunks, pdfs, promised, overlapped>>
    BY <1>1, <1>4 DEF Upload
<1>6. id \notin DOMAIN cached /\ id \notin DOMAIN documents /\ id \in 1..used'.documents
      /\ used.documents <= used'.documents
    BY <1>1, <1>2, <1>3 DEF RInv, Rows
<1>7. Writes(id, d)
    BY <1>5 DEF Writes
<1>8. Loop(h) /\ requests[h].pc = "idle" /\ ~At(h, "failed") /\ ~Busy(h)
      /\ (UNCHANGED requests => Steps(h, requests[h]))
    BY StartLemma DEF Upload
<1>9. /\ Rows'
      /\ DOMAIN cached' = DOMAIN cached \cup {id} /\ cached'[id] = d
      /\ DOMAIN cached \subseteq DOMAIN cached'
      /\ \A y \in DOMAIN cached : cached'[y].file = cached[y].file
      /\ DOMAIN documents \subseteq DOMAIN documents'
      /\ \A y \in DOMAIN documents : documents'[y].file = documents[y].file
      /\ \A y \in DOMAIN documents' : y # id => y \in DOMAIN documents /\ documents'[y] = documents[y]
    BY <1>2, <1>3, <1>6, <1>7, RowsLemma
<1>10. Grows /\ \A i \in DOMAIN documents : HasFile(i) => HasFile(i)'
    BY <1>5, <1>9 DEF Grows, HasFile
<1>11. Serving'
    BY <1>2, <1>5, <1>7, <1>8, <1>10, ServingLemma
<1>12. ASSUME NEW g \in Handlers \ {h}, Busy(g)
       PROVE  /\ requests[g].id \in DOMAIN documents /\ requests[g].id # id
              /\ HasFile(requests[g].id)
    <2>1. WorkOK(requests[g]) /\ requests[g].pc = "embedding"
        BY <1>8, <1>12 DEF RInv, Work, Loop, Busy, At
    <2>2. QED
        BY <1>6, <2>1 DEF WorkOK
<1>13. PICK y : Steps(h, y) /\ (y = requests[h] \/ (y = x /\ documents' = Put(documents, id, d)))
    BY <1>5, <1>8, StepLemma
<1>14. Work'
    <2>1. y.pc = "idle" \/ (y.id = id /\ WorkOK(y)')
        <3>1. ASSUME y = x, documents' = Put(documents, id, d) PROVE y.id = id /\ WorkOK(x)'
            <4>1. id \in DOMAIN documents'
                BY <3>1 DEF Put
            <4>2. QED
                BY <1>4, <1>9, <3>1, <4>1 DEF WorkOK
        <3>2. QED
            BY <1>8, <1>13, <3>1 DEF WorkOK, HasFile
    <2>2. y.pc # "idle" => \A g \in Handlers \ {h} : Busy(g) /\ requests[g].id = y.id => y.id \in overlapped'
        BY <1>12, <2>1
    <2>3. \A g \in Handlers \ {h} : \A i : Busy(g) /\ i = requests[g].id /\ HasFile(i) => HasFile(i)'
        BY <1>10, <1>12
    <2>4. QED
        BY <1>8, <1>10, <1>13, <2>1, <2>2, <2>3, WorkLemma
<1>15. Kept'
    <2>1. OthersStay(id)
        BY <1>5 DEF OthersStay, Put
    <2>2. y.pc # "idle" => y.id = id
        BY <1>4, <1>8, <1>13
    <2>3. \A i \in promised' : i \in promised /\ i # id
        BY <1>5, <1>6 DEF RInv, Kept
    <2>4. QED
        BY <1>13, <2>1, <2>2, <2>3, KeptLemma
<1>16. QED
    BY <1>9, <1>11, <1>14, <1>15 DEF RInv

\* The request takes the document from whom it was promised to.
LEMMA ReindexKept ==
    ASSUME IInv, IInv', RInv, NEW h \in Handlers, NEW id \in DOMAIN cached, Reindex(h, id)
    PROVE  RInv'
<1>1. PICK pc : /\ Goto(h, [pc |-> pc, kind |-> "reindex", id |-> id, doc |-> cached[id]])
                /\ pc = IF Parses(cached[id]) THEN "embedding" ELSE "failed"
    BY DEF Reindex
<1>2. PICK x : x = [pc |-> pc, kind |-> "reindex", id |-> id, doc |-> cached[id]]
    OBVIOUS
<1>3. /\ UNCHANGED <<cached, documents, chunks, pdfs>> /\ promised' = promised \ {id}
      /\ overlapped' = IF Working(id) = {} THEN overlapped ELSE overlapped \cup {id}
      /\ used'.documents = used.documents
    BY DEF Reindex, IInv, Counters
<1>4. /\ x.pc = pc /\ x.kind = "reindex" /\ x.id = id /\ x.doc = cached[id] /\ Steps(h, x)
      /\ pc \in {"embedding", "failed"}
    BY <1>1, <1>2, StepLemma
<1>5. Loop(h) /\ requests[h].pc = "idle" /\ ~At(h, "failed")
    BY StartLemma DEF Reindex
<1>6. Rows' /\ Grows /\ \A i : HasFile(i) => HasFile(i)'
    BY <1>3 DEF RInv, Rows, Grows, HasFile
<1>7. Serving'
    <2>1. \A i \in DOMAIN cached : cached[i].status = "READY" => i \in DOMAIN documents /\ documents[i] = cached[i]
        BY <1>5, SettledLemma
    <2>2. QED
        BY <1>3, <1>6, <2>1 DEF RInv, Serving
<1>8. WorkOK(x)'
    <2>1. cached[id].path => id \in DOMAIN documents /\ documents[id].file = cached[id].file
        BY DEF RInv, Rows
    <2>2. pc = "embedding" => cached[id].path /\ cached[id].file \in pdfs
        BY <1>1 DEF Parses
    <2>3. QED
        BY <1>3, <1>4, <2>1, <2>2 DEF WorkOK, HasFile
<1>9. Work'
    <2>1. \A g \in Handlers \ {h} : Busy(g) /\ requests[g].id = x.id => x.id \in overlapped'
        BY <1>3, <1>4 DEF Busy, Working
    <2>2. QED
        BY <1>4, <1>5, <1>6, <1>8, <2>1, WorkLemma
<1>10. Kept'
    <2>1. OthersStay(id)
        BY <1>3 DEF OthersStay
    <2>2. QED
        BY <1>3, <1>4, <2>1, KeptLemma
<1>11. QED
    BY <1>6, <1>7, <1>9, <1>10 DEF RInv

LEMMA DisableKept ==
    ASSUME IInv, IInv', RInv, NEW h \in Handlers, NEW id \in DOMAIN cached, Disable(h, id)
    PROVE  RInv'
<1>1. PICK d : d = [cached[id] EXCEPT !.status = "DISABLED"]
    OBVIOUS
<1>2. /\ d.status = "DISABLED" /\ d.file = cached[id].file /\ d.path = cached[id].path
    BY <1>1 DEF IInv, RightTable, Right, Document
<1>3. Writes(id, d) /\ UNCHANGED <<chunks, pdfs, requests, overlapped>> /\ promised' = promised \ {id}
    BY <1>1 DEF Disable, Writes
<1>4. used' \in Counters /\ used'.documents = used.documents
    <2>1. \/ used' = [used EXCEPT !.requests = @ + 1]
          \/ used' = [used EXCEPT !.requests = @ + 1, !.faults = @ + 1]
          \/ used' = [used EXCEPT !.requests = @ + 1, !.faults = used.faults]
        BY DEF Disable
    <2>2. QED
        BY <2>1 DEF IInv, Counters
<1>5. /\ used.documents <= used'.documents /\ id \in 1..used'.documents
      /\ d.path => id \in DOMAIN documents'
    BY <1>2, <1>3, <1>4 DEF Writes, Put, RInv, Rows, IInv, Counters
<1>6. /\ Rows'
      /\ DOMAIN cached \subseteq DOMAIN cached'
      /\ \A y \in DOMAIN cached : cached'[y].file = cached[y].file
      /\ DOMAIN documents \subseteq DOMAIN documents'
      /\ \A y \in DOMAIN documents : documents'[y].file = documents[y].file
    BY <1>2, <1>3, <1>4, <1>5, RowsLemma
<1>7. Grows /\ \A i \in DOMAIN documents : HasFile(i) => HasFile(i)'
    BY <1>3, <1>6 DEF Grows, HasFile
<1>8. Loop(h) /\ requests[h].pc = "idle" /\ ~At(h, "failed") /\ Steps(h, requests[h])
    BY <1>3, StartLemma DEF Disable
<1>9. Serving'
    BY <1>2, <1>3, <1>7, <1>8, ServingLemma
<1>10. Work'
    <2>1. ASSUME NEW g \in Handlers \ {h}, NEW i, Busy(g), i = requests[g].id, HasFile(i)
          PROVE  HasFile(i)'
        <3>1. WorkOK(requests[g]) /\ requests[g].pc = "embedding"
            BY <1>8, <2>1 DEF RInv, Work, Loop, Busy, At
        <3>2. QED
            BY <1>7, <2>1, <3>1 DEF WorkOK
    <2>2. QED
        BY <1>7, <1>8, <2>1, WorkLemma
<1>11. Kept'
    <2>1. OthersStay(id)
        BY <1>3 DEF OthersStay, Writes, Put
    <2>2. QED
        BY <1>3, <1>8, <2>1, KeptLemma
<1>12. QED
    BY <1>6, <1>9, <1>10, <1>11 DEF RInv

-----------------------------------------------------------------------------

\* After a restart the dictionary is the table and nobody is at work.
LEMMA RestartKept == ASSUME RInv, NEW p, Restart(p), IInv PROVE RInv'
<1>1. /\ cached' = documents /\ UNCHANGED <<documents, chunks, pdfs, promised, overlapped>>
      /\ \A h \in Handlers : requests'[h] = Idle
      /\ used'.documents = used.documents
    BY DEF Restart, IInv, Counters
<1>2. \A h \in Handlers : requests'[h].pc = "idle"
    BY <1>1 DEF Idle
<1>3. Rows' /\ Serving'
    BY <1>1 DEF RInv, Rows, Serving, HasFile
<1>4. Work'
    BY <1>2 DEF Work, Busy, Running, At
<1>5. Kept'
    BY <1>1, <1>2 DEF RInv, Kept, Working, At
<1>6. QED
    BY <1>3, <1>4, <1>5 DEF RInv

LEMMA SameLemma ==
    ASSUME RInv, UNCHANGED <<cached, documents, chunks, pdfs, requests, promised, overlapped>>,
           used'.documents = used.documents
    PROVE  RInv'
<1>1. \A x : WorkOK(x) => WorkOK(x)'
    BY DEF WorkOK, HasFile
<1>2. Rows' /\ Serving'
    BY DEF RInv, Rows, Serving, HasFile, At
<1>3. Work'
    BY <1>1 DEF RInv, Work, Busy, Running, At
<1>4. Kept'
    BY DEF RInv, Kept, Working, At
<1>5. QED
    BY <1>2, <1>3, <1>4 DEF RInv

\* In every state the dictionary, the rows, the chunks, the files and the
\* requests agree as RInv says.
THEOREM ReadyInvariance == Spec => []RInv
<1>1. Init => RInv
    BY DEF Init, RInv, Rows, Serving, Work, Kept, Busy, Running, At, Idle
<1>2. IInv /\ IInv' /\ RInv /\ [Next]_vars => RInv'
    <2> SUFFICES ASSUME IInv, IInv', RInv, [Next]_vars PROVE RInv'
        OBVIOUS
    <2>1. ASSUME NEW h \in Handlers, Handle(h) PROVE RInv'
        <3>1. CASE \E f \in Files, s \in Shelves : UploadExisting(h, f, s) \/ Upload(h, f, s)
            BY <3>1, UploadExistingKept, UploadKept
        <3>2. CASE SaveFile(h) \/ Parse(h) \/ Embed(h) \/ ReplaceChunks(h)
            BY <3>2, SaveFileKept, ParseKept, EmbedKept, ReplaceChunksKept
        <3>3. CASE Ready(h) \/ Failed(h) \/ DeleteFile(h)
            BY <3>3, ReadyKept, FailedKept, DeleteFileKept
        <3>4. CASE \E id \in DOMAIN cached : Reindex(h, id) \/ Disable(h, id)
            BY <3>4, ReindexKept, DisableKept
        <3>5. QED
            BY <2>1, <3>1, <3>2, <3>3, <3>4 DEF Handle
    <2>2. CASE \E r \in Readers : (\E s \in Shelves : Dense(r, s)) \/ Sparse(r) \/ Answer(r)
        <3>1. /\ UNCHANGED <<cached, documents, chunks, pdfs, requests, promised, overlapped>>
              /\ Fault \/ UNCHANGED used
            BY <2>2 DEF Dense, Sparse, Answer
        <3>2. QED
            BY <3>1, FaultLemma, SameLemma
    <2>3. CASE \E p \in 1..MaxProfile : Restart(p)
        BY <2>3, RestartKept
    <2>4. CASE UNCHANGED vars
        BY <2>4, SameLemma DEF vars
    <2>5. QED
        BY <2>1, <2>2, <2>3, <2>4 DEF Next
<1>3. QED
    BY <1>1, <1>2, Invariance, PTL DEF Spec

\* ingestion/service.py:25-27, 55-71 and 93-104: until a request names it, a document
\* that was answered READY stays so, with its chunks and its file, whatever is
\* uploaded, reindexed or disabled besides, whichever transaction, file or provider
\* fails, and after a restart at any point.
THEOREM ReadyStays == Spec => []ReadyIsKept
<1>1. RInv => ReadyIsKept
    BY DEF RInv, Serving, Kept, HasFile, ReadyIsKept, Served
<1>2. QED
    BY <1>1, ReadyInvariance, PTL
=============================================================================
