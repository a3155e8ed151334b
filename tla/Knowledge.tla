------------------------------- MODULE Knowledge -------------------------------
(***************************************************************************)
(* The documents the system may cite: app/knowledge/ingestion/service.py    *)
(* uploads, reindexes and disables them, PostgresKnowledgeRepository keeps  *)
(* them and their chunks, and app/knowledge/retrieval finds chunks for the  *)
(* questions of turns.                                                     *)
(*                                                                         *)
(* Requests run on one event loop and give it up only while a provider      *)
(* computes embeddings; between two awaits they make several transactions,  *)
(* and the process may die after each.  Questions are answered in threads   *)
(* beside the loop.  The cached chunks are left out: with tables, both      *)
(* searches read the tables.                                               *)
(***************************************************************************)
EXTENDS Integers, FiniteSets, FiniteSetsExt, Functions, TLC

CONSTANTS
    Files,           \* contents of files, told apart by their hash
    Scanned,         \* those without text
    Repeating,       \* those with one paragraph twice on a page
    Shelves,         \* where a document is found: a workspace or all of them
    Handlers,        \* requests served at one time by the event loop
    Readers,         \* questions answered at one time by graph threads
    MaxDocuments,    \* bound on the documents created
    MaxProfile,      \* bound on the embedding profiles
    MaxRequests,     \* bound on the requests that name a document
    MaxFaults,       \* bound on failing transactions, files and providers
    MaxRestarts      \* bound on the restarts

ASSUME KnowledgeAssumption == Scanned \cup Repeating \subseteq Files /\ MaxProfile \in Nat \ {0}

VARIABLES
    cached,          \* the dictionary: documents by id
    documents,       \* the rows of knowledge_documents
    chunks,          \* the rows of knowledge_chunks: the last ones of a document
    pdfs,            \* files in data/uploads
    profile,         \* the embedding model the process is configured with
    requests,        \* what each handler is doing
    questions,       \* what each reader has found
    promised,        \* history: answered READY, and not asked to change since
    withdrawn,       \* history: answered DISABLED, and not asked to change since
    overlapped,      \* history: asked to change while another request worked on it
    used             \* counters for the bounds and the fresh ids

vars == <<cached, documents, chunks, pdfs, profile, requests, questions, promised, withdrawn, overlapped, used>>

Idle == [pc |-> "idle"]
Unasked == [pc |-> "idle", hits |-> {}]

Init ==
    /\ cached = <<>> /\ documents = <<>> /\ chunks = <<>>
    /\ pdfs = {}
    /\ profile = 1
    /\ requests = [h \in Handlers |-> Idle]
    /\ questions = [r \in Readers |-> Unasked]
    /\ promised = {} /\ withdrawn = {} /\ overlapped = {}
    /\ used = [documents |-> 0, generations |-> 0, requests |-> 0, faults |-> 0, restarts |-> 0]

-----------------------------------------------------------------------------
(* The repository. *)

\* A dictionary keeps the order in which keys came, which is that of the ids.
Found(f, s) == {id \in DOMAIN cached : cached[id].file = f /\ cached[id].shelf = s}
FindByHash(f, s) == IF Found(f, s) = {} THEN {} ELSE {Min(Found(f, s))}

Put(table, id, d) == [x \in DOMAIN table \cup {id} |-> IF x = id THEN d ELSE table[x]]

\* The unique key on the hash, over all workspaces.
\* Mutant: hashes are unique per document.
HashTaken_Variant(id, d) == FALSE
HashTaken(id, d) == \E x \in DOMAIN documents \ {id} : documents[x].file = d.file

Fault == used.faults < MaxFaults /\ used' = [used EXCEPT !.faults = @ + 1]

\* create_document and update_document: the dictionary first, then a merge of
\* the row, which may be refused or fail.
Stored(id, d) == ~ HashTaken(id, d) /\ documents' = Put(documents, id, d) /\ UNCHANGED used
NotStored(id, d) ==
    /\ UNCHANGED documents
    /\ IF HashTaken(id, d) THEN UNCHANGED used ELSE Fault

\* The pieces of a text with their vectors, as one value: a generation.
NewChunks == [generation |-> used.generations + 1, profile |-> profile]

\* replace_chunks: the old chunks go and the new ones come in one transaction.
Chunked(id) ==
    /\ chunks' = Put(chunks, id, NewChunks)
    /\ used' = [used EXCEPT !.generations = @ + 1]

-----------------------------------------------------------------------------
(* Requests. *)

At(h, pc) == requests[h].pc = pc
Goto(h, r) == requests' = [requests EXCEPT ![h] = r]
Move(h, pc) == Goto(h, [requests[h] EXCEPT !.pc = pc])
Done(h) == Goto(h, Idle)

\* A handler runs when it starts or resumes only if no other is between awaits.
Loop(h) == \A g \in Handlers \ {h} : requests[g].pc \in {"idle", "embedding"}
Begin(h) == At(h, "idle") /\ Loop(h) /\ used.requests < MaxRequests
Working(id) == {h \in Handlers : ~ At(h, "idle") /\ requests[h].id = id}

NewDocument(f, s) == [file |-> f, shelf |-> s, status |-> "UPLOADED", path |-> FALSE, profile |-> 0]

\* A READY document with this hash is the answer.
UploadExisting(h, f, s) ==
    /\ Begin(h)
    /\ \E id \in FindByHash(f, s) :
        /\ cached[id].status = "READY"
        /\ promised' = IF Working(id) = {} THEN promised \cup {id} ELSE promised
    /\ used' = [used EXCEPT !.requests = @ + 1]
    /\ UNCHANGED <<cached, documents, chunks, pdfs, profile, requests, questions, withdrawn, overlapped>>

\* Any other document with this hash is passed over, and a new one created.
Upload(h, f, s) ==
    LET id == used.documents + 1
        d == NewDocument(f, s)
        counted == [used EXCEPT !.documents = @ + 1, !.requests = @ + 1]
    IN
    /\ Begin(h)
    /\ used.documents < MaxDocuments
    /\ \A x \in FindByHash(f, s) : cached[x].status # "READY"
    /\ cached' = Put(cached, id, d)
    /\ \/ /\ ~ HashTaken(id, d)
          /\ documents' = Put(documents, id, d)
          /\ Goto(h, [pc |-> "save", kind |-> "upload", id |-> id, doc |-> d])
          /\ used' = counted
       \/ /\ UNCHANGED <<documents, requests>>                    \* raised: 500
          /\ HashTaken(id, d) \/ used.faults < MaxFaults
          /\ used' = IF HashTaken(id, d) THEN counted ELSE [counted EXCEPT !.faults = @ + 1]
    /\ UNCHANGED <<chunks, pdfs, profile, questions, promised, withdrawn, overlapped>>

\* The copy of the document the handler works on moves to a status.
Update(h, d, then) ==
    LET id == requests[h].id IN
    /\ cached' = Put(cached, id, d)
    /\ \/ Stored(id, d) /\ Goto(h, [requests[h] EXCEPT !.doc = d, !.pc = then])
       \/ NotStored(id, d) /\ Goto(h, [requests[h] EXCEPT !.doc = d, !.pc = "failed"])

\* The file is written under its hash and name: a second document of the same
\* file would share it.
SaveFile(h) ==
    /\ At(h, "save")
    /\ \/ /\ pdfs' = pdfs \cup {requests[h].doc.file}
          /\ Update(h, [requests[h].doc EXCEPT !.path = TRUE, !.status = "PARSING"], "parse")
       \/ Fault /\ Move(h, "failed") /\ UNCHANGED <<cached, documents, pdfs>>
    /\ UNCHANGED <<chunks, profile, questions, promised, withdrawn, overlapped>>

Parses(d) == d.path /\ d.file \in pdfs /\ d.file \notin Scanned

Parse(h) ==
    /\ At(h, "parse")
    /\ IF Parses(requests[h].doc)
       THEN Update(h, [requests[h].doc EXCEPT !.status = "INDEXING"], "embedding")
       ELSE Move(h, "failed") /\ UNCHANGED <<cached, documents, used>>
    /\ UNCHANGED <<chunks, pdfs, profile, questions, promised, withdrawn, overlapped>>

\* The await: other handlers run until the provider answers or fails.
Embed(h) ==
    /\ At(h, "embedding")
    /\ Loop(h)
    /\ \/ Move(h, "replace") /\ UNCHANGED used
       \/ Fault /\ Move(h, "failed")
    /\ UNCHANGED <<cached, documents, chunks, pdfs, profile, questions, promised, withdrawn, overlapped>>

\* The hash of a chunk is unique in its document, and the document has a row.
ChunksRefused(r) == r.doc.file \in Repeating \/ r.id \notin DOMAIN documents

ReplaceChunks(h) ==
    /\ At(h, "replace")
    /\ \/ ~ ChunksRefused(requests[h]) /\ Chunked(requests[h].id) /\ Move(h, "ready")
       \/ /\ IF ChunksRefused(requests[h]) THEN UNCHANGED used ELSE Fault
          /\ Move(h, "failed")
          /\ UNCHANGED chunks
    /\ UNCHANGED <<cached, documents, pdfs, profile, questions, promised, withdrawn, overlapped>>

\* The document is READY, under the profile of its chunks.
Ready(h) ==
    LET id == requests[h].id
        d == [requests[h].doc EXCEPT !.status = "READY", !.profile = profile]
    IN
    /\ At(h, "ready")
    /\ cached' = Put(cached, id, d)
    /\ \/ /\ Stored(id, d) /\ Done(h)
          /\ promised' = IF Working(id) = {h} THEN promised \cup {id} ELSE promised
       \/ /\ NotStored(id, d)
          /\ Goto(h, [requests[h] EXCEPT !.doc = d, !.pc = "failed"])
          /\ UNCHANGED promised
    /\ UNCHANGED <<chunks, pdfs, profile, questions, withdrawn, overlapped>>

\* What was raised: the document is FAILED; an upload that wrote a file deletes
\* it, if this update is not refused as well.
Failed(h) ==
    LET id == requests[h].id
        d == [requests[h].doc EXCEPT !.status = "FAILED"]
    IN
    /\ At(h, "failed")
    /\ cached' = Put(cached, id, d)
    /\ \/ Stored(id, d) /\ (IF requests[h].kind = "upload" /\ d.path THEN Move(h, "delete") ELSE Done(h))
       \/ NotStored(id, d) /\ Done(h)
    /\ UNCHANGED <<chunks, pdfs, profile, questions, promised, withdrawn, overlapped>>

DeleteFile(h) ==
    /\ At(h, "delete")
    /\ pdfs' = pdfs \ {requests[h].doc.file}
    /\ Done(h)
    /\ UNCHANGED <<cached, documents, chunks, profile, questions, promised, withdrawn, overlapped, used>>

\* The handler copies the document; until its await it does not give up the loop.
Reindex(h, id) ==
    /\ Begin(h)
    /\ used' = [used EXCEPT !.requests = @ + 1]
    /\ Goto(h, [pc |-> IF Parses(cached[id]) THEN "embedding" ELSE "failed",
                kind |-> "reindex", id |-> id, doc |-> cached[id]])
    /\ promised' = promised \ {id}
    /\ withdrawn' = withdrawn \ {id}
    /\ overlapped' = IF Working(id) = {} THEN overlapped ELSE overlapped \cup {id}
    /\ UNCHANGED <<cached, documents, chunks, pdfs, profile, questions>>

Disable(h, id) ==
    LET d == [cached[id] EXCEPT !.status = "DISABLED"] IN
    /\ Begin(h)
    /\ cached' = Put(cached, id, d)
    /\ \/ /\ ~ HashTaken(id, d)
          /\ documents' = Put(documents, id, d)
          /\ used' = [used EXCEPT !.requests = @ + 1]
          /\ withdrawn' = withdrawn \cup {id}
       \/ /\ UNCHANGED <<documents, withdrawn>>
          /\ HashTaken(id, d) \/ used.faults < MaxFaults
          /\ used' = [used EXCEPT !.requests = @ + 1, !.faults = IF HashTaken(id, d) THEN @ ELSE @ + 1]
    /\ promised' = promised \ {id}
    /\ UNCHANGED <<chunks, pdfs, profile, requests, questions, overlapped>>

-----------------------------------------------------------------------------
(* Questions. *)

\* The documents a search reads: READY, on a shelf of the asking workspace, and
\* with vectors of the model that embeds the question.
\* Mutant: vectors of any model are compared.
Searchable_Variant(s) == {id \in DOMAIN documents : documents[id].status = "READY" /\ documents[id].shelf = s}
Searchable(s) ==
    {id \in DOMAIN documents : /\ documents[id].status = "READY"
                               /\ documents[id].shelf = s
                               /\ documents[id].profile = profile}
Hits(s) == {[id |-> id, generation |-> chunks[id].generation, profile |-> chunks[id].profile] :
               id \in Searchable(s) \cap DOMAIN chunks}

\* The hits nearest to the question, then those that share its words.  Either
\* search may fail, and the answer then rests on the other.
Dense(r, s) ==
    /\ questions[r].pc = "idle"
    /\ \/ questions' = [questions EXCEPT ![r] = [pc |-> "sparse", hits |-> Hits(s), shelf |-> s]] /\ UNCHANGED used
       \/ Fault /\ questions' = [questions EXCEPT ![r] = [pc |-> "sparse", hits |-> {}, shelf |-> s]]
    /\ UNCHANGED <<cached, documents, chunks, pdfs, profile, requests, promised, withdrawn, overlapped>>

\* Reciprocal ranks put both lists together, one hit for a chunk.
Fused(dense, sparse) == dense \cup sparse

Sparse(r) ==
    /\ questions[r].pc = "sparse"
    /\ questions' = [questions EXCEPT ![r] =
           [pc |-> "cite", hits |-> Fused(questions[r].hits, Hits(questions[r].shelf))]]
    /\ UNCHANGED <<cached, documents, chunks, pdfs, profile, requests, promised, withdrawn, overlapped, used>>

\* The answer cites hits and nothing else.
Answer(r) ==
    /\ questions[r].pc = "cite"
    /\ questions' = [questions EXCEPT ![r] = Unasked]
    /\ UNCHANGED <<cached, documents, chunks, pdfs, profile, requests, promised, withdrawn, overlapped, used>>

-----------------------------------------------------------------------------
\* The process dies and starts again, perhaps with a newer embedding model.
Restart(p) ==
    /\ used.restarts < MaxRestarts
    /\ p \in profile..MaxProfile
    /\ profile' = p
    /\ cached' = documents
    /\ requests' = [h \in Handlers |-> Idle]
    /\ questions' = [r \in Readers |-> Unasked]
    /\ used' = [used EXCEPT !.restarts = @ + 1]
    /\ UNCHANGED <<documents, chunks, pdfs, promised, withdrawn, overlapped>>

Handle(h) ==
    \/ \E f \in Files, s \in Shelves : UploadExisting(h, f, s) \/ Upload(h, f, s)
    \/ SaveFile(h) \/ Parse(h) \/ Embed(h) \/ ReplaceChunks(h) \/ Ready(h) \/ Failed(h) \/ DeleteFile(h)
    \/ \E id \in DOMAIN cached : Reindex(h, id) \/ Disable(h, id)

Next ==
    \/ \E h \in Handlers : Handle(h)
    \/ \E r \in Readers : (\E s \in Shelves : Dense(r, s)) \/ Sparse(r) \/ Answer(r)
    \/ \E p \in 1..MaxProfile : Restart(p)

Spec == Init /\ [][Next]_vars

-----------------------------------------------------------------------------
(* Properties. *)

Served(id) == id \in DOMAIN documents \cap DOMAIN chunks /\ documents[id].status = "READY"

\* A document that was answered READY stays so, with its chunks and, unless a
\* reindex overlapped its upload, its file, until a request names it: whatever
\* uploads of the same file, failures and restarts come in between.
ReadyIsKept ==
    \A id \in promised : Served(id) /\ (documents[id].file \in pdfs \/ id \in overlapped)

\* The vector of a question is compared with vectors of the same model only,
\* although a process may die between the new chunks of a document and its row.
VectorsMatch == \A r \in Readers : \A x \in questions[r].hits : x.profile = profile

\* Without the exception: an upload that fails deletes the file under a reindex
\* that then succeeds, and the document can never be reindexed again.
ReadyHasFile == \A id \in promised : documents[id].file \in pdfs

\* What is disabled stays so: an upload or reindex in progress overwrites it.
DisabledStays == \A id \in withdrawn : documents[id].status = "DISABLED"

\* README.md promises uploads that are idempotent by hash: when nothing is in
\* progress, a file has a READY document on its shelf or can be uploaded.
UploadIsIdempotent ==
    (\A h \in Handlers : At(h, "idle")) =>
        \A f \in Files, s \in Shelves :
            \/ \E id \in FindByHash(f, s) : cached[id].status = "READY"
            \/ \A id \in DOMAIN documents : documents[id].file # f

\* An answer cites one generation of the chunks of a document.
CitesOneGeneration ==
    \A r \in Readers : \A x, y \in questions[r].hits : x.id = y.id => x.generation = y.generation
=============================================================================
