----------------------------- MODULE LocalStore -----------------------------
(***************************************************************************)
(* The installation without a database: DocumentStore of                    *)
(* services/api/store.py, whose index is one JSON file under a lock,        *)
(* JsonEmbeddingRepository of packages/core/embedding_service.py, another   *)
(* file under another lock, and JsonJobRepository of                        *)
(* packages/core/pipeline/service.py. Requests of one                       *)
(* API process index documents themselves (PIPELINE_MODE=inline) or create  *)
(* a job and publish it without an outbox. Nothing guards the uploaded      *)
(* files: they change under whoever is reading them.                        *)
(***************************************************************************)
EXTENDS Naturals, Sequences, FiniteSets, JobStates, Chunking

CONSTANTS
    Names,        \* file names
    Contents,     \* contents of files
    Pages,        \* Pages[c]: the normalised texts of the pages of c
    ChunkSize,
    Overlap,
    Requests,     \* uploads, syncs and deletes; each is made once
    Truncated,    \* a file that is being written
    None          \* "nothing"

ASSUME LocalStoreAssumption ==
    /\ Truncated \notin Contents \union {None}
    /\ None \notin Contents \union Names \union Requests \union JobStatus
    /\ ChunkSize \in Nat \ {0} /\ Overlap \in Nat
    /\ \A c \in Contents : \A p \in DOMAIN Pages[c] : IsText(Pages[c][p])

VARIABLES
    mode,         \* PIPELINE_MODE
    file,         \* file[n]: the uploaded file of that name, or None
    index,        \* index.json: the documents with their chunks, in order
    vectors,      \* vectors[d]: the texts of embeddings.json whose chunks have vectors
    lock,         \* the request that holds index.lock, or None
    request,      \* request[r]: where a request stands
    job,          \* job[r]: the status of its job in jobs.json, or None
    message,      \* message[r]: whether a message of its job is in the broker
    alone         \* history: the request that had the store to itself, or None

vars == <<mode, file, index, vectors, lock, request, job, message, alone>>

Maybe(S) == S \union {None}
\* The id of a document is the checksum of the bytes read.
Documents == Contents \union {Truncated}
\* text: the contents its chunks were cut from.
Entry == [name: Names, document: Documents, text: Contents]
Request ==
    [kind: {"none", "upload", "sync", "delete"},
     pc: {"new", "write", "create", "publish", "unsent", "run", "lock", "list", "compare",
          "bytes", "text", "load", "save", "remove", "unlink", "chunks", "embed", "complete", "done", "dead"},
     name: Maybe(Names), contents: Maybe(Contents), document: Maybe(Documents),
     text: Maybe(Documents), loaded: Seq(Entry), known: Seq(Entry),
     listed: SUBSET Names, todo: SUBSET Names]
Fresh == [kind |-> "none", pc |-> "new", name |-> None, contents |-> None, document |-> None,
          text |-> None, loaded |-> <<>>, known |-> <<>>, listed |-> {}, todo |-> {}]

Over(r) == request[r].pc \in {"new", "done", "dead"}
Locked(r) == request[r].pc \in {"list", "compare", "bytes", "text", "load", "save", "remove", "unlink"}
NamesOf(entries) == {entries[i].name : i \in DOMAIN entries}

TypeOK ==
    /\ mode \in {"inline", "queue"}
    /\ file \in [Names -> Maybe(Documents)]
    /\ index \in Seq(Entry)
    /\ \A i, j \in DOMAIN index : index[i].name = index[j].name => i = j
    /\ vectors \in [Documents -> SUBSET Contents]
    /\ lock \in Maybe(Requests)
    /\ request \in [Requests -> Request]
    /\ \A r \in Requests : Locked(r) <=> lock = r
    /\ job \in [Requests -> Maybe(JobStatus)]
    /\ message \in [Requests -> BOOLEAN]
    /\ alone \in Maybe(Requests)

Init ==
    /\ mode \in {"inline", "queue"}
    /\ file = [n \in Names |-> None]
    /\ index = <<>>
    /\ vectors = [d \in Documents |-> {}]
    /\ lock = None
    /\ request = [r \in Requests |-> Fresh]
    /\ job = [r \in Requests |-> None]
    /\ message = [r \in Requests |-> FALSE]
    /\ alone = None

-----------------------------------------------------------------------------
\* What chunks_with_pages makes of contents.
Chunks(c) == [p \in DOMAIN Pages[c] |-> SplitText(Pages[c][p], ChunkSize, Overlap)]

\* The entries at some positions, in their order: a list comprehension.
Nth(kept, n) == CHOOSE i \in kept : Cardinality({k \in kept : k <= i}) = n
Picked(entries, kept) == [n \in 1..Cardinality(kept) |-> entries[Nth(kept, n)]]

Without(entries, names) == Picked(entries, {i \in DOMAIN entries : entries[i].name \notin names})
WithoutDocument(entries, d) == Picked(entries, {i \in DOMAIN entries : entries[i].document # d})
OfDocument(entries, d) == Picked(entries, {i \in DOMAIN entries : entries[i].document = d})

Goto(r, pc) == request' = [request EXCEPT ![r].pc = pc]

\* The request is answered; it leaves the lock if it has it.
Finish(r, pc) ==
    /\ request' = [request EXCEPT ![r] = [Fresh EXCEPT !.kind = request[r].kind, !.pc = pc]]
    /\ lock' = IF lock = r THEN None ELSE lock

\* The handler of uploads fails the job of whatever is raised, the one of
\* syncs and the one of deletes do not.
Raise(r) ==
    /\ Finish(r, "done")
    /\ job' = [job EXCEPT ![r] = IF request[r].kind = "upload" THEN "failed" ELSE @]
    /\ UNCHANGED <<file, index, message>>

-----------------------------------------------------------------------------
(***************************************************************************)
(* A request up to the store.                                               *)
(***************************************************************************)
\* save_upload opens the file, which empties it, and writes the contents.
Upload(r) ==
    /\ request[r].pc = "new"
    /\ \E n \in Names, c \in Contents :
        /\ request' = [request EXCEPT ![r] = [Fresh EXCEPT !.kind = "upload", !.pc = "write",
                                                           !.name = n, !.contents = c]]
        /\ file' = [file EXCEPT ![n] = Truncated]
    /\ UNCHANGED <<index, lock, job, message>>

Write(r) ==
    /\ request[r].pc = "write"
    /\ file' = [file EXCEPT ![request[r].name] = request[r].contents]
    /\ request' = [request EXCEPT ![r].pc = "create", ![r].contents = None]
    /\ UNCHANGED <<index, lock, job, message>>

BeginSync(r) ==
    /\ request[r].pc = "new"
    /\ request' = [request EXCEPT ![r] = [Fresh EXCEPT !.kind = "sync", !.pc = "create"]]
    /\ UNCHANGED <<file, index, lock, job, message>>

BeginDelete(r) ==
    /\ request[r].pc = "new"
    /\ \E i \in DOMAIN index :
        request' = [request EXCEPT ![r] = [Fresh EXCEPT !.kind = "delete", !.pc = "lock",
                                                        !.document = index[i].document]]
    /\ UNCHANGED <<file, index, lock, job, message>>

Create(r) ==
    /\ request[r].pc = "create"
    /\ job' = [job EXCEPT ![r] = "queued"]
    /\ Goto(r, IF mode = "inline" THEN "run" ELSE "publish")
    /\ UNCHANGED <<file, index, lock, message>>

Publish(r) ==
    /\ request[r].pc = "publish"
    /\ message' = [message EXCEPT ![r] = TRUE]
    /\ Finish(r, "done")
    /\ UNCHANGED <<file, index, job>>

\* publish raises before the message is out or, closing the connection, after.
PublishFails(r) ==
    /\ request[r].pc = "publish"
    /\ \E sent \in BOOLEAN : message' = [message EXCEPT ![r] = sent]
    /\ Goto(r, "unsent")
    /\ UNCHANGED <<file, index, lock, job>>

\* Fault for checking: the client gets its 503, the job stays queued.
FailUnsentSilently(r) ==
    /\ request[r].pc = "unsent"
    /\ Finish(r, "done")
    /\ UNCHANGED <<file, index, job, message>>

\* A job that a worker has completed meanwhile cannot fail any more: that raises.
FailUnsent(r) ==
    /\ request[r].pc = "unsent"
    /\ job' = IF MayBecome(job[r], "failed") THEN [job EXCEPT ![r] = "failed"] ELSE job
    /\ Finish(r, "done")
    /\ UNCHANGED <<file, index, message>>

Run(r) ==
    /\ request[r].pc = "run"
    /\ job' = [job EXCEPT ![r] = "running"]
    /\ Goto(r, "lock")
    /\ UNCHANGED <<file, index, lock, message>>

\* Fault for checking: nobody waits for the lock.
LockIgnored(r) ==
    /\ request[r].pc = "lock"
    /\ lock' = r
    /\ Goto(r, CASE request[r].kind = "upload" -> "bytes"
                 [] request[r].kind = "sync" -> "list"
                 [] request[r].kind = "delete" -> "load")
    /\ UNCHANGED <<file, index, job, message>>

Lock(r) ==
    /\ request[r].pc = "lock"
    /\ lock = None
    /\ lock' = r
    /\ Goto(r, CASE request[r].kind = "upload" -> "bytes"
                 [] request[r].kind = "sync" -> "list"
                 [] request[r].kind = "delete" -> "load")
    /\ UNCHANGED <<file, index, job, message>>

-----------------------------------------------------------------------------
(***************************************************************************)
(* The store, under the lock.                                               *)
(***************************************************************************)
\* A file that is gone by now raises, whether looked for or read.
ReadBytes(r) ==
    LET n == request[r].name
    IN  /\ request[r].pc = "bytes"
        /\ \/ file[n] = None /\ Raise(r)
           \/ /\ file[n] # None
              /\ request' = [request EXCEPT ![r].document = file[n], ![r].pc = "text"]
              /\ UNCHANGED <<file, index, lock, job, message>>

\* The text is read from the file again; without any, extract_pages raises.
ReadText(r) ==
    LET now == file[request[r].name]
        readable == now \in Contents /\ Pages[now] # <<>>
    IN  /\ request[r].pc = "text"
        /\ \/ ~readable /\ Raise(r)
           \/ /\ readable
              /\ request' = [request EXCEPT ![r].text = now, ![r].pc = "load"]
              /\ UNCHANGED <<file, index, lock, job, message>>

Load(r) ==
    /\ request[r].pc = "load"
    /\ request' = [request EXCEPT ![r].loaded = index,
                                  ![r].pc = IF request[r].name = None THEN "remove" ELSE "save"]
    /\ UNCHANGED <<file, index, lock, job, message>>

\* Fault for checking: an entry does not replace the one of its name.
WithEntryBeside(entries, entry) == Append(entries, entry)

\* The new entry replaces those of its name.
WithEntry(entries, entry) == Append(Without(entries, {entry.name}), entry)

\* The upload gives the lock back, the
\* sync goes on to its next file.
Save(r) ==
    LET q == request[r]
        entry == [name |-> q.name, document |-> q.document, text |-> q.text]
    IN  /\ q.pc = "save"
        /\ index' = WithEntry(q.loaded, entry)
        /\ request' = [request EXCEPT ![r] = [q EXCEPT !.loaded = <<>>, !.name = None, !.text = None,
                            !.document = IF q.kind = "upload" THEN q.document ELSE None,
                            !.pc = IF q.kind = "upload" THEN "chunks" ELSE "compare"]]
        /\ lock' = IF q.kind = "upload" THEN None ELSE lock
        /\ UNCHANGED <<file, job, message>>

\* A sync looks once at the index and at the directory.
List(r) ==
    LET names == {n \in Names : file[n] # None}
    IN  /\ request[r].pc = "list"
        /\ request' = [request EXCEPT ![r].known = index, ![r].listed = names, ![r].todo = names,
                                      ![r].pc = "compare"]
        /\ UNCHANGED <<file, index, lock, job, message>>

\* Fault for checking: a name that is known is up to date.
UpToDateByName(entries, n) == n \in NamesOf(entries)

UpToDate(entries, n) == \E i \in DOMAIN entries : entries[i].name = n /\ entries[i].document = file[n]

\* Each file is skipped or indexed, after its checksum.
Compare(r) ==
    /\ request[r].pc = "compare"
    /\ \E n \in request[r].todo :
        \/ file[n] = None /\ Raise(r)
        \/ /\ file[n] # None
           /\ request' = [request EXCEPT ![r] = [request[r] EXCEPT !.todo = request[r].todo \ {n},
                            !.name = IF UpToDate(request[r].known, n) THEN None ELSE n,
                            !.pc = IF UpToDate(request[r].known, n) THEN "compare" ELSE "bytes"]]
           /\ UNCHANGED <<file, index, lock, job, message>>

Deleted(r) == NamesOf(request[r].known) \ request[r].listed

\* What has no file any more goes at the end.
EndCompare(r) ==
    /\ request[r].pc = "compare" /\ request[r].todo = {}
    /\ \/ Deleted(r) # {} /\ Goto(r, "load") /\ UNCHANGED lock
       \/ Deleted(r) = {} /\ Finish(r, "complete")
    /\ UNCHANGED <<file, index, job, message>>

RemoveNames(r) ==
    /\ request[r].pc = "remove" /\ request[r].kind = "sync"
    /\ index' = Without(request[r].loaded, Deleted(r))
    /\ Finish(r, "complete")
    /\ UNCHANGED <<file, job, message>>

\* delete_document drops all entries of the id and unlinks the file of the first.
RemoveDocument(r) ==
    LET d == request[r].document
        found == OfDocument(request[r].loaded, d)
    IN  /\ request[r].pc = "remove" /\ request[r].kind = "delete"
        /\ \/ found = <<>> /\ Raise(r)
           \/ /\ found # <<>>
              /\ index' = WithoutDocument(request[r].loaded, d)
              /\ request' = [request EXCEPT ![r] = [@ EXCEPT !.loaded = <<>>, !.name = Head(found).name,
                                                             !.pc = "unlink"]]
              /\ UNCHANGED <<file, lock, job, message>>

Unlink(r) ==
    /\ request[r].pc = "unlink"
    /\ file' = [file EXCEPT ![request[r].name] = None]
    /\ Finish(r, "done")
    /\ UNCHANGED <<index, job, message>>

\* _embed_document reads the chunks, without the lock, and raises if none is left.
ChunksForDocument(r) ==
    LET found == OfDocument(index, request[r].document)
    IN  /\ request[r].pc = "chunks"
        /\ \/ found = <<>> /\ Raise(r)
           \/ /\ found # <<>>
              /\ request' = [request EXCEPT ![r].loaded = found, ![r].pc = "embed"]
              /\ UNCHANGED <<file, index, lock, job, message>>

\* Fault for checking: the records of the document stay beside the new ones.
ReplaceVectorsBeside(d, texts) == vectors' = [vectors EXCEPT ![d] = @ \union texts]

\* replace_document, under a lock of its own from the load to the save.
ReplaceVectors(d, texts) == vectors' = [vectors EXCEPT ![d] = texts]

Embed(r) ==
    LET q == request[r]
    IN  /\ q.pc = "embed"
        /\ ReplaceVectors(q.document, {q.loaded[i].text : i \in DOMAIN q.loaded})
        /\ request' = [request EXCEPT ![r].loaded = <<>>, ![r].pc = "complete"]
        /\ UNCHANGED <<file, index, lock, job, message>>

\* The embedding API answers with an error or with too few vectors.
ProviderRaises(r) == request[r].pc = "embed" /\ Raise(r)

Complete(r) ==
    /\ request[r].pc = "complete"
    /\ job' = [job EXCEPT ![r] = "completed"]
    /\ Finish(r, "done")
    /\ UNCHANGED <<file, index, message>>

-----------------------------------------------------------------------------
(***************************************************************************)
(* The workers of the published jobs, whose transitions JobQueue has in     *)
(* full, and the death of the API.                                          *)
(***************************************************************************)
\* process() declares a queued or failed job running; of a completed one the
\* message is taken away.
WorkerStarts(r) ==
    /\ message[r]
    /\ \/ job[r] \in {"queued", "failed"} /\ job' = [job EXCEPT ![r] = "running"] /\ UNCHANGED message
       \/ job[r] = "completed" /\ message' = [message EXCEPT ![r] = FALSE] /\ UNCHANGED job
    /\ UNCHANGED <<mode, file, index, vectors, lock, request, alone>>

\* Its end is recorded; a job that failed meanwhile comes back with its message.
WorkerEnds(r) ==
    /\ message[r] /\ job[r] = "running"
    /\ \E status \in {"completed", "failed"} : job' = [job EXCEPT ![r] = status]
    /\ message' = [message EXCEPT ![r] = FALSE]
    /\ UNCHANGED <<mode, file, index, vectors, lock, request, alone>>

\* All requests of the process die; the operating system gives the lock back.
Crash ==
    /\ \E r \in Requests : ~Over(r)
    /\ request' = [r \in Requests |-> IF Over(r) THEN request[r]
                                      ELSE [Fresh EXCEPT !.kind = request[r].kind, !.pc = "dead"]]
    /\ lock' = None
    /\ alone' = None
    /\ UNCHANGED <<mode, file, index, vectors, job, message>>

RequestStep(r) ==
    \/ Upload(r) \/ Write(r) \/ BeginSync(r) \/ BeginDelete(r)
    \/ Create(r) \/ Publish(r) \/ PublishFails(r) \/ FailUnsent(r) \/ Run(r) \/ Lock(r)
    \/ ReadBytes(r) \/ ReadText(r) \/ Load(r) \/ Save(r)
    \/ List(r) \/ Compare(r) \/ EndCompare(r) \/ RemoveNames(r)
    \/ RemoveDocument(r) \/ Unlink(r) \/ ChunksForDocument(r) \/ ProviderRaises(r) \/ Complete(r)

\* A sync is alone from its look at the directory, an upload from its first read
\* of the file, until another request moves.
NowAlone(r) ==
    IF request[r].pc = "list" \/ (request[r].pc = "bytes" /\ request[r].kind = "upload")
    THEN (IF \A s \in Requests \ {r} : Over(s) THEN r ELSE None)
    ELSE IF alone = r THEN r ELSE None

Next ==
    \/ \E r \in Requests :
        /\ \/ RequestStep(r) /\ UNCHANGED vectors
           \/ Embed(r)
        /\ alone' = NowAlone(r) /\ UNCHANGED mode
    \/ \E r \in Requests : WorkerStarts(r) \/ WorkerEnds(r)
    \/ Crash

Spec == Init /\ [][Next]_vars

-----------------------------------------------------------------------------
(***************************************************************************)
(* Properties.                                                              *)
(***************************************************************************)
\* No update of the index is lost to another: an entry leaves it only by the
\* delete of its document or by a sync that found no file of its name.
EntriesLeaveByRequest ==
    [][\A i \in DOMAIN index : index[i].name \notin NamesOf(index') =>
        \E r \in Requests :
            /\ request[r].pc = "remove"
            /\ \/ request[r].kind = "delete" /\ request[r].document = index[i].document
               \/ request[r].kind = "sync" /\ index[i].name \notin request[r].listed]_vars

\* Of each page of an indexed document every character that is no blank lies in
\* a chunk, no chunk is longer than the chunk size, and the chunks follow the
\* order of the text.
ChunksCoverText ==
    \A i \in DOMAIN index : LET c == index[i].text IN
        \A p \in DOMAIN Pages[c] :
            LET spans == Chunks(c)[p]
            IN  /\ \A k \in DOMAIN Pages[c][p] :
                        Pages[c][p][k] \/ \E j \in DOMAIN spans : k \in spans[j]
                /\ \A j \in DOMAIN spans : Cardinality(spans[j]) <= ChunkSize
                /\ \A j \in DOMAIN spans \ {1} : \E k \in spans[j - 1] : \A m \in spans[j] : k <= m

\* A job that is not settled is somebody's: its request is under way, a message
\* of it is in the broker, the process died over it, or it is an inline sync
\* that raised, the one handler that leaves its job running.
UnfinishedIsOwned ==
    \A r \in Requests : job[r] \in {"queued", "running"} =>
        \/ request[r].pc # "done"
        \/ message[r]
        \/ mode = "inline" /\ request[r].kind = "sync" /\ job[r] = "running"

\* A completed sync that had the store to itself leaves index and directory in
\* agreement, and such an upload the vectors of its document and its chunks,
\* whatever crashed uploads, torn reads, syncs that embed nothing and deletes that
\* leave vectors behind were before.
AloneAgrees ==
    mode = "inline" => \A r \in Requests : alone = r =>
        /\ (request[r].kind = "sync" /\ request[r].pc = "done" /\ job[r] = "completed") =>
              \A n \in Names :
                 IF file[n] = None THEN n \notin NamesOf(index)
                 ELSE \E i \in DOMAIN index : index[i].name = n /\ index[i].document = file[n]
        /\ (request[r].kind = "upload" /\ request[r].pc = "complete") =>
              LET d == request[r].document
              IN  vectors[d] = {index[i].text : i \in {k \in DOMAIN index : index[k].document = d}}
=============================================================================
