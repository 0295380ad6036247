----------------------------- MODULE Documents -----------------------------
(***************************************************************************)
(* The documents of one workspace with OpenSQL and queue workers: uploads   *)
(* (services/api/main.py, store.py), OpenSQLDocumentStore's index and       *)
(* delete, and what the ingest, sync and embedding workers do to the        *)
(* documents, the knowledge graph and the embeddings (workers/*/main.py,    *)
(* knowledge_graph.py, embedding_service.py).                               *)
(*                                                                         *)
(* Contents stand for bytes, for the checksum and for the document id made  *)
(* from it, and for the chunks cut from them. A process uses the upload     *)
(* directory of its host, which all workspaces share: hosts are containers  *)
(* where they share no volume. Objects, once put, stay readable             *)
(* (ObjectTiers). A job that failed comes back or is dead-lettered (JobQueue).*)
(***************************************************************************)
EXTENDS Naturals, FiniteSets, Functions

CONSTANTS
    Files,        \* file names of the workspace
    Contents,     \* contents of files
    None,         \* "no row", "no file", "nothing"
    Workers,      \* ingest workers
    Syncer,       \* the sync worker
    Manager,      \* a manager's request that reindexes graphs or embeddings
    Hosts,        \* upload directories
    ApiHosts,     \* those of the API's processes
    Home,         \* Home[p]: that of an indexer
    Foreign,      \* what others make of a file: contents, or None where they take it out
    MaxUploads,   \* bound on uploads
    MaxEvents     \* bound on foreign changes of files, deletes, hidden lists, reindexes and faults

Indexers == Workers \union {Syncer, Manager}
Jobs == 1..MaxUploads

Maybe(S) == S \union {None}
Row == [doc: Contents, version: Nat \ {0}]
\* What the embedding worker holds.
Reading == [doc: Contents, chunks: Contents]

ASSUME DocumentsAssumption ==
    /\ Syncer \notin Workers /\ Manager \notin Workers \union {Syncer}
    /\ ApiHosts \subseteq Hosts /\ Home \in [Indexers -> Hosts]
    /\ Foreign \subseteq Maybe(Contents)
    /\ None \notin Files \union Contents \union Row \union Reading
    /\ MaxUploads \in Nat /\ MaxEvents \in Nat

VARIABLES
    file,         \* file[h][f]: contents of uploads/f on host h, or None
    row,          \* row[f]: its documents row, the document and its version, or None
    history,      \* history[f]: the document_versions rows, version -> document id
    chunks,       \* chunks[d]: the contents document d's chunks were cut from, or None
    graph,        \* graph[d]: text document d's entities were extracted from, or None
    embedding,    \* embedding[d]: text its vectors were computed from, or None
    job,          \* job[n]: the n-th upload and its index job
    proc,         \* proc[p]: what an ingest worker or the sync worker is doing
    sync,         \* the sync job and the worker's view of the workspace
    embedder,     \* the embedding worker: a document and the chunks it read, or None
    owed,         \* documents with an embedding job that waits
    unlink,       \* <<h, f>> where the row is deleted and the file of host h goes next
    events,       \* history: what MaxEvents bounds, so far
    removed,      \* history: names that lost a row other than to their own next one
    dropped,      \* history: documents that were deleted or replaced
    raced,        \* history: names whose file one indexer read while another had read it
    interrupted   \* history: names reindexed by a sync that failed afterwards

store == <<file, row, history, chunks, graph, embedding>>
vars == <<store, job, proc, sync, embedder, owed, unlink, events, removed, dropped, raced, interrupted>>

\* bytes, text: the two reads of the file; prev: the row the transaction
\* selected; doc, chunks: what the graph is made for and from.
Proc ==
    [pc: {"idle", "fetch", "bytes", "text", "select", "commit", "compare", "chunks", "graph", "start"},
     job: Jobs \union {0},
     file: Maybe(Files), bytes: Maybe(Contents), text: Maybe(Contents),
     prev: Maybe(Row), doc: Maybe(Contents), chunks: Maybe(Contents)]
Idle == [pc |-> "idle", job |-> 0, file |-> None, bytes |-> None, text |-> None,
         prev |-> None, doc |-> None, chunks |-> None]

JobState == [file: Maybe(Files), object: Maybe(Contents),
             state: {"none", "queued", "busy", "done"}]
\* known: list_documents before the scan; todo: files found and not yet
\* compared; gone: rows without a file; changed: ids reindexed; graphs: those
\* whose graph is still to be made.
SyncState == [state: {"queued", "listed", "busy", "done"},
              known: [Files -> Maybe(Contents)], todo: SUBSET Files, gone: SUBSET Files,
              changed: SUBSET Contents, graphs: SUBSET Contents]
NoSync == [state |-> "queued", known |-> [f \in Files |-> None], todo |-> {}, gone |-> {},
           changed |-> {}, graphs |-> {}]

TypeOK ==
    /\ file \in [Hosts -> [Files -> Maybe(Contents)]]
    /\ row \in [Files -> Maybe(Row)]
    /\ \A f \in Files : DOMAIN history[f] \subseteq Nat \ {0}
    /\ chunks \in [Contents -> Maybe(Contents)]
    /\ graph \in [Contents -> Maybe(Contents)]
    /\ embedding \in [Contents -> Maybe(Contents)]
    /\ job \in [Jobs -> JobState]
    /\ proc \in [Indexers -> Proc]
    /\ sync \in SyncState
    /\ embedder \in Maybe(Reading)
    /\ owed \subseteq Contents
    /\ events \in 0..MaxEvents
    /\ unlink \subseteq Hosts \X Files /\ removed \subseteq Files
    /\ dropped \subseteq Contents /\ raced \subseteq Files /\ interrupted \subseteq Files

Init ==
    /\ file = [h \in Hosts |-> [f \in Files |-> None]]
    /\ row = [f \in Files |-> None]
    /\ history = [f \in Files |-> <<>>]
    /\ chunks = [d \in Contents |-> None]
    /\ graph = [d \in Contents |-> None]
    /\ embedding = [d \in Contents |-> None]
    /\ job = [n \in Jobs |-> [file |-> None, object |-> None, state |-> "none"]]
    /\ proc = [p \in Indexers |-> Idle]
    /\ sync = NoSync
    /\ embedder = None
    /\ owed = {}
    /\ unlink = {} /\ removed = {} /\ dropped = {} /\ raced = {} /\ interrupted = {}
    /\ events = 0

-----------------------------------------------------------------------------
Go(p, pc) == proc' = [proc EXCEPT ![p].pc = pc]
Event == events < MaxEvents /\ events' = events + 1

\* The file that an indexer, or the sync, finds on its host.
Found(p, f) == file[Home[p]][f]

Holder(d) == {f \in Files : row[f] # None /\ row[f].doc = d}
Without(d) == [f \in Files |-> IF f \in Holder(d) THEN None ELSE row[f]]

\* The rows that reference a document go with it (ON DELETE CASCADE).
Cascade(d) ==
    /\ chunks' = [chunks EXCEPT ![d] = None]
    /\ graph' = [graph EXCEPT ![d] = None]
    /\ embedding' = [embedding EXCEPT ![d] = None]

-----------------------------------------------------------------------------
(***************************************************************************)
(* The API and the world outside.                                           *)
(***************************************************************************)
\* POST /v1/documents, at one of the API's processes: save_upload writes the file,
\* puts the object and starts the index job. Until the job is taken the order of
\* the three shows to nobody but the sync worker, to whom a job that waits is no job.
Upload(h, f, c) ==
    /\ \E n \in Jobs :
        /\ job[n].state = "none"
        /\ \A k \in 1..(n - 1) : job[k].state # "none"
        /\ job' = [job EXCEPT ![n] = [file |-> f, object |-> c, state |-> "queued"]]
    /\ file' = [file EXCEPT ![h][f] = c]
    /\ UNCHANGED <<row, history, chunks, graph, embedding, proc, sync, embedder, owed, unlink, events, removed, dropped, raced, interrupted>>

\* A file of the directory changes or goes without a job: by a person, for a sync to
\* notice; by another workspace, with a file of the same name; by an upload that the
\* object storage or the database fails after it wrote its file.
ChangeFile(h, f, c) ==
    /\ Event
    /\ file[h][f] # c
    /\ file' = [file EXCEPT ![h][f] = c]
    /\ UNCHANGED <<row, history, chunks, graph, embedding, job, proc, sync, embedder, owed, unlink, removed, dropped, raced, interrupted>>

\* delete_document: the row and what hangs on it, then the file of its name on the
\* host where it is called.
DeleteRow(h, d) ==
    /\ row' = Without(d)
    /\ Cascade(d)
    /\ unlink' = unlink \union ({h} \X Holder(d))
    /\ removed' = removed \union Holder(d)
    /\ dropped' = dropped \union {d}

Delete(h, d) ==
    /\ Event
    /\ Holder(d) # {}
    /\ DeleteRow(h, d)
    /\ UNCHANGED <<file, history, job, proc, sync, embedder, owed, raced, interrupted>>

Unlink(h, f) ==
    /\ <<h, f>> \in unlink
    /\ file' = [file EXCEPT ![h][f] = None]
    /\ unlink' = unlink \ {<<h, f>>}
    /\ UNCHANGED <<row, history, chunks, graph, embedding, job, proc, sync, embedder, owed, events, removed, dropped, raced, interrupted>>

\* The process dies between the delete of the row and that of the file.
UnlinkLost(h, f) ==
    /\ <<h, f>> \in unlink
    /\ unlink' = unlink \ {<<h, f>>}
    /\ UNCHANGED <<store, job, proc, sync, embedder, owed, events, removed, dropped, raced, interrupted>>

-----------------------------------------------------------------------------
(***************************************************************************)
(* Indexing a file: _index_file_unlocked, run by ingest and sync workers    *)
(* without a lock between them.                                             *)
(***************************************************************************)
\* The processor's handler of exceptions fails the job and it is retried. A job
\* left in the dead-letter queue is one that nobody takes again. A manager's
\* request ends with its answer.
Fails(p) ==
    /\ proc' = [proc EXCEPT ![p] = Idle]
    /\ \/ /\ p \in Workers
          /\ job' = [job EXCEPT ![proc[p].job].state = "queued"]
          /\ UNCHANGED <<sync, interrupted>>
       \/ /\ p = Syncer
          /\ sync' = NoSync
          /\ interrupted' = interrupted \union UNION {Holder(d) : d \in sync.changed}
          /\ UNCHANGED job
       \/ p = Manager /\ UNCHANGED <<job, sync, interrupted>>
    /\ UNCHANGED <<store, embedder, owed, unlink, removed, dropped, raced>>

\* Any step may raise: a lost database, a file that cannot be parsed, a crash.
Raises(p) == Event /\ proc[p].pc # "idle" /\ Fails(p)

\* A worker takes a job. index_upload looks for a file of that name on the host,
\* whatever it holds, ...
Take(w, n) ==
    /\ proc[w].pc = "idle"
    /\ job[n].state = "queued"
    /\ job' = [job EXCEPT ![n].state = "busy"]
    /\ proc' = [proc EXCEPT ![w] = [Idle EXCEPT
                    !.pc = IF Found(w, job[n].file) = None THEN "fetch" ELSE "bytes",
                    !.job = n, !.file = job[n].file]]
    /\ UNCHANGED <<store, sync, embedder, owed, unlink, events, removed, dropped, raced, interrupted>>

\* ... and, only where there is none, gets the object and writes it there.
Fetch(w) ==
    /\ proc[w].pc = "fetch"
    /\ file' = [file EXCEPT ![Home[w]][proc[w].file] = job[proc[w].job].object]
    /\ Go(w, "bytes")
    /\ UNCHANGED <<row, history, chunks, graph, embedding, job, sync, embedder, owed, unlink, events, removed, dropped, raced, interrupted>>

\* The file is read once for the checksum ...
ReadBytes(p) ==
    LET found == Found(p, proc[p].file)
    IN  /\ proc[p].pc = "bytes"
        /\ \/ /\ found # None
              /\ proc' = [proc EXCEPT ![p].pc = "text", ![p].bytes = found]
              /\ raced' = IF \E q \in Indexers \ {p} : proc[q].file = proc[p].file /\ proc[q].bytes # None
                          THEN raced \union {proc[p].file} ELSE raced
              /\ UNCHANGED <<store, job, sync, embedder, owed, unlink, removed, dropped, interrupted>>
           \/ found = None /\ Fails(p)
        /\ UNCHANGED events

\* ... and once more for the chunks.
ReadText(p) ==
    LET found == Found(p, proc[p].file)
    IN  /\ proc[p].pc = "text"
        /\ \/ /\ found # None
              /\ proc' = [proc EXCEPT ![p].pc = "select", ![p].text = found]
              /\ UNCHANGED <<store, job, sync, embedder, owed, unlink, removed, dropped, raced, interrupted>>
           \/ found = None /\ Fails(p)
        /\ UNCHANGED events

\* The store returned document d: the ingest worker goes on to its graph, the
\* sync worker to the next file.
Indexed(p, d) ==
    IF p = Syncer
    THEN /\ proc' = [proc EXCEPT ![p] = [Idle EXCEPT !.pc = "compare"]]
         /\ sync' = [sync EXCEPT !.todo = @ \ {proc[p].file}, !.changed = @ \union {d},
                                !.graphs = @ \union {d}]
    ELSE /\ proc' = [proc EXCEPT ![p].pc = "chunks", ![p].doc = d, ![p].bytes = None,
                                 ![p].text = None, ![p].prev = None]
         /\ UNCHANGED sync

\* Fault for checking: any row of the name ends it.
SelectPreviousByName(p) ==
    LET found == row[proc[p].file]
    IN  /\ proc[p].pc = "select"
        /\ \/ found # None /\ Indexed(p, found.doc)
           \/ found = None /\ Go(p, "commit") /\ UNCHANGED sync
        /\ UNCHANGED <<store, job, embedder, owed, unlink, events, removed, dropped, raced, interrupted>>

\* Fault for checking: an ingest job that finds its document indexed is done.
SelectPreviousDone(p) ==
    LET found == row[proc[p].file]
    IN  /\ proc[p].pc = "select"
        /\ \/ /\ found # None /\ found.doc = proc[p].bytes
              /\ p # Syncer
              /\ job' = [job EXCEPT ![proc[p].job].state = "done"]
              /\ proc' = [proc EXCEPT ![p] = Idle]
           \/ /\ found # None => found.doc # proc[p].bytes
              /\ proc' = [proc EXCEPT ![p].pc = "commit", ![p].prev = found]
              /\ UNCHANGED job
        /\ UNCHANGED <<store, sync, embedder, owed, unlink, events, removed, dropped, raced, interrupted>>

\* The transaction selects the row of the name; an equal checksum ends it.
SelectPrevious(p) ==
    LET f == proc[p].file
        found == row[f]
    IN  /\ proc[p].pc = "select"
        /\ \/ /\ found # None /\ found.doc = proc[p].bytes
              /\ Indexed(p, found.doc)
           \/ /\ found # None => found.doc # proc[p].bytes
              /\ proc' = [proc EXCEPT ![p].pc = "commit", ![p].prev = found]
              /\ UNCHANGED sync
        /\ UNCHANGED <<store, job, embedder, owed, unlink, events, removed, dropped, raced, interrupted>>

\* Fault for checking: a reindexed name keeps its version.
NextVersionSame(prev) == IF prev = None THEN 1 ELSE prev.version

\* Fault for checking: versions are counted from 0.
NextVersionFromZero(prev) == IF prev = None THEN 0 ELSE prev.version + 1

\* The version a document gets that follows prev.
NextVersion(prev) == IF prev = None THEN 1 ELSE prev.version + 1

\* Fault for checking: the insert is an upsert and asks only for the document.
ConflictOfDocument(kept, f, doc) == \E g \in Files \ {f} : kept[g] # None /\ kept[g].doc = doc

\* What the primary key and the unique index refuse: a document that another
\* name holds, and a name that got a row meanwhile.
Conflict(kept, f, doc) ==
    kept[f] # None \/ \E g \in Files : kept[g] # None /\ kept[g].doc = doc

\* It deletes the previous document and inserts the new one, its chunks and its
\* history entry, where the version has none yet.
Commit(p) ==
    LET f == proc[p].file
        doc == proc[p].bytes
        prev == proc[p].prev
        kept == IF prev = None THEN row ELSE Without(prev.doc)
        version == NextVersion(prev)
    IN  /\ proc[p].pc = "commit"
        /\ \/ Conflict(kept, f, doc) /\ Fails(p)
           \/ /\ ~Conflict(kept, f, doc)
              /\ row' = [kept EXCEPT ![f] = [doc |-> doc, version |-> version]]
              /\ history' = [history EXCEPT ![f] =
                                [v \in DOMAIN @ \union {version} |-> IF v \in DOMAIN @ THEN @[v] ELSE doc]]
              /\ chunks' = [d \in Contents |-> IF d = doc THEN proc[p].text
                                              ELSE IF prev # None /\ d = prev.doc THEN None
                                              ELSE chunks[d]]
              /\ graph' = IF prev = None THEN graph ELSE [graph EXCEPT ![prev.doc] = None]
              /\ embedding' = IF prev = None THEN embedding ELSE [embedding EXCEPT ![prev.doc] = None]
              /\ Indexed(p, doc)
              /\ removed' = removed \union {g \in Files \ {f} : kept[g] # row[g]}
              /\ dropped' = IF prev = None THEN dropped ELSE dropped \union {prev.doc}
              /\ UNCHANGED <<file, job, embedder, owed, unlink, raced, interrupted>>
        /\ UNCHANGED events

-----------------------------------------------------------------------------
(***************************************************************************)
(* Graph and embeddings.                                                    *)
(***************************************************************************)
ReadChunks(p) ==
    /\ proc[p].pc = "chunks"
    /\ proc' = [proc EXCEPT ![p].pc = "graph", ![p].chunks = chunks[proc[p].doc]]
    /\ UNCHANGED <<store, job, sync, embedder, owed, unlink, events, removed, dropped, raced, interrupted>>

\* index_document replaces the document's mentions and relationships; without
\* the document's row the foreign key refuses them, unless there are none.
WriteGraph(p) ==
    LET d == proc[p].doc
        text == proc[p].chunks
    IN  /\ proc[p].pc = "graph"
        /\ \/ /\ text # None /\ chunks[d] = None
              /\ Fails(p)
           \/ /\ text # None => chunks[d] # None
              /\ graph' = [graph EXCEPT ![d] = text]
              /\ proc' = [proc EXCEPT ![p] = CASE p \in Workers -> [@ EXCEPT !.pc = "start"]
                                               [] p = Syncer -> [Idle EXCEPT !.pc = "compare"]
                                               [] p = Manager -> Idle]
              /\ UNCHANGED <<file, row, history, chunks, embedding, job, sync, embedder, owed, unlink, removed, dropped, raced, interrupted>>
        /\ UNCHANGED events

\* The ingest worker starts the embedding job and completes its own.
Finish(w) ==
    /\ proc[w].pc = "start"
    /\ owed' = owed \union {proc[w].doc}
    /\ job' = [job EXCEPT ![proc[w].job].state = "done"]
    /\ proc' = [proc EXCEPT ![w] = Idle]
    /\ UNCHANGED <<store, sync, embedder, unlink, events, removed, dropped, raced, interrupted>>

\* POST /v1/graph/reindex makes the graph of each document it has listed, one
\* after the other; to wait for its turn changes nothing for a document.
ReindexGraph(d) ==
    /\ Event
    /\ proc[Manager].pc = "idle" /\ Holder(d) # {}
    /\ proc' = [proc EXCEPT ![Manager] = [Idle EXCEPT !.pc = "chunks", !.doc = d]]
    /\ UNCHANGED <<store, job, sync, embedder, owed, unlink, removed, dropped, raced, interrupted>>

\* POST /v1/embeddings/reindex starts an embedding job for each, ...
ReindexEmbedding(d) ==
    /\ Event
    /\ proc[Manager].pc = "idle" /\ Holder(d) # {}
    /\ proc' = [proc EXCEPT ![Manager] = [Idle EXCEPT !.pc = "start", !.doc = d]]
    /\ UNCHANGED <<store, job, sync, embedder, owed, unlink, removed, dropped, raced, interrupted>>

\* ... whatever has become of the document since it was listed.
StartEmbedding ==
    /\ proc[Manager].pc = "start"
    /\ owed' = owed \union {proc[Manager].doc}
    /\ proc' = [proc EXCEPT ![Manager] = Idle]
    /\ UNCHANGED <<store, job, sync, embedder, unlink, events, removed, dropped, raced, interrupted>>

\* The embedding worker reads the chunks; a document without any fails the job,
\* which leaves everything as it was.
EmbedTake(d) ==
    /\ embedder = None
    /\ d \in owed
    /\ chunks[d] # None
    /\ embedder' = [doc |-> d, chunks |-> chunks[d]]
    /\ owed' = owed \ {d}
    /\ UNCHANGED <<store, job, proc, sync, unlink, events, removed, dropped, raced, interrupted>>

EmbedFails ==
    /\ embedder' = None
    /\ owed' = owed \union {embedder.doc}
    /\ UNCHANGED <<store, job, proc, sync, unlink, removed, dropped, raced, interrupted>>

\* replace_document: the vectors are written over what is there by then.
EmbedWrite ==
    /\ embedder # None
    /\ \/ /\ chunks[embedder.doc] # None
          /\ embedding' = [embedding EXCEPT ![embedder.doc] = embedder.chunks]
          /\ embedder' = None
          /\ UNCHANGED <<file, row, history, chunks, graph, job, proc, sync, owed, unlink, removed, dropped, raced, interrupted>>
       \/ chunks[embedder.doc] = None /\ EmbedFails
    /\ UNCHANGED events

EmbedRaises == Event /\ embedder # None /\ EmbedFails

-----------------------------------------------------------------------------
(***************************************************************************)
(* The sync worker.                                                         *)
(***************************************************************************)
\* The job of POST /v1/sync is taken. sync() lists the documents, less those that
\* the ACL hides from the user of the job and those beyond the limit, ...
SyncList ==
    /\ sync.state = "queued"
    /\ \E hidden \in SUBSET {f \in Files : row[f] # None} :
        /\ IF hidden = {} THEN UNCHANGED events ELSE Event
        /\ sync' = [sync EXCEPT !.state = "listed",
                        !.known = [f \in Files |-> IF row[f] = None \/ f \in hidden THEN None ELSE row[f].doc]]
    /\ UNCHANGED <<store, job, proc, embedder, owed, unlink, removed, dropped, raced, interrupted>>

\* ... and then the directory of its host.
SyncScan ==
    LET current == {f \in Files : Found(Syncer, f) # None}
    IN  /\ sync.state = "listed"
        /\ sync' = [sync EXCEPT !.state = "busy", !.todo = current,
                        !.gone = {f \in Files : sync.known[f] # None} \ current]
        /\ Go(Syncer, "compare")
        /\ UNCHANGED <<store, job, embedder, owed, unlink, events, removed, dropped, raced, interrupted>>

\* A file whose checksum is the known one is skipped, another one indexed.
SyncCompare(f) ==
    /\ proc[Syncer].pc = "compare"
    /\ f \in sync.todo
    /\ \/ Found(Syncer, f) = None /\ Fails(Syncer)
       \/ /\ Found(Syncer, f) # None
          /\ \/ /\ Found(Syncer, f) = sync.known[f]
                /\ sync' = [sync EXCEPT !.todo = @ \ {f}]
                /\ UNCHANGED proc
             \/ /\ Found(Syncer, f) # sync.known[f]
                /\ proc' = [proc EXCEPT ![Syncer].pc = "bytes", ![Syncer].file = f]
                /\ UNCHANGED sync
          /\ UNCHANGED <<store, job, embedder, owed, unlink, removed, dropped, raced, interrupted>>
    /\ UNCHANGED events

\* A known document without a file is deleted, by the id listed before.
SyncDelete(f) ==
    /\ proc[Syncer].pc = "compare"
    /\ sync.todo = {}
    /\ f \in sync.gone
    /\ sync' = [sync EXCEPT !.gone = @ \ {f}]
    /\ DeleteRow(Home[Syncer], sync.known[f])
    /\ UNCHANGED <<file, history, job, proc, embedder, owed, events, raced, interrupted>>

\* Then come the graphs of what was indexed, ...
SyncGraph(d) ==
    /\ proc[Syncer].pc = "compare"
    /\ sync.todo = {} /\ sync.gone = {}
    /\ d \in sync.graphs
    /\ sync' = [sync EXCEPT !.graphs = @ \ {d}]
    /\ proc' = [proc EXCEPT ![Syncer].pc = "chunks", ![Syncer].doc = d]
    /\ UNCHANGED <<store, job, embedder, owed, unlink, events, removed, dropped, raced, interrupted>>

\* ... and their embedding jobs.
SyncFinish ==
    /\ proc[Syncer].pc = "compare"
    /\ sync.todo = {} /\ sync.gone = {} /\ sync.graphs = {}
    /\ owed' = owed \union sync.changed
    /\ sync' = [NoSync EXCEPT !.state = "done"]
    /\ proc' = [proc EXCEPT ![Syncer] = Idle]
    /\ UNCHANGED <<store, job, embedder, unlink, events, removed, dropped, raced, interrupted>>

-----------------------------------------------------------------------------
IndexStep(p) ==
    ReadBytes(p) \/ ReadText(p) \/ SelectPrevious(p) \/ Commit(p) \/ ReadChunks(p) \/ WriteGraph(p)

ApiStep ==
    \/ \E h \in ApiHosts, f \in Files, c \in Contents : Upload(h, f, c)
    \/ \E h \in ApiHosts, d \in Contents : Delete(h, d)
    \/ \E h \in Hosts, f \in Files : Unlink(h, f) \/ UnlinkLost(h, f)
    \/ \E h \in Hosts, f \in Files, c \in Foreign : ChangeFile(h, f, c)

IngestStep(w) == (\E n \in Jobs : Take(w, n)) \/ Fetch(w) \/ IndexStep(w) \/ Finish(w)

EmbedStep == (\E d \in Contents : EmbedTake(d)) \/ EmbedWrite

SyncStep ==
    \/ SyncList \/ SyncScan
    \/ \E f \in Files : SyncCompare(f) \/ SyncDelete(f)
    \/ IndexStep(Syncer)
    \/ SyncFinish
    \/ \E d \in Contents : SyncGraph(d)

ReindexStep ==
    \/ \E d \in Contents : ReindexGraph(d) \/ ReindexEmbedding(d)
    \/ ReadChunks(Manager) \/ WriteGraph(Manager)
    \/ StartEmbedding

Next ==
    \/ ApiStep
    \/ \E w \in Workers : IngestStep(w)
    \/ SyncStep
    \/ EmbedStep
    \/ ReindexStep
    \/ \E p \in Indexers : Raises(p)
    \/ EmbedRaises

Spec == Init /\ [][Next]_vars

-----------------------------------------------------------------------------
(***************************************************************************)
(* Properties.                                                              *)
(***************************************************************************)
\* Whatever indexes, syncs and deletes side by side, the documents change as the
\* catalog says: new contents get the version after that of the document they
\* replace, although each indexer took that version from a read of its own, and
\* a document has one name.
Catalog == INSTANCE DocumentCatalog WITH held <- row, lost <- removed
CatalogSpec == Catalog!Spec

\* The history has an entry for every version a name came to, the latest one
\* that of the document it holds. After a deletion, or once a name returned to
\* earlier contents, a version may come a second time, and ON CONFLICT DO NOTHING
\* keeps its first entry: for such a name only the first half holds.
HistoryIsComplete ==
    \A f \in Files : row[f] # None =>
        /\ 1..row[f].version \subseteq DOMAIN history[f]
        /\ (f \notin removed /\ IsInjective(history[f])) =>
                history[f][row[f].version] = row[f].doc

\* A document whose graph or vectors are not those of its chunks has somebody
\* who will see to it: an index job of its name, a sync at work on it or an
\* embedding job. There are two exceptions: a sync that failed after it had
\* reindexed the document, as its retry finds the checksum unchanged; and a
\* document deleted or replaced and then indexed again, under that name or
\* another one, over whose new graph a slower worker may write the one of chunks
\* it read while there were none.
DerivedOrOwed ==
    \A f \in Files : row[f] # None =>
        LET d == row[f].doc
            indexing == \/ \E n \in Jobs : job[n].file = f /\ job[n].state # "done"
                        \/ d \in sync.changed
            embeddingDue == d \in owed \/ (embedder # None /\ embedder.doc = d)
        IN  \/ f \in interrupted \/ d \in dropped \/ indexing
            \/ graph[d] = chunks[d] /\ (embedding[d] = chunks[d] \/ embeddingDue)

OneDirectory == \A g, h \in Hosts : g = h

\* No contents were uploaded under the name twice.
NeverReturned(f) ==
    \A m, n \in Jobs : job[m].file = f /\ job[n].file = f /\ job[m].object = job[n].object => m = n

JobsDone(f) == \A n \in Jobs : job[n].file = f => job[n].state = "done"

\* Where all processes use one directory that nobody else writes to: when the jobs
\* of a name are done, the name holds what its file holds, if nothing was deleted
\* or failed and no two indexers had read the file at once. The job of an older
\* upload leaves no older contents behind, and neither does a sync that read the
\* file before. What is searched is then the text of that document, although the
\* file is read twice, if the name never returned to contents it had before.
IndexFollowsFile ==
    OneDirectory /\ events = 0 =>
        \A h \in Hosts, f \in Files \ raced : JobsDone(f) =>
            IF row[f] = None THEN file[h][f] = None
            ELSE /\ row[f].doc = file[h][f]
                 /\ NeverReturned(f) => chunks[row[f].doc] = row[f].doc

\* OpenSQL is "the source of truth" of the documents, and their originals are in
\* the object storage (development-guide.md): once the jobs of a name are done it
\* holds the last upload, if nobody deleted it and nothing failed. The code breaks it where
\* directories are not shared: a sync finds none of the uploads and deletes them
\* all, and a worker finds the file it fetched for the upload before.
LastUploadIsHeld ==
    events = 0 =>
        \A n \in Jobs : LET f == job[n].file IN
            f # None /\ JobsDone(f) /\ (\A k \in Jobs : job[k].file = f => k <= n) =>
                row[f] # None /\ row[f].doc = job[n].object
=============================================================================
