-------------------------- MODULE Documents_proofs --------------------------
(***************************************************************************)
(* Proofs about Documents, for any files, contents, workers and bounds:     *)
(* type correctness, that the history of a name has an entry for every      *)
(* version it came to, that Documents implements DocumentCatalog, that a    *)
(* document has its graph and vectors or is owed them, and that rows come to*)
(* hold what the files hold.                                                *)
(***************************************************************************)
EXTENDS Documents, TLAPS

-----------------------------------------------------------------------------
(***************************************************************************)
(* The inductive invariant.                                                 *)
(***************************************************************************)
\* What an indexer has read at each of its steps.
ProcOK(q) ==
    /\ q \in Proc
    /\ q.pc \in {"fetch", "bytes", "text", "select", "commit"} => q.file # None
    /\ q.pc = "fetch" => q.job # 0
    /\ q.pc \in {"text", "select", "commit"} => q.bytes # None
    /\ q.pc \in {"select", "commit"} => q.text # None
    /\ q.pc \in {"chunks", "graph", "start"} => q.doc # None
    /\ q.pc = "commit" /\ q.prev # None => q.prev.doc # q.bytes

\* history[f] is a function from versions to documents.
HistoryOK ==
    /\ history = [f \in Files |-> history[f]]
    /\ \A f \in Files : \A v \in DOMAIN history[f] : v \in Nat \ {0} /\ history[f][v] \in Contents

StoreOK ==
    /\ file \in [Hosts -> [Files -> Maybe(Contents)]]
    /\ row \in [Files -> Maybe(Row)]
    /\ HistoryOK
    /\ chunks \in [Contents -> Maybe(Contents)]
    /\ graph \in [Contents -> Maybe(Contents)]
    /\ embedding \in [Contents -> Maybe(Contents)]

ProcsOK == proc \in [Indexers -> Proc] /\ \A p \in Indexers : ProcOK(proc[p])

\* A job that was ever put has its file and its object; so has one in hand.
JobsOK ==
    /\ job \in [Jobs -> JobState]
    /\ \A n \in Jobs : job[n].state # "none" => job[n].file # None /\ job[n].object # None
    /\ \A p \in Indexers : proc[p].job # 0 => job[proc[p].job].state # "none"

\* A sync deletes names it has listed with a document.
SyncOK ==
    /\ sync \in SyncState
    /\ \A f \in sync.gone : sync.state = "busy" /\ sync.known[f] # None

RestOK ==
    /\ embedder \in Maybe(Reading)
    /\ owed \subseteq Contents
    /\ events \in 0..MaxEvents
    /\ unlink \subseteq Hosts \X Files /\ removed \subseteq Files
    /\ dropped \subseteq Contents /\ raced \subseteq Files /\ interrupted \subseteq Files

TypeInv == StoreOK /\ ProcsOK /\ JobsOK /\ SyncOK /\ RestOK

\* A document has one name.
OneName ==
    \A f, g \in Files : row[f] # None /\ row[g] # None /\ row[f].doc = row[g].doc => f = g

\* A name that lost no document and returned to none it had.
Clean(f) == f \notin removed /\ IsInjective(history[f])

\* The versions a name came to follow one another; of a clean one the latest
\* is that of the document it holds.
Versions(f) ==
    /\ \A v \in DOMAIN history[f] : 1..v \subseteq DOMAIN history[f]
    /\ row[f] # None => row[f].version \in DOMAIN history[f]
    /\ Clean(f) => IF row[f] = None THEN DOMAIN history[f] = {}
                   ELSE /\ history[f][row[f].version] = row[f].doc
                        /\ \A v \in DOMAIN history[f] : v <= row[f].version

\* The row an indexer has read was the name's at some time.
WasRow(q) ==
    q.pc = "commit" /\ q.prev # None =>
        /\ q.prev.version \in DOMAIN history[q.file]
        /\ Clean(q.file) => history[q.file][q.prev.version] = q.prev.doc

CatalogInv ==
    /\ OneName
    /\ \A f \in Files : Versions(f)
    /\ \A p \in Indexers : WasRow(proc[p])

IInv == TypeInv /\ CatalogInv

-----------------------------------------------------------------------------
(***************************************************************************)
(* Types.                                                                   *)
(***************************************************************************)
\* "Nothing" is none of what it stands beside.
LEMMA NoneIsNothing ==
  /\ None \notin Files /\ None \notin Contents /\ None \notin Row /\ None \notin Reading
  /\ 0 \notin Jobs /\ Syncer \in Indexers /\ Manager \in Indexers /\ Workers \subseteq Indexers
  /\ Syncer # Manager /\ Syncer \notin Workers /\ Manager \notin Workers
  BY DocumentsAssumption DEF Jobs, Indexers

\* Every indexer has a directory, and so has each of the API's processes.
LEMMA Directories ==
  /\ \A p \in Indexers : Home[p] \in Hosts
  /\ \A h \in ApiHosts : h \in Hosts
  /\ \A c \in Foreign : c \in Maybe(Contents)
  BY DocumentsAssumption

LEMMA IdleIsOK == ProcOK(Idle) /\ Idle.pc = "idle" /\ Idle.job = 0
  BY DEF ProcOK, Idle, Proc, Maybe, Jobs

\* What is known of an indexer.
LEMMA Known ==
  ASSUME TypeInv, NEW p \in Indexers
  PROVE  /\ proc \in [Indexers -> Proc] /\ proc[p] \in Proc /\ ProcOK(proc[p])
         /\ proc[p].file \in Files \union {None} /\ proc[p].doc \in Contents \union {None}
         /\ proc[p].bytes \in Contents \union {None} /\ proc[p].text \in Contents \union {None}
         /\ proc[p].prev \in Row \union {None} /\ proc[p].chunks \in Contents \union {None}
         /\ proc[p].job \in Jobs \union {0}
         /\ proc[p].job # 0 => job[proc[p].job].state # "none"
         /\ (\A f \in Files : Found(p, f) \in Contents \union {None}) /\ row \in [Files -> Row \union {None}]
         /\ chunks \in [Contents -> Contents \union {None}]
<1>1. \A f \in Files : Found(p, f) \in Contents \union {None}
  BY Directories DEF Found, TypeInv, StoreOK, Maybe
<1> QED
  BY <1>1 DEF TypeInv, ProcsOK, ProcOK, JobsOK, StoreOK, Proc, Maybe

\* A file is written, or goes.
LEMMA FileStep ==
  ASSUME TypeInv, NEW h \in Hosts, NEW f \in Files, NEW c \in Contents \union {None},
         file' = [file EXCEPT ![h][f] = c]
  PROVE  /\ file' \in [Hosts -> [Files -> Maybe(Contents)]]
         /\ file'[h][f] = c
         /\ \A g \in Hosts, e \in Files : g # h \/ e # f => file'[g][e] = file[g][e]
  BY DEF TypeInv, StoreOK, Maybe

\* An indexer goes on, and no job is forgotten.
LEMMA ProcStep ==
  ASSUME TypeInv, NEW p \in Indexers, NEW q, ProcOK(q), proc' = [proc EXCEPT ![p] = q],
         q.job \in {0, proc[p].job}, UNCHANGED job
  PROVE  /\ ProcsOK' /\ JobsOK'
         /\ proc'[p] = q /\ \A o \in Indexers \ {p} : proc'[o] = proc[o]
<1>1. proc'[p] = q /\ \A o \in Indexers \ {p} : proc'[o] = proc[o]
  BY Known
<1>2. ProcsOK'
  BY <1>1, Known DEF ProcsOK, ProcOK
<1>3. \A o \in Indexers : proc'[o].job # 0 => job[proc'[o].job].state # "none"
  BY <1>1, Known
<1> QED
  BY <1>1, <1>2, <1>3 DEF TypeInv, JobsOK

\* A job comes, or its state changes while it stays one.
LEMMA JobStep ==
  ASSUME TypeInv, NEW n \in Jobs, NEW j \in JobState, job' = [job EXCEPT ![n] = j],
         j.state # "none", j.file # None, j.object # None
  PROVE  /\ job' \in [Jobs -> JobState] /\ job'[n] = j
         /\ \A k \in Jobs : job'[k].state # "none" => job'[k].file # None /\ job'[k].object # None
         /\ \A k \in Jobs : job[k].state # "none" => job'[k].state # "none"
  BY DEF TypeInv, JobsOK

LEMMA HolderFiles == \A d : Holder(d) \subseteq Files
  BY DEF Holder

\* The worker of a failed job gives it back, a failed sync begins again.
LEMMA FailsType ==
  ASSUME TypeInv, NEW p \in Indexers, Fails(p), events' \in 0..MaxEvents
  PROVE  TypeInv'
<1>1. proc' = [proc EXCEPT ![p] = Idle] /\ UNCHANGED <<store, embedder, owed, unlink, removed, dropped, raced>>
  BY DEF Fails
<1>2. StoreOK'
  BY <1>1 DEF TypeInv, StoreOK, HistoryOK, store
<1>3. SyncOK'
  BY DEF Fails, TypeInv, SyncOK, SyncState, NoSync, Maybe
<1>4. RestOK'
  BY <1>1, HolderFiles DEF Fails, TypeInv, RestOK
<1>5. ProcsOK' /\ JobsOK'
  <2>1. CASE UNCHANGED job
    BY <1>1, <2>1, IdleIsOK, ProcStep
  <2>2. CASE job' = [job EXCEPT ![proc[p].job].state = "queued"] /\ proc[p].job \in Jobs
    <3> DEFINE n == proc[p].job
               j == [job[n] EXCEPT !.state = "queued"]
    <3>1. job[n] \in JobState /\ job[n].state # "none" /\ job[n].file # None /\ job[n].object # None
      BY <2>2, Known, NoneIsNothing DEF TypeInv, JobsOK
    <3>2. j \in JobState /\ j.state # "none" /\ j.file # None /\ j.object # None
      BY <3>1 DEF JobState
    <3>3. job' = [job EXCEPT ![n] = j]
      BY <2>2 DEF TypeInv, JobsOK
    <3> HIDE DEF j
    <3>4. /\ job' \in [Jobs -> JobState]
          /\ \A k \in Jobs : job'[k].state # "none" => job'[k].file # None /\ job'[k].object # None
          /\ \A k \in Jobs : job[k].state # "none" => job'[k].state # "none"
      BY <2>2, <3>2, <3>3, JobStep
    <3>5. ProcsOK'
      BY <1>1, Known, IdleIsOK DEF ProcsOK, ProcOK
    <3>6. \A o \in Indexers : proc'[o].job # 0 => job'[proc'[o].job].state # "none"
      BY <1>1, <3>4, Known, IdleIsOK
    <3> QED
      BY <3>4, <3>5, <3>6 DEF JobsOK
  <2>3. CASE job' = [job EXCEPT ![proc[p].job].state = "queued"] /\ proc[p].job \notin Jobs
    <3>1. job' = job
      BY <2>3 DEF TypeInv, JobsOK
    <3> QED
      BY <1>1, <3>1, IdleIsOK, ProcStep
  <2> QED
    BY <2>1, <2>2, <2>3 DEF Fails
<1> QED
  BY <1>2, <1>3, <1>4, <1>5 DEF TypeInv

\* One more event.
LEMMA EventType == ASSUME TypeInv, Event PROVE events' \in 0..MaxEvents
  BY DocumentsAssumption DEF TypeInv, RestOK, Event

LEMMA DeleteRowType ==
  ASSUME TypeInv, NEW h \in Hosts, NEW d \in Contents, DeleteRow(h, d), UNCHANGED <<file, history>>
  PROVE  StoreOK' /\ unlink' \subseteq Hosts \X Files /\ removed' \subseteq Files /\ dropped' \subseteq Contents
<1>1. row' \in [Files -> Maybe(Row)]
  BY DEF DeleteRow, Without, TypeInv, StoreOK, Maybe
<1>2. /\ chunks' \in [Contents -> Maybe(Contents)] /\ graph' \in [Contents -> Maybe(Contents)]
      /\ embedding' \in [Contents -> Maybe(Contents)]
  BY DEF DeleteRow, Cascade, TypeInv, StoreOK, Maybe
<1> QED
  BY <1>1, <1>2, HolderFiles DEF DeleteRow, TypeInv, StoreOK, HistoryOK, RestOK

LEMMA ApiType ==
  ASSUME TypeInv, ApiStep
  PROVE  TypeInv'
<1>1. ASSUME NEW h \in ApiHosts, NEW f \in Files, NEW c \in Contents, Upload(h, f, c) PROVE TypeInv'
  <2> DEFINE j == [file |-> f, object |-> c, state |-> "queued"]
  <2>1. PICK n \in Jobs : job' = [job EXCEPT ![n] = j]
    BY <1>1 DEF Upload
  <2>2. j \in JobState /\ j.state # "none" /\ j.file # None /\ j.object # None
    BY NoneIsNothing DEF JobState, Maybe
  <2> HIDE DEF j
  <2>3. /\ job' \in [Jobs -> JobState]
        /\ \A k \in Jobs : job'[k].state # "none" => job'[k].file # None /\ job'[k].object # None
        /\ \A k \in Jobs : job[k].state # "none" => job'[k].state # "none"
    BY <2>1, <2>2, JobStep
  <2>4. /\ file' = [file EXCEPT ![h][f] = c]
        /\ UNCHANGED <<row, history, chunks, graph, embedding, proc, sync, embedder, owed, unlink,
                       events, removed, dropped, raced, interrupted>>
    BY <1>1 DEF Upload
  <2>5. StoreOK'
    BY <2>4, FileStep, Directories DEF TypeInv, StoreOK, HistoryOK
  <2>6. JobsOK'
    BY <2>3, <2>4, Known DEF JobsOK
  <2> QED
    BY <2>4, <2>5, <2>6 DEF TypeInv, ProcsOK, SyncOK, RestOK
<1>2. ASSUME NEW h \in ApiHosts, NEW d \in Contents, Delete(h, d) PROVE TypeInv'
  <2>1. StoreOK' /\ unlink' \subseteq Hosts \X Files /\ removed' \subseteq Files /\ dropped' \subseteq Contents
    BY <1>2, DeleteRowType, Directories DEF Delete
  <2>2. events' \in 0..MaxEvents /\ UNCHANGED <<job, proc, sync, embedder, owed, raced, interrupted>>
    BY <1>2, EventType DEF Delete
  <2> QED
    BY <2>1, <2>2 DEF TypeInv, ProcsOK, JobsOK, SyncOK, RestOK
<1>3. ASSUME NEW h \in Hosts, NEW f \in Files, NEW c \in Foreign, ChangeFile(h, f, c) PROVE TypeInv'
  <2>1. file' \in [Hosts -> [Files -> Maybe(Contents)]]
    BY <1>3, FileStep, Directories DEF ChangeFile, Maybe
  <2>2. /\ events' \in 0..MaxEvents
        /\ UNCHANGED <<row, history, chunks, graph, embedding, job, proc, sync, embedder, owed, unlink,
                       removed, dropped, raced, interrupted>>
    BY <1>3, EventType DEF ChangeFile
  <2> QED
    BY <2>1, <2>2 DEF TypeInv, StoreOK, HistoryOK, ProcsOK, JobsOK, SyncOK, RestOK
<1>4. CASE \E h \in Hosts, f \in Files : Unlink(h, f) \/ UnlinkLost(h, f)
  <2>1. PICK h \in Hosts, f \in Files : Unlink(h, f) \/ UnlinkLost(h, f)
    BY <1>4
  <2>2. file' \in [Hosts -> [Files -> Maybe(Contents)]]
    <3>1. CASE Unlink(h, f)
      BY <3>1, FileStep DEF Unlink
    <3>2. CASE UnlinkLost(h, f)
      BY <3>2 DEF UnlinkLost, TypeInv, StoreOK, store
    <3> QED
      BY <2>1, <3>1, <3>2
  <2>3. /\ events' \in 0..MaxEvents /\ unlink' \subseteq Hosts \X Files
        /\ UNCHANGED <<row, history, chunks, graph, embedding, job, proc, sync, embedder, owed, removed, dropped, raced, interrupted>>
    BY <2>1 DEF Unlink, UnlinkLost, TypeInv, RestOK, store
  <2> QED
    BY <2>2, <2>3 DEF TypeInv, StoreOK, HistoryOK, ProcsOK, JobsOK, SyncOK, RestOK
<1> QED
  BY <1>1, <1>2, <1>3, <1>4 DEF ApiStep

\* The sync changes what it has to do, and keeps what it knows of the names
\* that have no file.
LEMMA SyncStays ==
  ASSUME TypeInv, NEW s \in SyncState, s.state = sync.state, s.known = sync.known,
         s.gone \subseteq sync.gone, sync' = s
  PROVE  SyncOK'
  BY DEF TypeInv, SyncOK

LEMMA IndexedType ==
  ASSUME TypeInv, NEW p \in Indexers, NEW d \in Contents, Indexed(p, d), UNCHANGED job
  PROVE  /\ ProcsOK' /\ JobsOK' /\ SyncOK'
         /\ proc'[p].pc \in {"compare", "chunks"} /\ \A o \in Indexers \ {p} : proc'[o] = proc[o]
<1>1. CASE p = Syncer
  <2> DEFINE q == [Idle EXCEPT !.pc = "compare"]
             s == [sync EXCEPT !.todo = @ \ {proc[p].file}, !.changed = @ \union {d}, !.graphs = @ \union {d}]
  <2>1. ProcOK(q) /\ q.pc = "compare" /\ q.job = 0
    BY DEF ProcOK, Idle, Proc, Maybe, Jobs
  <2>2. s \in SyncState /\ s.state = sync.state /\ s.known = sync.known /\ s.gone = sync.gone
    BY DEF TypeInv, SyncOK, SyncState
  <2>3. proc' = [proc EXCEPT ![p] = q] /\ sync' = s
    BY <1>1 DEF Indexed
  <2> HIDE DEF q, s
  <2> QED
    BY <2>1, <2>2, <2>3, ProcStep, SyncStays
<1>2. CASE p # Syncer
  <2> DEFINE q == [proc[p] EXCEPT !.pc = "chunks", !.doc = d, !.bytes = None, !.text = None, !.prev = None]
  <2>1. /\ q \in Proc /\ q.pc = "chunks" /\ q.doc = d /\ q.job = proc[p].job
    BY Known DEF Proc, Maybe
  <2>2. proc' = [proc EXCEPT ![p] = q] /\ UNCHANGED sync
    BY <1>2, Known DEF Indexed
  <2> HIDE DEF q
  <2>3. ProcOK(q)
    BY <2>1, NoneIsNothing DEF ProcOK
  <2> QED
    BY <2>1, <2>2, <2>3, ProcStep DEF TypeInv, SyncOK
<1> QED
  BY <1>1, <1>2

\* Steps that read what is stored.
LEMMA ReadType ==
  ASSUME TypeInv, NEW p \in Indexers,
         ReadBytes(p) \/ ReadText(p) \/ SelectPrevious(p) \/ ReadChunks(p)
  PROVE  TypeInv'
<1>0. raced \subseteq Files
  BY DEF TypeInv, RestOK
<1>1. events' \in 0..MaxEvents
  BY DEF ReadBytes, ReadText, SelectPrevious, ReadChunks, TypeInv, RestOK
<1>2. CASE Fails(p)
  BY <1>1, <1>2, FailsType
<1>3. ASSUME raced' \subseteq Files, UNCHANGED <<store, job, embedder, owed, unlink, events, removed, dropped, interrupted>>,
             ProcsOK', JobsOK', SyncOK'
      PROVE  TypeInv'
  BY <1>3 DEF TypeInv, StoreOK, HistoryOK, RestOK, store
<1>4. ASSUME NEW q, ProcOK(q), proc' = [proc EXCEPT ![p] = q], q.job = proc[p].job,
             raced' \subseteq Files,
             UNCHANGED <<store, job, sync, embedder, owed, unlink, events, removed, dropped, interrupted>>
      PROVE  TypeInv'
  <2>1. ProcsOK' /\ JobsOK'
    BY <1>4, ProcStep
  <2>2. SyncOK'
    BY <1>4 DEF TypeInv, SyncOK
  <2> QED
    BY <1>3, <1>4, <2>1, <2>2
<1>5. CASE ReadBytes(p) /\ ~Fails(p)
  <2> DEFINE found == Found(p, proc[p].file)
             q == [proc[p] EXCEPT !.pc = "text", !.bytes = found]
  <2>1. proc[p].pc = "bytes" /\ found # None /\ proc[p].file # None /\ found \in Contents
    BY <1>5, Known DEF ReadBytes, ProcOK
  <2>2. /\ q \in Proc /\ q.pc = "text" /\ q.bytes = found /\ q.job = proc[p].job /\ q.file = proc[p].file
    BY <2>1, Known DEF Proc, Maybe
  <2>3. /\ proc' = [proc EXCEPT ![p] = q]
        /\ UNCHANGED <<store, job, sync, embedder, owed, unlink, events, removed, dropped, interrupted>>
        /\ raced' \in {raced, raced \union {proc[p].file}}
    BY <1>5, Known DEF ReadBytes
  <2>4. raced' \subseteq Files
    BY <2>1, <2>3, Known DEF TypeInv, RestOK
  <2> HIDE DEF q
  <2> QED
    BY <1>4, <2>1, <2>2, <2>3, <2>4 DEF ProcOK
<1>6. CASE ReadText(p) /\ ~Fails(p)
  <2> DEFINE found == Found(p, proc[p].file)
             q == [proc[p] EXCEPT !.pc = "select", !.text = found]
  <2>1. /\ proc[p].pc = "text" /\ found # None /\ proc[p].file # None /\ found \in Contents
        /\ proc[p].bytes # None
    BY <1>6, Known DEF ReadText, ProcOK
  <2>2. /\ q \in Proc /\ q.pc = "select" /\ q.text = found /\ q.job = proc[p].job /\ q.file = proc[p].file
        /\ q.bytes = proc[p].bytes
    BY <2>1, Known DEF Proc, Maybe
  <2>3. /\ proc' = [proc EXCEPT ![p] = q]
        /\ UNCHANGED <<store, job, sync, embedder, owed, unlink, events, removed, dropped, raced, interrupted>>
    BY <1>6, Known DEF ReadText
  <2> HIDE DEF q
  <2> QED
    BY <1>0, <1>4, <2>1, <2>2, <2>3 DEF ProcOK
<1>7. CASE SelectPrevious(p)
  <2> DEFINE found == row[proc[p].file]
             q == [proc[p] EXCEPT !.pc = "commit", !.prev = found]
  <2>1. /\ proc[p].pc = "select" /\ proc[p].file \in Files /\ found \in Row \union {None}
        /\ proc[p].bytes # None /\ proc[p].text # None
        /\ UNCHANGED <<store, job, embedder, owed, unlink, events, removed, dropped, raced, interrupted>>
    BY <1>7, Known DEF SelectPrevious, ProcOK
  <2>2. CASE found # None /\ Indexed(p, found.doc)
    <3>1. found.doc \in Contents
      BY <2>1, <2>2 DEF Row
    <3> QED
      BY <1>0, <1>3, <2>1, <2>2, <3>1, IndexedType
  <2>3. CASE (found # None => found.doc # proc[p].bytes) /\ proc' = [proc EXCEPT ![p] = q] /\ UNCHANGED sync
    <3>1. /\ q \in Proc /\ q.pc = "commit" /\ q.prev = found /\ q.job = proc[p].job /\ q.file = proc[p].file
          /\ q.bytes = proc[p].bytes /\ q.text = proc[p].text
      BY <2>1, Known DEF Proc, Maybe
    <3> HIDE DEF q
    <3> QED
      BY <1>0, <1>4, <2>1, <2>3, <3>1, NoneIsNothing DEF ProcOK
  <2> QED
    BY <1>7, <2>2, <2>3, Known DEF SelectPrevious
<1>8. CASE ReadChunks(p)
  <2> DEFINE q == [proc[p] EXCEPT !.pc = "graph", !.chunks = chunks[proc[p].doc]]
  <2>1. proc[p].pc = "chunks" /\ proc[p].doc # None /\ chunks[proc[p].doc] \in Contents \union {None}
    BY <1>8, Known DEF ReadChunks, ProcOK
  <2>2. /\ q \in Proc /\ q.pc = "graph" /\ q.doc = proc[p].doc /\ q.job = proc[p].job
    BY <2>1, Known DEF Proc, Maybe
  <2>3. /\ proc' = [proc EXCEPT ![p] = q]
        /\ UNCHANGED <<store, job, sync, embedder, owed, unlink, events, removed, dropped, raced, interrupted>>
    BY <1>8, Known DEF ReadChunks
  <2> HIDE DEF q
  <2> QED
    BY <1>0, <1>4, <2>1, <2>2, <2>3 DEF ProcOK
<1> QED
  BY <1>2, <1>5, <1>6, <1>7, <1>8

\* The version that follows the row a transaction has read.
LEMMA NextVersionType ==
  ASSUME NEW prev \in Row \union {None}
  PROVE  NextVersion(prev) \in Nat \ {0} /\ (prev # None => NextVersion(prev) = prev.version + 1)
  BY DEF NextVersion, Row

\* Another row, with a history entry where the version had none.
Recorded(h, version, doc) ==
    [v \in DOMAIN h \union {version} |-> IF v \in DOMAIN h THEN h[v] ELSE doc]

LEMMA RecordedEntries ==
  ASSUME NEW h, NEW version, NEW doc
  PROVE  /\ DOMAIN Recorded(h, version, doc) = DOMAIN h \union {version}
         /\ \A v \in DOMAIN h : Recorded(h, version, doc)[v] = h[v]
         /\ version \notin DOMAIN h => Recorded(h, version, doc)[version] = doc
  BY DEF Recorded

\* The rows once the document a transaction has read is deleted.
Kept(prev) == IF prev = None THEN row ELSE Without(prev.doc)

\* f gets new contents after prev, and no row stands in the way.
Stored(f, doc, prev) ==
    /\ prev # None => prev.doc # doc
    /\ ~Conflict(Kept(prev), f, doc)
    /\ row' = [Kept(prev) EXCEPT ![f] = [doc |-> doc, version |-> NextVersion(prev)]]
    /\ history' = [history EXCEPT ![f] = Recorded(@, NextVersion(prev), doc)]
    /\ removed' = removed \union {g \in Files \ {f} : Kept(prev)[g] # row[g]}

\* p's transaction has found no conflict.
Commits(p) ==
    /\ proc[p].pc = "commit" /\ proc[p].file \in Files /\ proc[p].bytes \in Contents
    /\ proc[p].prev \in Row \union {None}
    /\ Stored(proc[p].file, proc[p].bytes, proc[p].prev)
    /\ proc'[p].pc # "commit" /\ \A o \in Indexers \ {p} : proc'[o] = proc[o]

LEMMA CommitType ==
  ASSUME TypeInv, NEW p \in Indexers, Commit(p)
  PROVE  /\ TypeInv'
         /\ Fails(p) \/ Commits(p)
<1> DEFINE f == proc[p].file
           doc == proc[p].bytes
           prev == proc[p].prev
           kept == Kept(prev)
           version == NextVersion(prev)
<1>1. /\ proc[p].pc = "commit" /\ f \in Files /\ doc \in Contents /\ proc[p].text \in Contents
      /\ prev \in Row \union {None} /\ (prev # None => prev.doc # doc)
      /\ events' = events /\ events' \in 0..MaxEvents
  BY Known DEF Commit, ProcOK, TypeInv, RestOK
<1>2. CASE Fails(p)
  BY <1>1, <1>2, FailsType
<1>3. CASE ~Fails(p)
  <2>1. /\ ~Conflict(kept, f, doc)
        /\ row' = [kept EXCEPT ![f] = [doc |-> doc, version |-> version]]
        /\ history' = [history EXCEPT ![f] = Recorded(@, version, doc)]
        /\ chunks' = [d \in Contents |-> IF d = doc THEN proc[p].text
                                        ELSE IF prev # None /\ d = prev.doc THEN None ELSE chunks[d]]
        /\ graph' = IF prev = None THEN graph ELSE [graph EXCEPT ![prev.doc] = None]
        /\ embedding' = IF prev = None THEN embedding ELSE [embedding EXCEPT ![prev.doc] = None]
        /\ Indexed(p, doc)
        /\ removed' = removed \union {g \in Files \ {f} : kept[g] # row[g]}
        /\ dropped' = IF prev = None THEN dropped ELSE dropped \union {prev.doc}
        /\ UNCHANGED <<file, job, embedder, owed, unlink, raced, interrupted>>
    BY <1>3 DEF Commit, Recorded, Kept
  <2>3. /\ ProcsOK' /\ JobsOK' /\ SyncOK'
        /\ proc'[p].pc \in {"compare", "chunks"} /\ \A o \in Indexers \ {p} : proc'[o] = proc[o]
    BY <1>1, <2>1, IndexedType
  <2>2. Commits(p)
    BY <1>1, <2>1, <2>3 DEF Commits, Stored
  <2>4. kept \in [Files -> Maybe(Row)]
    BY Known DEF Kept, Without, Maybe
  <2>5. version \in Nat \ {0}
    BY <1>1, NextVersionType
  <2> HIDE DEF kept, version
  <2>6. row' \in [Files -> Maybe(Row)]
    <3>1. [doc |-> doc, version |-> version] \in Row
      BY <1>1, <2>5 DEF Row
    <3> QED
      BY <1>1, <2>1, <2>4, <3>1 DEF Maybe
  <2>7. HistoryOK'
    <3>1. HistoryOK
      BY DEF TypeInv, StoreOK
    <3>2. \A g \in Files : history'[g] = IF g = f THEN Recorded(history[f], version, doc) ELSE history[g]
      BY <1>1, <2>1, <3>1 DEF HistoryOK
    <3>3. history' = [g \in Files |-> history'[g]]
      BY <2>1, <3>1 DEF HistoryOK
    <3>4. ASSUME NEW g \in Files, NEW v \in DOMAIN history'[g]
          PROVE  v \in Nat \ {0} /\ history'[g][v] \in Contents
      <4> DEFINE h == Recorded(history[f], version, doc)
      <4>1. CASE g # f
        BY <3>1, <3>2, <3>4, <4>1 DEF HistoryOK
      <4>2. CASE g = f
        <5>1. /\ DOMAIN h = DOMAIN history[f] \union {version}
              /\ \A w \in DOMAIN history[f] : h[w] = history[f][w]
              /\ version \notin DOMAIN history[f] => h[version] = doc
          BY RecordedEntries
        <5>2. history'[g] = h
          BY <3>2, <4>2
        <5> HIDE DEF h
        <5>3. v \in DOMAIN history[f] \/ (v = version /\ v \notin DOMAIN history[f])
          BY <3>4, <5>1, <5>2
        <5> QED
          BY <1>1, <2>5, <3>1, <5>1, <5>2, <5>3 DEF HistoryOK
      <4> QED
        BY <4>1, <4>2
    <3> QED
      BY <3>3, <3>4 DEF HistoryOK
  <2>8. chunks' \in [Contents -> Maybe(Contents)] /\ file' \in [Hosts -> [Files -> Maybe(Contents)]]
    BY <1>1, <2>1 DEF TypeInv, StoreOK, Maybe
  <2>9. graph' \in [Contents -> Maybe(Contents)] /\ embedding' \in [Contents -> Maybe(Contents)]
    BY <2>1 DEF TypeInv, StoreOK, Maybe
  <2>10. RestOK'
    BY <1>1, <2>1 DEF TypeInv, RestOK, Row
  <2> QED
    BY <2>2, <2>3, <2>6, <2>7, <2>8, <2>9, <2>10 DEF TypeInv, StoreOK
<1> QED
  BY <1>2, <1>3

\* An indexer goes on, and a job there is changes its state.
LEMMA ProcJobStep ==
  ASSUME TypeInv, NEW p \in Indexers, NEW q, ProcOK(q), proc' = [proc EXCEPT ![p] = q],
         NEW n \in Jobs \union {0}, n # 0 => job[n].state # "none", q.job \in {0, n},
         NEW s \in {"queued", "busy", "done"}, job' = [job EXCEPT ![n].state = s]
  PROVE  ProcsOK' /\ JobsOK'
<1>1. CASE n = 0
  <2>1. job' = job
    BY <1>1, NoneIsNothing DEF TypeInv, JobsOK
  <2> QED
    BY <1>1, <2>1, ProcStep
<1>2. CASE n # 0
  <2> DEFINE j == [job[n] EXCEPT !.state = s]
  <2>1. job[n] \in JobState /\ job[n].state # "none" /\ job[n].file # None /\ job[n].object # None
    BY <1>2 DEF TypeInv, JobsOK
  <2>2. j \in JobState /\ j.state # "none" /\ j.file # None /\ j.object # None
    BY <2>1 DEF JobState
  <2>3. job' = [job EXCEPT ![n] = j]
    OBVIOUS
  <2> HIDE DEF j
  <2>4. /\ job' \in [Jobs -> JobState]
        /\ \A k \in Jobs : job'[k].state # "none" => job'[k].file # None /\ job'[k].object # None
        /\ \A k \in Jobs : job[k].state # "none" => job'[k].state # "none"
    BY <1>2, <2>2, <2>3, JobStep
  <2>5. ProcsOK'
    BY Known DEF ProcsOK, ProcOK
  <2>6. \A o \in Indexers : proc'[o].job # 0 => job'[proc'[o].job].state # "none"
    BY <1>2, <2>1, <2>4, Known
  <2> QED
    BY <2>4, <2>5, <2>6 DEF JobsOK
<1> QED
  BY <1>1, <1>2

\* The graph of a document.
LEMMA WriteGraphType ==
  ASSUME TypeInv, NEW p \in Indexers, WriteGraph(p)
  PROVE  TypeInv'
<1>1. /\ proc[p].pc = "graph" /\ proc[p].doc \in Contents /\ proc[p].doc # None
      /\ proc[p].chunks \in Contents \union {None} /\ events' \in 0..MaxEvents
  BY Known DEF WriteGraph, ProcOK, TypeInv, RestOK
<1>2. CASE Fails(p)
  BY <1>1, <1>2, FailsType
<1>3. CASE ~Fails(p)
  <2> DEFINE q == IF p \in Workers THEN [proc[p] EXCEPT !.pc = "start"]
                  ELSE IF p = Syncer THEN [Idle EXCEPT !.pc = "compare"] ELSE Idle
  <2>1. /\ graph' = [graph EXCEPT ![proc[p].doc] = proc[p].chunks]
        /\ UNCHANGED <<file, row, history, chunks, embedding, job, sync, embedder, owed, unlink,
                       removed, dropped, raced, interrupted>>
    BY <1>3 DEF WriteGraph
  <2>2. proc' = [proc EXCEPT ![p] = q]
    <3>1. CASE p \in Workers
      BY <1>3, <3>1, NoneIsNothing DEF WriteGraph
    <3>2. CASE p = Syncer
      BY <1>3, <3>2, NoneIsNothing DEF WriteGraph
    <3>3. CASE p = Manager
      BY <1>3, <3>3, NoneIsNothing DEF WriteGraph
    <3> QED
      BY <3>1, <3>2, <3>3 DEF Indexers
  <2>3. ProcOK(q) /\ q.job \in {0, proc[p].job}
    <3>1. CASE p \in Workers
      <4> DEFINE r == [proc[p] EXCEPT !.pc = "start"]
      <4>1. r \in Proc /\ r.pc = "start" /\ r.doc = proc[p].doc /\ r.job = proc[p].job
        BY <1>1, Known DEF Proc
      <4>2. q = r
        BY <3>1
      <4> HIDE DEF q, r
      <4> QED
        BY <1>1, <4>1, <4>2 DEF ProcOK
    <3>2. CASE p \notin Workers
      BY <3>2 DEF ProcOK, Idle, Proc, Maybe, Jobs
    <3> QED
      BY <3>1, <3>2
  <2> HIDE DEF q
  <2>4. ProcsOK' /\ JobsOK'
    BY <2>1, <2>2, <2>3, ProcStep
  <2> QED
    BY <1>1, <2>1, <2>4 DEF TypeInv, StoreOK, HistoryOK, SyncOK, RestOK, Maybe
<1> QED
  BY <1>2, <1>3

\* A worker's job begins and ends.
LEMMA IngestType ==
  ASSUME TypeInv, NEW w \in Workers, (\E n \in Jobs : Take(w, n)) \/ Fetch(w) \/ Finish(w)
  PROVE  TypeInv'
<1>0. w \in Indexers /\ events' \in 0..MaxEvents
  BY NoneIsNothing DEF Take, Fetch, Finish, TypeInv, RestOK
<1>1. ASSUME NEW n \in Jobs, Take(w, n) PROVE TypeInv'
  <2> DEFINE q == [Idle EXCEPT !.pc = IF Found(w, job[n].file) = None THEN "fetch" ELSE "bytes",
                               !.job = n, !.file = job[n].file]
  <2>1. job[n].state = "queued" /\ job[n].file \in Files
    BY <1>1 DEF Take, TypeInv, JobsOK, JobState, Maybe
  <2>2. ProcOK(q) /\ q.job = n
    BY <2>1, NoneIsNothing DEF ProcOK, Idle, Proc, Maybe
  <2>3. /\ proc' = [proc EXCEPT ![w] = q] /\ job' = [job EXCEPT ![n].state = "busy"]
        /\ UNCHANGED <<store, sync, embedder, owed, unlink, removed, dropped, raced, interrupted>>
    BY <1>1 DEF Take
  <2> HIDE DEF q
  <2>4. ProcsOK' /\ JobsOK'
    BY <1>0, <2>1, <2>2, <2>3, ProcJobStep
  <2> QED
    BY <1>0, <2>3, <2>4 DEF TypeInv, StoreOK, HistoryOK, SyncOK, RestOK, store
<1>3. CASE Fetch(w)
  <2> DEFINE q == [proc[w] EXCEPT !.pc = "bytes"]
             object == job[proc[w].job].object
  <2>1. /\ proc[w].pc = "fetch" /\ proc[w].file \in Files /\ proc[w].file # None /\ proc[w].job \in Jobs
    BY <1>0, <1>3, Known DEF Fetch, ProcOK
  <2>2. object \in Contents \union {None}
    BY <2>1 DEF TypeInv, JobsOK, JobState, Maybe
  <2>3. q \in Proc /\ q.pc = "bytes" /\ q.file = proc[w].file /\ q.job = proc[w].job
    BY <1>0, Known DEF Proc
  <2>4. /\ proc' = [proc EXCEPT ![w] = q] /\ file' = [file EXCEPT ![Home[w]][proc[w].file] = object]
        /\ UNCHANGED <<row, history, chunks, graph, embedding, job, sync, embedder, owed, unlink,
                       removed, dropped, raced, interrupted>>
    BY <1>0, <1>3, Known DEF Fetch, Go
  <2> HIDE DEF q, object
  <2>5. ProcOK(q)
    BY <2>1, <2>3 DEF ProcOK
  <2>6. ProcsOK' /\ JobsOK'
    BY <1>0, <2>3, <2>4, <2>5, ProcStep
  <2>7. file' \in [Hosts -> [Files -> Maybe(Contents)]]
    BY <1>0, <2>1, <2>2, <2>4, FileStep, Directories
  <2> QED
    BY <1>0, <2>4, <2>6, <2>7 DEF TypeInv, StoreOK, HistoryOK, SyncOK, RestOK
<1>2. CASE Finish(w)
  <2>1. proc[w].doc \in Contents
    BY <1>0, <1>2, Known DEF Finish, ProcOK
  <2>2. ProcsOK' /\ JobsOK'
    BY <1>0, <1>2, IdleIsOK, Known, ProcJobStep DEF Finish
  <2> QED
    BY <1>0, <1>2, <2>1, <2>2 DEF Finish, TypeInv, StoreOK, HistoryOK, SyncOK, RestOK, store
<1> QED
  BY <1>1, <1>2, <1>3

\* The manager's requests.
LEMMA ReindexType ==
  ASSUME TypeInv, ReindexStep
  PROVE  TypeInv'
<1>1. ASSUME NEW d \in Contents, ReindexGraph(d) \/ ReindexEmbedding(d) PROVE TypeInv'
  <2>1. PICK s \in {"chunks", "start"} : proc' = [proc EXCEPT ![Manager] = [Idle EXCEPT !.pc = s, !.doc = d]]
    BY <1>1 DEF ReindexGraph, ReindexEmbedding
  <2> DEFINE q == [Idle EXCEPT !.pc = s, !.doc = d]
  <2>2. ProcOK(q) /\ q.job = 0
    BY NoneIsNothing DEF ProcOK, Idle, Proc, Maybe, Jobs
  <2>3. /\ events' \in 0..MaxEvents
        /\ UNCHANGED <<store, job, sync, embedder, owed, unlink, removed, dropped, raced, interrupted>>
    BY <1>1, EventType DEF ReindexGraph, ReindexEmbedding
  <2> HIDE DEF q
  <2>4. ProcsOK' /\ JobsOK'
    BY <2>1, <2>2, <2>3, ProcStep, NoneIsNothing DEF q
  <2> QED
    BY <2>3, <2>4 DEF TypeInv, StoreOK, HistoryOK, SyncOK, RestOK, store
<1>2. CASE ReadChunks(Manager) \/ WriteGraph(Manager)
  BY <1>2, ReadType, WriteGraphType, NoneIsNothing
<1>3. CASE StartEmbedding
  <2>1. proc[Manager].doc \in Contents
    BY <1>3, NoneIsNothing, Known DEF StartEmbedding, ProcOK
  <2>2. ProcsOK' /\ JobsOK'
    BY <1>3, IdleIsOK, ProcStep, NoneIsNothing DEF StartEmbedding
  <2> QED
    BY <1>3, <2>1, <2>2 DEF StartEmbedding, TypeInv, StoreOK, HistoryOK, SyncOK, RestOK, store
<1> QED
  BY <1>1, <1>2, <1>3 DEF ReindexStep

\* The embedding worker.
LEMMA EmbedType ==
  ASSUME TypeInv, EmbedStep \/ EmbedRaises
  PROVE  TypeInv'
<1>0. UNCHANGED <<file, row, history, chunks, graph, job, proc, sync, unlink, removed, dropped, raced, interrupted>>
  BY DEF EmbedStep, EmbedTake, EmbedWrite, EmbedFails, EmbedRaises, store
<1>1. events' \in 0..MaxEvents
  BY EventType DEF EmbedStep, EmbedTake, EmbedWrite, EmbedRaises, TypeInv, RestOK
<1>2. embedder' \in Maybe(Reading) /\ owed' \subseteq Contents /\ embedding' \in [Contents -> Maybe(Contents)]
  <2>1. ASSUME NEW d \in Contents, EmbedTake(d)
        PROVE  embedder' \in Maybe(Reading) /\ owed' \subseteq Contents /\ UNCHANGED embedding
    BY <2>1 DEF EmbedTake, TypeInv, StoreOK, RestOK, Maybe, Reading, store
  <2>2. ASSUME EmbedFails, embedder # None
        PROVE  embedder' \in Maybe(Reading) /\ owed' \subseteq Contents /\ UNCHANGED embedding
    BY <2>2 DEF EmbedFails, TypeInv, RestOK, Maybe, Reading, store
  <2>3. CASE /\ embedder # None
             /\ embedding' = [embedding EXCEPT ![embedder.doc] = embedder.chunks]
             /\ embedder' = None /\ UNCHANGED owed
    BY <2>3 DEF TypeInv, StoreOK, RestOK, Maybe, Reading
  <2> QED
    BY <2>1, <2>2, <2>3 DEF EmbedStep, EmbedWrite, EmbedRaises, TypeInv, StoreOK
<1> QED
  BY <1>0, <1>1, <1>2 DEF TypeInv, StoreOK, HistoryOK, ProcsOK, JobsOK, SyncOK, RestOK

\* The sync worker.
LEMMA SyncType ==
  ASSUME TypeInv, SyncStep, ~IndexStep(Syncer)
  PROVE  TypeInv'
<1>0. Syncer \in Indexers /\ events' \in 0..MaxEvents
  BY NoneIsNothing, EventType DEF SyncStep, SyncList, SyncScan, SyncCompare, SyncDelete, SyncGraph, SyncFinish, TypeInv, RestOK
<1>1. ASSUME UNCHANGED <<store, job, embedder, unlink, removed, dropped, raced, interrupted>>,
             owed' \subseteq Contents, ProcsOK', JobsOK', SyncOK'
      PROVE  TypeInv'
  BY <1>0, <1>1 DEF TypeInv, StoreOK, HistoryOK, RestOK, store
<1>2. CASE SyncList
  <2>1. PICK hidden \in SUBSET {f \in Files : row[f] # None} :
           sync' = [sync EXCEPT !.state = "listed",
                        !.known = [f \in Files |-> IF row[f] = None \/ f \in hidden THEN None ELSE row[f].doc]]
    BY <1>2 DEF SyncList
  <2> DEFINE k == [f \in Files |-> IF row[f] = None \/ f \in hidden THEN None ELSE row[f].doc]
             s == [sync EXCEPT !.state = "listed", !.known = k]
  <2>2. k \in [Files -> Maybe(Contents)]
    BY DEF TypeInv, StoreOK, Maybe, Row
  <2>3. sync.gone = {} /\ sync \in SyncState
    BY <1>2 DEF SyncList, TypeInv, SyncOK
  <2>4. sync' = s
    BY <2>1
  <2> HIDE DEF k
  <2>5. s \in SyncState /\ s.gone = {}
    BY <2>2, <2>3 DEF SyncState
  <2> HIDE DEF s
  <2>6. SyncOK'
    BY <2>4, <2>5 DEF SyncOK
  <2>7. ProcsOK' /\ JobsOK' /\ owed' \subseteq Contents
    BY <1>2 DEF SyncList, TypeInv, ProcsOK, JobsOK, RestOK
  <2> QED
    BY <1>1, <1>2, <2>6, <2>7 DEF SyncList
<1>3. CASE SyncScan
  <2> DEFINE current == {f \in Files : Found(Syncer, f) # None}
             s == [sync EXCEPT !.state = "busy", !.todo = current,
                               !.gone = {f \in Files : sync.known[f] # None} \ current]
             q == [proc[Syncer] EXCEPT !.pc = "compare"]
  <2>1. s \in SyncState /\ s.state = "busy" /\ \A f \in s.gone : s.known[f] # None
    BY DEF TypeInv, SyncOK, SyncState
  <2>2. sync' = s /\ proc' = [proc EXCEPT ![Syncer] = q]
    BY <1>0, <1>3, Known DEF SyncScan, Go
  <2>3. ProcOK(q) /\ q.job = proc[Syncer].job
    <3>1. q \in Proc /\ q.pc = "compare" /\ q.job = proc[Syncer].job
      BY <1>0, Known DEF Proc
    <3> HIDE DEF q
    <3> QED
      BY <3>1 DEF ProcOK
  <2> HIDE DEF s, q
  <2>4. SyncOK'
    BY <2>1, <2>2 DEF SyncOK
  <2>5. ProcsOK' /\ JobsOK'
    BY <1>0, <1>3, <2>2, <2>3, ProcStep DEF SyncScan
  <2> QED
    BY <1>1, <1>3, <2>4, <2>5 DEF SyncScan, TypeInv, RestOK
<1>4. ASSUME NEW f \in Files, SyncCompare(f) PROVE TypeInv'
  <2>1. CASE Fails(Syncer)
    BY <1>0, <2>1, FailsType
  <2>2. CASE Found(Syncer, f) = sync.known[f] /\ sync' = [sync EXCEPT !.todo = @ \ {f}] /\ UNCHANGED proc
             /\ UNCHANGED <<store, job, embedder, owed, unlink, removed, dropped, raced, interrupted>>
    <3> DEFINE s == [sync EXCEPT !.todo = @ \ {f}]
    <3>1. s \in SyncState /\ s.state = sync.state /\ s.known = sync.known /\ s.gone = sync.gone
      BY DEF TypeInv, SyncOK, SyncState
    <3> HIDE DEF s
    <3>2. SyncOK'
      BY <2>2, <3>1, SyncStays DEF s
    <3>3. ProcsOK' /\ JobsOK'
      BY <2>2 DEF TypeInv, ProcsOK, JobsOK
    <3> QED
      BY <1>1, <2>2, <3>2, <3>3 DEF TypeInv, RestOK
  <2>3. CASE proc' = [proc EXCEPT ![Syncer].pc = "bytes", ![Syncer].file = f] /\ UNCHANGED sync
             /\ UNCHANGED <<store, job, embedder, owed, unlink, removed, dropped, raced, interrupted>>
    <3> DEFINE q == [proc[Syncer] EXCEPT !.pc = "bytes", !.file = f]
    <3>1. q \in Proc /\ q.pc = "bytes" /\ q.file = f /\ q.job = proc[Syncer].job
      BY <1>0, Known DEF Proc, Maybe
    <3>2. proc' = [proc EXCEPT ![Syncer] = q]
      BY <1>0, <2>3, Known
    <3> HIDE DEF q
    <3>3. ProcOK(q)
      BY <3>1, NoneIsNothing DEF ProcOK
    <3>4. ProcsOK' /\ JobsOK'
      BY <1>0, <2>3, <3>1, <3>2, <3>3, ProcStep
    <3> QED
      BY <1>1, <2>3, <3>4 DEF TypeInv, SyncOK, RestOK
  <2> QED
    BY <1>4, <2>1, <2>2, <2>3 DEF SyncCompare
<1>5. ASSUME NEW f \in Files, SyncDelete(f) PROVE TypeInv'
  <2> DEFINE s == [sync EXCEPT !.gone = @ \ {f}]
  <2>1. s \in SyncState /\ s.state = sync.state /\ s.known = sync.known /\ s.gone \subseteq sync.gone
    BY DEF TypeInv, SyncOK, SyncState
  <2> HIDE DEF s
  <2>2. SyncOK'
    BY <1>5, <2>1, SyncStays DEF SyncDelete, s
  <2>4. sync.known[f] \in Contents
    BY <1>5 DEF SyncDelete, TypeInv, SyncOK, SyncState, Maybe
  <2>3. StoreOK' /\ unlink' \subseteq Hosts \X Files /\ removed' \subseteq Files /\ dropped' \subseteq Contents
    BY <1>0, <1>5, <2>4, DeleteRowType, Directories DEF SyncDelete
  <2> QED
    BY <1>0, <1>5, <2>2, <2>3 DEF SyncDelete, TypeInv, ProcsOK, JobsOK, RestOK
<1>6. ASSUME NEW d \in Contents, SyncGraph(d) PROVE TypeInv'
  <2> DEFINE s == [sync EXCEPT !.graphs = @ \ {d}]
             q == [proc[Syncer] EXCEPT !.pc = "chunks", !.doc = d]
  <2>1. s \in SyncState /\ s.state = sync.state /\ s.known = sync.known /\ s.gone = sync.gone
    BY DEF TypeInv, SyncOK, SyncState
  <2>2. q \in Proc /\ q.pc = "chunks" /\ q.doc = d /\ q.job = proc[Syncer].job
    BY <1>0, Known DEF Proc, Maybe
  <2>3. proc' = [proc EXCEPT ![Syncer] = q] /\ sync' = s
    BY <1>0, <1>6, Known DEF SyncGraph
  <2> HIDE DEF s, q
  <2>4. SyncOK'
    BY <2>1, <2>3, SyncStays
  <2>5. ProcOK(q)
    BY <2>2, NoneIsNothing DEF ProcOK
  <2>6. ProcsOK' /\ JobsOK'
    BY <1>0, <1>6, <2>2, <2>3, <2>5, ProcStep DEF SyncGraph
  <2> QED
    BY <1>1, <1>6, <2>4, <2>6 DEF SyncGraph, TypeInv, RestOK
<1>7. CASE SyncFinish
  <2>1. SyncOK'
    BY <1>7 DEF SyncFinish, SyncOK, SyncState, NoSync, Maybe
  <2>2. ProcsOK' /\ JobsOK'
    BY <1>0, <1>7, IdleIsOK, ProcStep DEF SyncFinish
  <2>3. owed' \subseteq Contents
    BY <1>7 DEF SyncFinish, TypeInv, SyncOK, SyncState, RestOK
  <2> QED
    BY <1>1, <1>7, <2>1, <2>2, <2>3 DEF SyncFinish
<1> QED
  BY <1>2, <1>3, <1>4, <1>5, <1>6, <1>7 DEF SyncStep

LEMMA InitType ==
  ASSUME Init
  PROVE  TypeInv
<1>1. StoreOK
  <2>1. \A f \in Files : history[f] = <<>> /\ DOMAIN history[f] = {}
    BY DEF Init
  <2>2. history = [f \in Files |-> history[f]]
    BY DEF Init
  <2> QED
    BY <2>1, <2>2 DEF Init, StoreOK, HistoryOK, Maybe
<1>2. ProcsOK /\ \A p \in Indexers : proc[p].job = 0
  BY IdleIsOK DEF Init, ProcsOK, ProcOK
<1>3. JobsOK
  BY <1>2 DEF Init, JobsOK, JobState, Maybe
<1>4. SyncOK
  BY DEF Init, SyncOK, SyncState, NoSync, Maybe
<1>5. RestOK
  BY DocumentsAssumption DEF Init, RestOK, Maybe
<1> QED
  BY <1>1, <1>2, <1>3, <1>4, <1>5 DEF TypeInv

\* Every step keeps the types.
LEMMA StepType ==
  ASSUME TypeInv, [Next]_vars
  PROVE  TypeInv'
<1>1. ASSUME NEW p \in Indexers, IndexStep(p) PROVE TypeInv'
  BY <1>1, ReadType, CommitType, WriteGraphType DEF IndexStep
<1>2. ASSUME NEW p \in Indexers, Raises(p) PROVE TypeInv'
  BY <1>2, EventType, FailsType DEF Raises
<1>3. ASSUME NEW w \in Workers, IngestStep(w) PROVE TypeInv'
  BY <1>1, <1>3, IngestType, NoneIsNothing DEF IngestStep
<1>4. CASE SyncStep
  BY <1>1, <1>4, SyncType, NoneIsNothing
<1>5. CASE UNCHANGED vars
  BY <1>5 DEF vars, store, TypeInv, StoreOK, HistoryOK, ProcsOK, JobsOK, SyncOK, RestOK
<1> QED
  BY <1>2, <1>3, <1>4, <1>5, ApiType, EmbedType, ReindexType DEF Next

-----------------------------------------------------------------------------
(***************************************************************************)
(* What a step can do to the names: nothing, delete a document, or commit.  *)
(***************************************************************************)
\* The names keep what they have; a row read by an indexer is the name's.
Quiet ==
    /\ UNCHANGED <<row, history, removed>>
    /\ \A p \in Indexers : proc'[p].pc = "commit" =>
           \/ proc'[p] = proc[p]
           \/ proc'[p].file \in Files /\ proc'[p].prev = row[proc'[p].file]

Deletes(d) ==
    /\ row' = Without(d) /\ removed' = removed \union Holder(d)
    /\ UNCHANGED <<history, proc>>

LEMMA FailsKind ==
  ASSUME TypeInv, NEW p \in Indexers, Fails(p)
  PROVE  Quiet
BY Known, IdleIsOK DEF Fails, Quiet, store

LEMMA ReadKind ==
  ASSUME TypeInv, NEW p \in Indexers,
         ReadBytes(p) \/ ReadText(p) \/ SelectPrevious(p) \/ ReadChunks(p)
  PROVE  Quiet
<1>1. CASE Fails(p)
  BY <1>1, FailsKind
<1>2. CASE (ReadBytes(p) \/ ReadText(p) \/ ReadChunks(p)) /\ ~Fails(p)
  <2>1. PICK q : proc' = [proc EXCEPT ![p] = q] /\ q.pc # "commit"
    <3>1. CASE ReadBytes(p)
      <4> DEFINE q == [proc[p] EXCEPT !.pc = "text", !.bytes = Found(p, proc[p].file)]
      <4>1. proc' = [proc EXCEPT ![p] = q] /\ q.pc = "text"
        BY <1>2, <3>1, Known DEF ReadBytes, Proc
      <4> QED
        BY <4>1
    <3>2. CASE ReadText(p)
      <4> DEFINE q == [proc[p] EXCEPT !.pc = "select", !.text = Found(p, proc[p].file)]
      <4>1. proc' = [proc EXCEPT ![p] = q] /\ q.pc = "select"
        BY <1>2, <3>2, Known DEF ReadText, Proc
      <4> QED
        BY <4>1
    <3>3. CASE ReadChunks(p)
      <4> DEFINE q == [proc[p] EXCEPT !.pc = "graph", !.chunks = chunks[proc[p].doc]]
      <4>1. proc' = [proc EXCEPT ![p] = q] /\ q.pc = "graph"
        BY <1>2, <3>3, Known DEF ReadChunks, Proc
      <4> QED
        BY <4>1
    <3> QED
      BY <1>2, <3>1, <3>2, <3>3
  <2>2. UNCHANGED <<row, history, removed>>
    BY <1>2 DEF ReadBytes, ReadText, ReadChunks, store
  <2> QED
    BY <2>1, <2>2, Known DEF Quiet
<1>3. CASE SelectPrevious(p)
  <2> DEFINE found == row[proc[p].file]
             q == [proc[p] EXCEPT !.pc = "commit", !.prev = found]
  <2>1. /\ UNCHANGED <<row, history, removed, job>> /\ proc[p].file \in Files
        /\ found \in Row \union {None}
    BY <1>3, Known DEF SelectPrevious, ProcOK, store
  <2>2. CASE found # None /\ Indexed(p, found.doc)
    <3>1. found.doc \in Contents
      BY <2>1, <2>2 DEF Row
    <3>2. proc'[p].pc \in {"compare", "chunks"} /\ \A o \in Indexers \ {p} : proc'[o] = proc[o]
      BY <2>1, <2>2, <3>1, IndexedType
    <3> QED
      BY <2>1, <3>2 DEF Quiet
  <2>3. CASE proc' = [proc EXCEPT ![p] = q]
    <3>1. q.file = proc[p].file /\ q.prev = found
      BY <2>1, Known DEF Proc
    <3> HIDE DEF q
    <3>2. proc'[p] = q /\ \A o \in Indexers \ {p} : proc'[o] = proc[o]
      BY <2>3, Known
    <3> QED
      BY <2>1, <3>1, <3>2 DEF Quiet
  <2> QED
    BY <1>3, <2>2, <2>3, Known DEF SelectPrevious
<1> QED
  BY <1>1, <1>2, <1>3

LEMMA WriteGraphKind ==
  ASSUME TypeInv, NEW p \in Indexers, WriteGraph(p)
  PROVE  Quiet
<1>1. CASE Fails(p)
  BY <1>1, FailsKind
<1>2. CASE ~Fails(p)
  <2> DEFINE r == [proc[p] EXCEPT !.pc = "start"]
             q == [Idle EXCEPT !.pc = "compare"]
  <2>1. r.pc = "start" /\ q.pc = "compare"
    BY Known DEF Proc, Idle
  <2>2. UNCHANGED <<row, history, removed>>
    BY <1>2 DEF WriteGraph
  <2>3. p \in Workers \/ p = Syncer \/ p = Manager
    BY DEF Indexers
  <2>4. p \in Workers => proc' = [proc EXCEPT ![p] = r]
    BY <1>2, NoneIsNothing DEF WriteGraph
  <2>5. p = Syncer => proc' = [proc EXCEPT ![p] = q]
    BY <1>2, NoneIsNothing DEF WriteGraph
  <2>6. p = Manager => proc' = [proc EXCEPT ![p] = Idle]
    BY <1>2, NoneIsNothing DEF WriteGraph
  <2> HIDE DEF r, q
  <2> QED
    BY <2>1, <2>2, <2>3, <2>4, <2>5, <2>6, Known, IdleIsOK DEF Quiet
<1> QED
  BY <1>1, <1>2

LEMMA IndexKind ==
  ASSUME TypeInv, NEW p \in Indexers, IndexStep(p)
  PROVE  Quiet \/ Commits(p)
BY ReadKind, CommitType, FailsKind, WriteGraphKind DEF IndexStep

LEMMA SyncKind ==
  ASSUME TypeInv, SyncStep, ~IndexStep(Syncer)
  PROVE  Quiet \/ \E d \in Contents : Deletes(d)
<1>0. Syncer \in Indexers
  BY NoneIsNothing
<1>1. CASE SyncList
  BY <1>1 DEF SyncList, Quiet, store
<1>2. CASE SyncScan
  <2> DEFINE q == [proc[Syncer] EXCEPT !.pc = "compare"]
  <2>1. proc' = [proc EXCEPT ![Syncer] = q] /\ q.pc = "compare" /\ UNCHANGED <<row, history, removed>>
    BY <1>0, <1>2, Known DEF SyncScan, Go, Proc, store
  <2> HIDE DEF q
  <2> QED
    BY <1>0, <2>1, Known DEF Quiet
<1>3. ASSUME NEW f \in Files, SyncCompare(f) PROVE Quiet
  <2>1. CASE Fails(Syncer)
    BY <1>0, <2>1, FailsKind
  <2>2. CASE UNCHANGED <<proc, row, history, removed>>
    BY <2>2 DEF Quiet
  <2>3. CASE proc' = [proc EXCEPT ![Syncer].pc = "bytes", ![Syncer].file = f] /\ UNCHANGED <<row, history, removed>>
    <3> DEFINE q == [proc[Syncer] EXCEPT !.pc = "bytes", !.file = f]
    <3>1. proc' = [proc EXCEPT ![Syncer] = q] /\ q.pc = "bytes"
      BY <1>0, <2>3, Known DEF Proc
    <3> HIDE DEF q
    <3> QED
      BY <1>0, <2>3, <3>1, Known DEF Quiet
  <2> QED
    BY <1>3, <2>1, <2>2, <2>3 DEF SyncCompare, store
<1>4. ASSUME NEW f \in Files, SyncDelete(f) PROVE \E d \in Contents : Deletes(d)
  <2>1. sync.known[f] \in Contents
    BY <1>4 DEF SyncDelete, TypeInv, SyncOK, SyncState, Maybe
  <2>2. Deletes(sync.known[f])
    BY <1>4 DEF SyncDelete, DeleteRow, Deletes
  <2> QED
    BY <2>1, <2>2
<1>5. ASSUME NEW d \in Contents, SyncGraph(d) PROVE Quiet
  <2> DEFINE q == [proc[Syncer] EXCEPT !.pc = "chunks", !.doc = d]
  <2>1. proc' = [proc EXCEPT ![Syncer] = q] /\ q.pc = "chunks" /\ UNCHANGED <<row, history, removed>>
    BY <1>0, <1>5, Known DEF SyncGraph, Proc, store
  <2> HIDE DEF q
  <2> QED
    BY <1>0, <2>1, Known DEF Quiet
<1>6. CASE SyncFinish
  BY <1>0, <1>6, Known, IdleIsOK DEF SyncFinish, Quiet, store
<1> QED
  BY <1>1, <1>2, <1>3, <1>4, <1>5, <1>6 DEF SyncStep

LEMMA StepKinds ==
  ASSUME TypeInv, [Next]_vars
  PROVE  \/ Quiet
         \/ \E d \in Contents : Deletes(d)
         \/ \E p \in Indexers : Commits(p)
<1>1. CASE ApiStep
  <2>1. ASSUME NEW h \in ApiHosts, NEW d \in Contents, Delete(h, d) PROVE Deletes(d)
    BY <2>1 DEF Delete, DeleteRow, Deletes
  <2>2. ASSUME NEW h, NEW f \in Files, NEW c \in Contents, Upload(h, f, c) PROVE Quiet
    BY <2>2 DEF Upload, Quiet
  <2>3. ASSUME NEW h, NEW f \in Files, Unlink(h, f) \/ UnlinkLost(h, f) PROVE Quiet
    BY <2>3 DEF Unlink, UnlinkLost, Quiet, store
  <2>4. ASSUME NEW h, NEW f \in Files, NEW c \in Foreign, ChangeFile(h, f, c) PROVE Quiet
    BY <2>4 DEF ChangeFile, Quiet
  <2> QED
    BY <1>1, <2>1, <2>2, <2>3, <2>4 DEF ApiStep
<1>2. ASSUME NEW w \in Workers, IngestStep(w) PROVE Quiet \/ Commits(w)
  <2>1. w \in Indexers
    BY NoneIsNothing
  <2>2. ASSUME NEW n \in Jobs, Take(w, n) PROVE Quiet
    <3> DEFINE q == [Idle EXCEPT !.pc = IF Found(w, job[n].file) = None THEN "fetch" ELSE "bytes",
                                 !.job = n, !.file = job[n].file]
    <3>1. proc' = [proc EXCEPT ![w] = q] /\ q.pc # "commit" /\ UNCHANGED <<row, history, removed>>
      BY <2>2 DEF Take, Idle, store
    <3> HIDE DEF q
    <3> QED
      BY <2>1, <3>1, Known DEF Quiet
  <2>3. CASE Finish(w)
    BY <2>1, <2>3, Known, IdleIsOK DEF Finish, Quiet, store
  <2>4. CASE Fetch(w)
    <3> DEFINE q == [proc[w] EXCEPT !.pc = "bytes"]
    <3>1. proc' = [proc EXCEPT ![w] = q] /\ q.pc = "bytes" /\ UNCHANGED <<row, history, removed>>
      BY <2>1, <2>4, Known DEF Fetch, Go, Proc
    <3> HIDE DEF q
    <3> QED
      BY <2>1, <3>1, Known DEF Quiet
  <2> QED
    BY <1>2, <2>1, <2>2, <2>3, <2>4, IndexKind DEF IngestStep
<1>3. CASE SyncStep
  BY <1>3, SyncKind, IndexKind, NoneIsNothing
<1>4. CASE EmbedStep \/ EmbedRaises
  BY <1>4 DEF EmbedStep, EmbedTake, EmbedWrite, EmbedFails, EmbedRaises, Quiet, store
<1>5. CASE ReindexStep
  <2>1. Manager \in Indexers
    BY NoneIsNothing
  <2>2. ASSUME NEW d \in Contents, ReindexGraph(d) \/ ReindexEmbedding(d) PROVE Quiet
    <3>1. PICK q : proc' = [proc EXCEPT ![Manager] = q] /\ q.pc # "commit"
      <4> DEFINE q == [Idle EXCEPT !.pc = "chunks", !.doc = d]
                 r == [Idle EXCEPT !.pc = "start", !.doc = d]
      <4>1. q.pc = "chunks" /\ r.pc = "start"
        BY DEF Idle
      <4>2. proc' = [proc EXCEPT ![Manager] = q] \/ proc' = [proc EXCEPT ![Manager] = r]
        BY <2>2 DEF ReindexGraph, ReindexEmbedding
      <4> HIDE DEF q, r
      <4> QED
        BY <4>1, <4>2
    <3> QED
      BY <2>1, <2>2, <3>1, Known DEF ReindexGraph, ReindexEmbedding, Quiet, store
  <2>3. CASE StartEmbedding
    BY <2>1, <2>3, Known, IdleIsOK DEF StartEmbedding, Quiet, store
  <2> QED
    BY <1>5, <2>1, <2>2, <2>3, ReadKind, WriteGraphKind DEF ReindexStep
<1>6. ASSUME NEW p \in Indexers, Raises(p) PROVE Quiet
  BY <1>6, FailsKind DEF Raises
<1>7. CASE UNCHANGED vars
  BY <1>7 DEF vars, store, Quiet
<1> QED
  BY <1>1, <1>2, <1>3, <1>4, <1>5, <1>6, <1>7, NoneIsNothing DEF Next

-----------------------------------------------------------------------------
(***************************************************************************)
(* The names, their versions and their history.                             *)
(***************************************************************************)
\* A history only grows, so that a name that is clean now was so before.
LEMMA CleanBefore ==
  ASSUME NEW f \in Files, removed \subseteq removed', Clean(f)',
         DOMAIN history[f] \subseteq DOMAIN history'[f],
         \A v \in DOMAIN history[f] : history'[f][v] = history[f][v]
  PROVE  Clean(f)
BY DEF Clean, IsInjective

\* What has become of the names when f gets new contents after prev: other
\* names keep their row, or the one that held prev's document loses it; f had no
\* row or that of prev's document; and of a clean name the version is the next.
LEMMA StoredFacts ==
  ASSUME TypeInv, OneName, NEW f \in Files, NEW doc \in Contents, NEW prev \in Row \union {None},
         Versions(f), Stored(f, doc, prev),
         prev # None => /\ prev.version \in DOMAIN history[f]
                        /\ Clean(f) => history[f][prev.version] = prev.doc
  PROVE  /\ row' = [g \in Files |-> IF g = f THEN [doc |-> doc, version |-> NextVersion(prev)]
                                    ELSE Kept(prev)[g]]
         /\ \A g \in Files : Kept(prev)[g] # None => Kept(prev)[g] = row[g] /\ row[g].doc # doc
         /\ \A g \in Files : Kept(prev)[g] # row[g] => prev # None /\ g \in Holder(prev.doc) /\ Kept(prev)[g] = None
         /\ row[f] # None => prev # None /\ f \in Holder(prev.doc) /\ row[f].doc # doc
         /\ \A g \in Files : history'[g] = IF g = f THEN Recorded(history[f], NextVersion(prev), doc)
                                           ELSE history[g]
         /\ Clean(f) => /\ NextVersion(prev) \notin DOMAIN history[f]
                        /\ \A v \in DOMAIN history[f] : v < NextVersion(prev)
                        /\ IF row[f] = None THEN prev = None ELSE NextVersion(prev) = row[f].version + 1
<1> DEFINE kept == Kept(prev)
           version == NextVersion(prev)
<1>1. version \in Nat \ {0} /\ (prev # None => version = prev.version + 1) /\ (prev = None => version = 1)
  BY NextVersionType DEF NextVersion
<1>2. row \in [Files -> Maybe(Row)] /\ HistoryOK
  BY DEF TypeInv, StoreOK
<1>3. /\ kept \in [Files -> Maybe(Row)]
      /\ \A g \in Files : kept[g] = row[g] \/ (prev # None /\ g \in Holder(prev.doc) /\ kept[g] = None)
      /\ \A g \in Files : prev # None /\ g \in Holder(prev.doc) => kept[g] = None
  BY <1>2 DEF Kept, Without, Maybe
<1> HIDE DEF kept, version
<1>4. /\ row' = [kept EXCEPT ![f] = [doc |-> doc, version |-> version]]
      /\ kept[f] = None /\ \A g \in Files : kept[g] # None => kept[g].doc # doc
      /\ history' = [history EXCEPT ![f] = Recorded(history[f], version, doc)]
      /\ prev # None => prev.doc # doc
  BY <1>2 DEF Stored, Conflict, kept, version, HistoryOK
<1>5. row' = [g \in Files |-> IF g = f THEN [doc |-> doc, version |-> version] ELSE kept[g]]
  BY <1>3, <1>4
<1>6. \A g \in Files : kept[g] # None => kept[g] = row[g] /\ row[g].doc # doc
  BY <1>3, <1>4
<1>7. \A g \in Files : kept[g] # row[g] => prev # None /\ g \in Holder(prev.doc) /\ kept[g] = None
  BY <1>3
<1>8. row[f] # None => prev # None /\ f \in Holder(prev.doc) /\ row[f].doc # doc
  BY <1>3, <1>4 DEF Holder
<1>9. \A g \in Files : history'[g] = IF g = f THEN Recorded(history[f], version, doc) ELSE history[g]
  BY <1>2, <1>4 DEF HistoryOK
<1>10. ASSUME Clean(f)
       PROVE  /\ version \notin DOMAIN history[f] /\ \A v \in DOMAIN history[f] : v < version
              /\ IF row[f] = None THEN prev = None ELSE version = row[f].version + 1
  <2>1. CASE row[f] = None
    BY <1>1, <1>10, <2>1 DEF Versions
  <2>2. CASE row[f] # None
    <3>1. prev # None /\ prev \in Row /\ row[f].doc = prev.doc
      BY <1>8, <2>2 DEF Holder
    <3>2. /\ history[f][row[f].version] = row[f].doc /\ row[f].version \in DOMAIN history[f]
          /\ \A v \in DOMAIN history[f] : v <= row[f].version
      BY <1>10, <2>2 DEF Versions
    <3>3. history[f][prev.version] = prev.doc /\ prev.version \in DOMAIN history[f]
      BY <1>10, <3>1
    <3>4. prev.version = row[f].version
      BY <1>10, <3>1, <3>2, <3>3 DEF Clean, IsInjective
    <3>5. version = row[f].version + 1
      BY <1>1, <3>1, <3>4
    <3>6. \A v \in DOMAIN history[f] : v \in Nat
      BY <1>2 DEF HistoryOK
    <3>7. row[f].version \in Nat
      BY <3>2, <3>6
    <3> QED
      BY <2>2, <3>2, <3>5, <3>6, <3>7
  <2> QED
    BY <2>1, <2>2
<1> QED
  BY <1>5, <1>6, <1>7, <1>8, <1>9, <1>10 DEF kept, version

\* The same of a transaction.
LEMMA CommitFacts ==
  ASSUME IInv, NEW p \in Indexers, Commits(p),
         NEW f, f = proc[p].file, NEW doc, doc = proc[p].bytes, NEW prev, prev = proc[p].prev
  PROVE  /\ f \in Files /\ doc \in Contents /\ prev \in Row \union {None}
         /\ TypeInv /\ OneName /\ Versions(f) /\ Stored(f, doc, prev)
         /\ prev # None => /\ prev.version \in DOMAIN history[f]
                           /\ Clean(f) => history[f][prev.version] = prev.doc
BY DEF IInv, CatalogInv, WasRow, Commits

LEMMA QuietCatalog ==
  ASSUME IInv, Quiet
  PROVE  CatalogInv'
<1>1. OneName'
  BY DEF Quiet, IInv, CatalogInv, OneName
<1>2. ASSUME NEW f \in Files PROVE Versions(f)' /\ (Clean(f)' <=> Clean(f))
  BY DEF Quiet, IInv, CatalogInv, Versions, Clean
<1>3. ASSUME NEW p \in Indexers PROVE WasRow(proc[p])'
  <2>1. UNCHANGED <<row, history, removed>>
    BY DEF Quiet
  <2>2. CASE proc'[p] = proc[p]
    <3>1. WasRow(proc[p])
      BY DEF IInv, CatalogInv
    <3> QED
      BY <2>1, <2>2, <3>1 DEF WasRow, Clean
  <2>3. CASE proc'[p].file \in Files /\ proc'[p].prev = row[proc'[p].file]
    <3>1. PICK f \in Files : f = proc'[p].file
      BY <2>3
    <3>2. Versions(f)
      BY DEF IInv, CatalogInv
    <3>3. row[f] # None => /\ row[f].version \in DOMAIN history[f]
                           /\ Clean(f) => history[f][row[f].version] = row[f].doc
      BY <3>2 DEF Versions
    <3> QED
      BY <2>1, <2>3, <3>1, <3>3 DEF WasRow, Clean
  <2>4. CASE proc'[p].pc # "commit"
    BY <2>4 DEF WasRow
  <2> QED
    BY <2>2, <2>3, <2>4 DEF Quiet
<1> QED
  BY <1>1, <1>2, <1>3 DEF CatalogInv

LEMMA DeletesCatalog ==
  ASSUME IInv, NEW d, Deletes(d)
  PROVE  CatalogInv'
<1>1. \A f \in Files : row'[f] = IF f \in Holder(d) THEN None ELSE row[f]
  BY DEF Deletes, Without
<1>2. OneName'
  BY <1>1 DEF IInv, CatalogInv, OneName
<1>3. ASSUME NEW f \in Files PROVE /\ Clean(f)' => Clean(f) /\ f \notin Holder(d)
                                   /\ Versions(f)'
  <2>1. Clean(f)' => Clean(f) /\ f \notin Holder(d)
    BY DEF Deletes, Clean
  <2> QED
    BY <1>1, <2>1, NoneIsNothing DEF Deletes, IInv, CatalogInv, Versions
<1>4. ASSUME NEW p \in Indexers PROVE WasRow(proc[p])'
  <2>1. proc[p].pc = "commit" => proc[p].file \in Files
    BY Known DEF IInv, ProcOK
  <2>2. WasRow(proc[p])
    BY DEF IInv, CatalogInv
  <2> QED
    BY <1>3, <2>1, <2>2 DEF Deletes, WasRow
<1> QED
  BY <1>2, <1>3, <1>4 DEF CatalogInv

LEMMA CommitsCatalog ==
  ASSUME IInv, NEW p \in Indexers, Commits(p)
  PROVE  CatalogInv'
<1>0. PICK f, doc, prev : f = proc[p].file /\ doc = proc[p].bytes /\ prev = proc[p].prev
  OBVIOUS
<1> DEFINE kept == Kept(prev)
           version == NextVersion(prev)
<1>1. /\ f \in Files /\ doc \in Contents /\ prev \in Row \union {None}
      /\ TypeInv /\ OneName /\ Versions(f) /\ Stored(f, doc, prev)
      /\ prev # None => /\ prev.version \in DOMAIN history[f]
                        /\ Clean(f) => history[f][prev.version] = prev.doc
  BY <1>0, CommitFacts
<1>2. /\ row' = [g \in Files |-> IF g = f THEN [doc |-> doc, version |-> version] ELSE kept[g]]
      /\ \A g \in Files : kept[g] # None => kept[g] = row[g] /\ row[g].doc # doc
      /\ \A g \in Files : kept[g] # row[g] => kept[g] = None
      /\ \A g \in Files : history'[g] = IF g = f THEN Recorded(history[f], version, doc) ELSE history[g]
      /\ Clean(f) => version \notin DOMAIN history[f] /\ \A v \in DOMAIN history[f] : v < version
  BY <1>1, StoredFacts
<1>3. removed' = removed \union {g \in Files \ {f} : kept[g] # row[g]}
  BY <1>1 DEF Stored
<1>4. version \in Nat \ {0} /\ (prev # None => version = prev.version + 1) /\ (prev = None => version = 1)
  BY <1>1, NextVersionType DEF NextVersion
<1>5. /\ DOMAIN history'[f] = DOMAIN history[f] \union {version}
      /\ \A v \in DOMAIN history[f] : history'[f][v] = history[f][v]
      /\ version \notin DOMAIN history[f] => history'[f][version] = doc
  <2> DEFINE h == Recorded(history[f], version, doc)
  <2>1. /\ DOMAIN h = DOMAIN history[f] \union {version}
        /\ \A v \in DOMAIN history[f] : h[v] = history[f][v]
        /\ version \notin DOMAIN history[f] => h[version] = doc
    BY RecordedEntries
  <2>2. history'[f] = h
    BY <1>1, <1>2
  <2> HIDE DEF h
  <2> QED
    BY <2>1, <2>2
<1>6. proc'[p].pc # "commit" /\ \A o \in Indexers \ {p} : proc'[o] = proc[o]
  BY DEF Commits
<1> HIDE DEF kept, version
<1>7. \A g \in Files : Clean(g)' => Clean(g)
  <2> SUFFICES ASSUME NEW g \in Files, Clean(g)' PROVE Clean(g)
    OBVIOUS
  <2>1. DOMAIN history[g] \subseteq DOMAIN history'[g] /\ \A v \in DOMAIN history[g] : history'[g][v] = history[g][v]
    BY <1>2, <1>5
  <2> QED
    BY <1>3, <2>1, CleanBefore
<1>8. OneName'
  BY <1>1, <1>2 DEF OneName
<1>9. ASSUME NEW g \in Files, g # f PROVE Versions(g)'
  <2>1. row'[g] = kept[g] /\ history'[g] = history[g] /\ Versions(g)
    BY <1>2, <1>9 DEF IInv, CatalogInv
  <2>2. CASE kept[g] = row[g]
    BY <1>7, <2>1, <2>2 DEF Versions
  <2>3. CASE kept[g] # row[g]
    <3>1. ~Clean(g)'
      BY <1>3, <1>9, <2>3 DEF Clean
    <3> QED
      BY <1>2, <2>1, <2>3, <3>1 DEF Versions
  <2> QED
    BY <2>2, <2>3
<1>10. Versions(f)'
  <2>1. row'[f].version = version /\ row'[f].doc = doc /\ row'[f] # None
    <3>1. row'[f] = [doc |-> doc, version |-> version]
      BY <1>1, <1>2
    <3>2. row'[f] \in Row
      BY <1>1, <1>4, <3>1 DEF Row
    <3> QED
      BY <3>1, <3>2, NoneIsNothing
  <2>2. \A v \in DOMAIN history[f] : v \in Nat \ {0} /\ 1..v \subseteq DOMAIN history[f]
    BY <1>1 DEF Versions, TypeInv, StoreOK, HistoryOK
  <2>3. 1..version \subseteq DOMAIN history'[f]
    <3>1. CASE prev = None
      BY <1>4, <1>5, <3>1
    <3>2. CASE prev # None
      <4>1. prev.version \in Nat /\ 1..prev.version \subseteq DOMAIN history[f] /\ version = prev.version + 1
        BY <1>1, <1>4, <2>2, <3>2
      <4>2. \A v \in 1..version : v \in 1..prev.version \/ v = version
        BY <4>1
      <4> QED
        BY <1>5, <4>1, <4>2
    <3> QED
      BY <3>1, <3>2
  <2>4. \A v \in DOMAIN history'[f] : 1..v \subseteq DOMAIN history'[f]
    BY <1>5, <2>2, <2>3
  <2>5. ASSUME Clean(f)'
        PROVE  history'[f][version] = doc /\ \A v \in DOMAIN history'[f] : v <= version
    <3>1. version \notin DOMAIN history[f] /\ \A v \in DOMAIN history[f] : v < version
      BY <1>1, <1>2, <1>7, <2>5
    <3> QED
      BY <1>4, <1>5, <2>2, <3>1
  <2> QED
    BY <1>5, <2>1, <2>4, <2>5 DEF Versions
<1>11. ASSUME NEW o \in Indexers PROVE WasRow(proc[o])'
  <2>1. CASE o = p
    BY <1>6, <2>1 DEF WasRow
  <2>2. CASE o # p
    <3>1. proc'[o] = proc[o] /\ WasRow(proc[o]) /\ (proc[o].pc = "commit" => proc[o].file \in Files)
      BY <1>6, <2>2, Known DEF IInv, CatalogInv, ProcOK
    <3>2. ASSUME NEW g \in Files, NEW v \in DOMAIN history[g]
          PROVE  v \in DOMAIN history'[g] /\ history'[g][v] = history[g][v]
      BY <1>2, <1>5
    <3>3. ASSUME proc[o].pc = "commit", proc[o].prev # None
          PROVE  /\ proc[o].prev.version \in DOMAIN history'[proc[o].file]
                 /\ Clean(proc[o].file)' => history'[proc[o].file][proc[o].prev.version] = proc[o].prev.doc
      BY <1>7, <3>1, <3>2, <3>3 DEF WasRow
    <3> QED
      BY <3>1, <3>3 DEF WasRow
  <2> QED
    BY <2>1, <2>2
<1> QED
  BY <1>1, <1>8, <1>9, <1>10, <1>11 DEF CatalogInv

-----------------------------------------------------------------------------
(***************************************************************************)
(* Work in hand.                                                            *)
(***************************************************************************)
\* A worker that is busy has a job of its own, of the name it indexes.
Works(w) ==
    proc[w].pc # "idle" =>
        /\ proc[w].job \in Jobs
        /\ job[proc[w].job].state = "busy" /\ job[proc[w].job].file = proc[w].file
        /\ \A v \in Workers \ {w} : proc[v].pc # "idle" => proc[v].job # proc[w].job

\* Only an indexer that has read its file holds bytes, and a sync that is not at
\* work does nothing.
WorkInv ==
    /\ \A w \in Workers : Works(w)
    /\ \A p \in Indexers : proc[p].bytes # None => proc[p].pc \in {"text", "select", "commit"}
    /\ sync.state # "busy" => proc[Syncer].pc = "idle"

-----------------------------------------------------------------------------
(***************************************************************************)
(* Graphs and vectors.                                                      *)
(***************************************************************************)
\* q makes the graph of document d, or is about to have its vectors computed.
Minds(q, d) == q.pc \in {"chunks", "graph", "start"} /\ q.doc = d

\* q has a file in hand that is not stored yet.
Indexes(q) == q.pc \in {"fetch", "bytes", "text", "select", "commit"}

Embeds(d) == embedder # None /\ embedder.doc = d

Held(d) == Holder(d) # {}

\* What p has in hand for a document that is held: chunks that are the
\* document's, and, once a worker has made it, their graph.
Carries(p, d) ==
    Minds(proc[p], d) =>
        /\ Held(d)
        /\ proc[p].pc = "graph" => proc[p].chunks = chunks[d]
        /\ p \in Workers /\ proc[p].pc = "start" => graph[d] = chunks[d]

\* A sync that has indexed d makes its graph before it ends.
Synced(d) ==
    /\ d \in sync.graphs => d \in sync.changed
    /\ d \in sync.changed =>
           /\ Held(d)
           /\ d \in sync.graphs \/ Minds(proc[Syncer], d) \/ graph[d] = chunks[d]

\* Of a document that was never dropped only what is there is referred to, what
\* was read of it is what is there, and its graph is made before it is passed on.
Sound(d) ==
    /\ Held(d) => chunks[d] # None
    /\ \A p \in Indexers : Carries(p, d)
    /\ d \in owed => Held(d)
    /\ Embeds(d) => Held(d) /\ embedder.chunks = chunks[d]
    /\ Synced(d)

\* f has a job that waits or was begun.
Due(f) ==
    \/ \E n \in Jobs : job[n].file = f /\ job[n].state = "queued"
    \/ \E w \in Workers : proc[w].file = f /\ Indexes(proc[w])

\* Somebody will see to the graph and the vectors of f's document d, or they are
\* those of its chunks.
Cared(f, d) ==
    \/ Due(f)
    \/ \E w \in Workers : proc[w].file = f /\ Minds(proc[w], d)
    \/ d \in sync.changed
    \/ graph[d] = chunks[d] /\ (embedding[d] = chunks[d] \/ d \in owed \/ Embeds(d))

DerivedInv ==
    /\ \A d \in Contents \ dropped : Sound(d)
    /\ \A f \in Files : row[f] # None /\ row[f].doc \notin dropped /\ f \notin interrupted =>
           Cared(f, row[f].doc)

-----------------------------------------------------------------------------
(***************************************************************************)
(* Files and rows on one directory while nothing is changed, deleted or     *)
(* fails.                                                                   *)
(***************************************************************************)
\* The files of the one directory.
Directory == CHOOSE h \in Hosts : TRUE
files == file[Directory]

\* No file and no row goes, so that whatever names a file finds one.
Calm ==
    /\ unlink = {} /\ sync.gone = {}
    /\ \A p \in Indexers : proc[p].pc # "fetch"
    /\ \A f \in Files : row[f] # None \/ sync.known[f] # None \/ f \in sync.todo => files[f] # None
    /\ \A n \in Jobs : job[n].state # "none" => files[job[n].file] # None
    /\ \A p \in Indexers :
           /\ Indexes(proc[p]) => files[proc[p].file] # None
           /\ proc[p].pc = "commit" /\ proc[p].prev # None => row[proc[p].file] # None

\* q has read the file of f.
Reads(q, f) == q.file = f /\ q.bytes # None

\* What f's file holds will be read; or it has been, by one worker only; or f's
\* row holds it, and nobody has read anything else.
Followed(f) ==
    \/ \E n \in Jobs : /\ job[n].file = f
                       /\ \/ job[n].state = "queued"
                          \/ \E w \in Workers : proc[w].pc = "bytes" /\ proc[w].job = n
    \/ \E w \in Workers : /\ Reads(proc[w], f) /\ proc[w].bytes = files[f]
                          /\ \A q \in Indexers \ {w} : ~Reads(proc[q], f)
    \/ /\ row[f] # None /\ row[f].doc = files[f]
       /\ \A q \in Indexers : Reads(proc[q], f) => proc[q].bytes = files[f]

Following == \A f \in Files \ raced : files[f] # None => Followed(f)

\* c was uploaded under the name f.
Came(f, c) == \E n \in Jobs : job[n].file = f /\ job[n].object = c

\* Contents read from f's file were uploaded, and a text that is not theirs was
\* read when the file had moved on, to which a name that never returns stays.
Untorn(f) ==
    /\ files[f] # None => Came(f, files[f])
    /\ row[f] # None => /\ Came(f, row[f].doc)
                        /\ chunks[row[f].doc] = row[f].doc \/ row[f].doc # files[f]
    /\ \A p \in Indexers : Reads(proc[p], f) =>
           /\ Came(f, proc[p].bytes)
           /\ proc[p].pc \in {"select", "commit"} => proc[p].text = proc[p].bytes \/ proc[p].bytes # files[f]

TextInv ==
    /\ \A n \in Jobs : job[n].state = "none" => job[n].file = None
    /\ \A f \in Files : NeverReturned(f) => Untorn(f)

FollowInv == OneDirectory /\ events = 0 => Calm /\ Following /\ TextInv

-----------------------------------------------------------------------------
(***************************************************************************)
(* What a step does to its indexer.                                         *)
(***************************************************************************)
Only(p) == \A o \in Indexers \ {p} : proc'[o] = proc[o]

LEMMA IdleFields == Idle.pc = "idle" /\ Idle.bytes = None /\ Idle.file = None /\ Idle.doc = None
  BY DEF Idle

LEMMA FailsEffect ==
  ASSUME TypeInv, NEW p \in Indexers, Fails(p)
  PROVE  proc'[p] = Idle /\ Only(p)
  BY Known DEF Fails, Only

\* A job has another state.
LEMMA JobEffect ==
  ASSUME TypeInv, NEW n \in Jobs, NEW s, job' = [job EXCEPT ![n].state = s]
  PROVE  /\ job'[n].state = s /\ job'[n].file = job[n].file
         /\ \A k \in Jobs \ {n} : job'[k] = job[k]
  BY DEF TypeInv, JobsOK, JobState

LEMMA UploadEffect ==
  ASSUME TypeInv, NEW h, NEW f \in Files, NEW c \in Contents, Upload(h, f, c)
  PROVE  \E n \in Jobs : /\ job[n].state = "none"
                         /\ job'[n].file = f /\ job'[n].state = "queued" /\ job'[n].object = c
                         /\ \A k \in Jobs \ {n} : job'[k] = job[k]
<1>1. PICK n \in Jobs : job[n].state = "none" /\ job' = [job EXCEPT ![n] = [file |-> f, object |-> c, state |-> "queued"]]
  BY DEF Upload
<1>2. job'[n] = [file |-> f, object |-> c, state |-> "queued"] /\ \A k \in Jobs \ {n} : job'[k] = job[k]
  BY <1>1 DEF TypeInv, JobsOK
<1> QED
  BY <1>1, <1>2

LEMMA TakeEffect ==
  ASSUME TypeInv, NEW w \in Workers, NEW n \in Jobs, Take(w, n)
  PROVE  /\ proc[w].pc = "idle" /\ job[n].state = "queued" /\ job[n].file \in Files
         /\ proc'[w].pc = IF Found(w, job[n].file) = None THEN "fetch" ELSE "bytes"
         /\ proc'[w].job = n /\ proc'[w].file = job[n].file
         /\ proc'[w].bytes = None /\ proc'[w].doc = None /\ Only(w)
         /\ job'[n].state = "busy" /\ job'[n].file = job[n].file
         /\ \A k \in Jobs \ {n} : job'[k] = job[k]
<1> DEFINE q == [Idle EXCEPT !.pc = IF Found(w, job[n].file) = None THEN "fetch" ELSE "bytes",
                             !.job = n, !.file = job[n].file]
<1>1. /\ q.pc = IF Found(w, job[n].file) = None THEN "fetch" ELSE "bytes"
      /\ q.job = n /\ q.file = job[n].file /\ q.bytes = None /\ q.doc = None
  BY DEF Idle
<1>2. proc' = [proc EXCEPT ![w] = q] /\ job' = [job EXCEPT ![n].state = "busy"]
  BY DEF Take
<1> HIDE DEF q
<1>3. proc'[w] = q /\ Only(w)
  BY <1>2, Known, NoneIsNothing DEF Only
<1>4. job[n].state = "queued" /\ proc[w].pc = "idle" /\ job[n].file \in Files
  BY DEF Take, TypeInv, JobsOK, JobState, Maybe
<1> QED
  BY <1>1, <1>2, <1>3, <1>4, JobEffect

LEMMA FetchEffect ==
  ASSUME TypeInv, NEW w \in Workers, Fetch(w)
  PROVE  /\ proc[w].pc = "fetch" /\ proc'[w].pc = "bytes"
         /\ proc'[w].job = proc[w].job /\ proc'[w].file = proc[w].file
         /\ proc'[w].bytes = proc[w].bytes /\ proc'[w].doc = proc[w].doc /\ Only(w)
         /\ UNCHANGED <<row, history, chunks, graph, embedding, job, sync, embedder, owed, unlink,
                        events, removed, dropped, raced, interrupted>>
<1>1. w \in Indexers
  BY NoneIsNothing
<1>2. proc[w].pc = "fetch" /\ proc' = [proc EXCEPT ![w].pc = "bytes"]
  BY DEF Fetch, Go
<1> QED
  BY <1>1, <1>2, Known DEF Fetch, Only, Proc

LEMMA ReadBytesEffect ==
  ASSUME TypeInv, NEW p \in Indexers, ReadBytes(p), ~Fails(p)
  PROVE  /\ proc[p].pc = "bytes" /\ proc[p].file \in Files /\ Found(p, proc[p].file) # None
         /\ proc'[p].pc = "text" /\ proc'[p].bytes = Found(p, proc[p].file)
         /\ proc'[p].file = proc[p].file /\ proc'[p].job = proc[p].job /\ proc'[p].doc = proc[p].doc
         /\ Only(p)
<1>1. /\ proc' = [proc EXCEPT ![p].pc = "text", ![p].bytes = Found(p, proc[p].file)]
      /\ proc[p].pc = "bytes" /\ Found(p, proc[p].file) # None
  BY DEF ReadBytes
<1> QED
  BY <1>1, Known DEF Only, ProcOK, Proc

LEMMA ReadTextEffect ==
  ASSUME TypeInv, NEW p \in Indexers, ReadText(p), ~Fails(p)
  PROVE  /\ proc[p].pc = "text" /\ proc[p].file \in Files /\ proc'[p].pc = "select"
         /\ proc'[p].bytes = proc[p].bytes /\ proc'[p].text = Found(p, proc[p].file)
         /\ proc'[p].file = proc[p].file /\ proc'[p].job = proc[p].job /\ proc'[p].doc = proc[p].doc
         /\ Only(p)
<1>1. /\ proc' = [proc EXCEPT ![p].pc = "select", ![p].text = Found(p, proc[p].file)]
      /\ proc[p].pc = "text"
  BY DEF ReadText
<1> QED
  BY <1>1, Known DEF Only, ProcOK, Proc

LEMMA IndexedEffect ==
  ASSUME TypeInv, NEW p \in Indexers, NEW d \in Contents, Indexed(p, d)
  PROVE  /\ Only(p) /\ proc'[p].bytes = None
         /\ p = Syncer => /\ proc'[p].pc = "compare"
                          /\ sync'.state = sync.state /\ sync'.gone = sync.gone /\ sync'.known = sync.known
                          /\ sync'.todo \subseteq sync.todo
                          /\ sync'.changed = sync.changed \union {d} /\ sync'.graphs = sync.graphs \union {d}
         /\ p # Syncer => /\ proc'[p].pc = "chunks" /\ proc'[p].doc = d
                          /\ proc'[p].file = proc[p].file /\ proc'[p].job = proc[p].job
                          /\ sync' = sync
<1>1. CASE p = Syncer
  <2>1. /\ proc' = [proc EXCEPT ![p] = [Idle EXCEPT !.pc = "compare"]]
        /\ sync' = [sync EXCEPT !.todo = @ \ {proc[p].file}, !.changed = @ \union {d}, !.graphs = @ \union {d}]
    BY <1>1 DEF Indexed
  <2>2. Only(p) /\ proc'[p] = [Idle EXCEPT !.pc = "compare"]
    BY <2>1, Known DEF Only
  <2>3. proc'[p].pc = "compare" /\ proc'[p].bytes = None
    BY <2>2 DEF Idle
  <2> QED
    BY <1>1, <2>1, <2>2, <2>3 DEF TypeInv, SyncOK, SyncState
<1>2. CASE p # Syncer
  <2>1. /\ proc' = [proc EXCEPT ![p].pc = "chunks", ![p].doc = d, ![p].bytes = None,
                                ![p].text = None, ![p].prev = None]
        /\ sync' = sync
    BY <1>2 DEF Indexed
  <2> QED
    BY <1>2, <2>1, Known DEF Only, Proc
<1> QED
  BY <1>1, <1>2

\* The transaction finds the contents stored, or goes on with the row it found.
LEMMA SelectEffect ==
  ASSUME TypeInv, NEW p \in Indexers, SelectPrevious(p)
  PROVE  /\ proc[p].pc = "select" /\ proc[p].file \in Files /\ proc[p].bytes \in Contents
         /\ \/ /\ row[proc[p].file] # None /\ row[proc[p].file].doc = proc[p].bytes
               /\ Indexed(p, proc[p].bytes)
            \/ /\ proc'[p].pc = "commit" /\ proc'[p].prev = row[proc[p].file]
               /\ proc'[p].bytes = proc[p].bytes /\ proc'[p].text = proc[p].text
               /\ proc'[p].file = proc[p].file /\ proc'[p].job = proc[p].job /\ proc'[p].doc = proc[p].doc
               /\ Only(p) /\ UNCHANGED sync
<1>1. proc[p].pc = "select" /\ proc[p].file \in Files /\ proc[p].bytes \in Contents
  BY Known DEF SelectPrevious, ProcOK
<1>2. CASE /\ proc' = [proc EXCEPT ![p].pc = "commit", ![p].prev = row[proc[p].file]]
           /\ UNCHANGED sync
  BY <1>1, <1>2, Known DEF Only, Proc
<1> QED
  BY <1>1, <1>2 DEF SelectPrevious

LEMMA CommitEffect ==
  ASSUME TypeInv, NEW p \in Indexers, Commit(p), ~Fails(p),
         NEW f, f = proc[p].file, NEW doc, doc = proc[p].bytes, NEW prev, prev = proc[p].prev
  PROVE  /\ proc[p].pc = "commit" /\ f \in Files /\ doc \in Contents /\ prev \in Row \union {None}
         /\ Stored(f, doc, prev) /\ Indexed(p, doc)
         /\ chunks' = [d \in Contents |-> IF d = doc THEN proc[p].text
                                         ELSE IF prev # None /\ d = prev.doc THEN None ELSE chunks[d]]
         /\ proc[p].text \in Contents
         /\ graph' = IF prev = None THEN graph ELSE [graph EXCEPT ![prev.doc] = None]
         /\ embedding' = IF prev = None THEN embedding ELSE [embedding EXCEPT ![prev.doc] = None]
         /\ dropped' = IF prev = None THEN dropped ELSE dropped \union {prev.doc}
         /\ UNCHANGED <<file, job, embedder, owed, unlink, events, raced, interrupted>>
<1>1. proc[p].pc = "commit" /\ f \in Files /\ doc \in Contents /\ prev \in Row \union {None} /\ proc[p].text \in Contents
  BY Known DEF Commit, ProcOK
<1>2. prev # None => prev.doc # doc
  BY <1>1, Known DEF ProcOK
<1>3. /\ ~Conflict(Kept(prev), f, doc) /\ Indexed(p, doc)
      /\ row' = [Kept(prev) EXCEPT ![f] = [doc |-> doc, version |-> NextVersion(prev)]]
      /\ history' = [history EXCEPT ![f] = Recorded(@, NextVersion(prev), doc)]
      /\ removed' = removed \union {g \in Files \ {f} : Kept(prev)[g] # row[g]}
  BY DEF Commit, Recorded, Kept
<1>4. Stored(f, doc, prev)
  BY <1>2, <1>3 DEF Stored
<1> QED
  BY <1>1, <1>3, <1>4 DEF Commit

LEMMA ReadChunksEffect ==
  ASSUME TypeInv, NEW p \in Indexers, ReadChunks(p)
  PROVE  /\ proc[p].pc = "chunks" /\ proc[p].doc \in Contents
         /\ proc'[p].pc = "graph" /\ proc'[p].chunks = chunks[proc[p].doc]
         /\ proc'[p].bytes = proc[p].bytes
         /\ proc'[p].file = proc[p].file /\ proc'[p].job = proc[p].job /\ proc'[p].doc = proc[p].doc
         /\ Only(p)
<1>1. proc' = [proc EXCEPT ![p].pc = "graph", ![p].chunks = chunks[proc[p].doc]] /\ proc[p].pc = "chunks"
  BY DEF ReadChunks
<1> QED
  BY <1>1, Known DEF Only, ProcOK, Proc

LEMMA WriteGraphEffect ==
  ASSUME TypeInv, NEW p \in Indexers, WriteGraph(p), ~Fails(p)
  PROVE  /\ proc[p].pc = "graph" /\ proc[p].doc \in Contents
         /\ graph' = [graph EXCEPT ![proc[p].doc] = proc[p].chunks]
         /\ UNCHANGED <<file, row, history, chunks, embedding, job, sync, embedder, owed, unlink,
                        events, removed, dropped, raced, interrupted>>
         /\ Only(p)
         /\ p \in Workers => /\ proc'[p].pc = "start" /\ proc'[p].bytes = proc[p].bytes
                             /\ proc'[p].file = proc[p].file /\ proc'[p].job = proc[p].job
                             /\ proc'[p].doc = proc[p].doc
         /\ p \notin Workers => /\ proc'[p].pc = IF p = Syncer THEN "compare" ELSE "idle"
                                /\ proc'[p].bytes = None
<1>1. /\ proc[p].pc = "graph" /\ graph' = [graph EXCEPT ![proc[p].doc] = proc[p].chunks]
      /\ UNCHANGED <<file, row, history, chunks, embedding, job, sync, embedder, owed, unlink,
                     events, removed, dropped, raced, interrupted>>
      /\ proc[p].doc \in Contents
  BY Known DEF WriteGraph, ProcOK
<1>2. CASE p \in Workers
  <2>1. proc' = [proc EXCEPT ![p] = [@ EXCEPT !.pc = "start"]]
    BY <1>2, NoneIsNothing DEF WriteGraph
  <2> QED
    BY <1>1, <1>2, <2>1, Known DEF Only, Proc
<1>3. CASE p = Syncer
  <2> DEFINE q == [Idle EXCEPT !.pc = "compare"]
  <2>1. proc' = [proc EXCEPT ![p] = q]
    BY <1>3, NoneIsNothing DEF WriteGraph
  <2>2. q.pc = "compare" /\ q.bytes = None
    BY DEF Idle
  <2> HIDE DEF q
  <2>3. proc'[p] = q /\ Only(p)
    BY <2>1, Known DEF Only
  <2> QED
    BY <1>1, <1>3, <2>2, <2>3, NoneIsNothing
<1>4. CASE p = Manager
  <2>1. proc' = [proc EXCEPT ![p] = Idle]
    BY <1>4, NoneIsNothing DEF WriteGraph
  <2>2. proc'[p] = Idle /\ Only(p)
    BY <2>1, Known DEF Only
  <2> QED
    BY <1>1, <1>4, <2>2, NoneIsNothing, IdleFields
<1> QED
  BY <1>2, <1>3, <1>4 DEF Indexers

LEMMA FinishEffect ==
  ASSUME TypeInv, NEW w \in Workers, Finish(w)
  PROVE  /\ proc[w].pc = "start" /\ proc[w].doc \in Contents
         /\ proc'[w] = Idle /\ Only(w)
         /\ \A n \in Jobs \ {proc[w].job} : job'[n] = job[n]
         /\ \A n \in Jobs : job'[n].file = job[n].file
<1>1. w \in Indexers /\ proc[w].pc = "start" /\ proc[w].doc \in Contents
  BY NoneIsNothing, Known DEF Finish, ProcOK
<1>2. proc'[w] = Idle /\ Only(w)
  BY <1>1, Known DEF Finish, Only
<1>3. \A n \in Jobs : (n # proc[w].job => job'[n] = job[n]) /\ job'[n].file = job[n].file
  BY DEF Finish, TypeInv, JobsOK, JobState
<1> QED
  BY <1>1, <1>2, <1>3

\* The manager begins with a document.
LEMMA ReindexEffect ==
  ASSUME TypeInv, NEW d \in Contents, ReindexGraph(d) \/ ReindexEmbedding(d)
  PROVE  /\ Holder(d) # {} /\ proc[Manager].pc = "idle"
         /\ proc'[Manager].pc \in {"chunks", "start"} /\ proc'[Manager].doc = d
         /\ proc'[Manager].bytes = None /\ Only(Manager)
<1>1. PICK s \in {"chunks", "start"} : proc' = [proc EXCEPT ![Manager] = [Idle EXCEPT !.pc = s, !.doc = d]]
  BY DEF ReindexGraph, ReindexEmbedding
<1> DEFINE q == [Idle EXCEPT !.pc = s, !.doc = d]
<1>2. q.pc = s /\ q.doc = d /\ q.bytes = None
  BY DEF Idle
<1> HIDE DEF q
<1>3. proc'[Manager] = q /\ Only(Manager)
  BY <1>1, Known, NoneIsNothing DEF Only, q
<1> QED
  BY <1>2, <1>3 DEF ReindexGraph, ReindexEmbedding

LEMMA StartEmbeddingEffect ==
  ASSUME TypeInv, StartEmbedding
  PROVE  /\ proc[Manager].pc = "start" /\ proc[Manager].doc \in Contents
         /\ proc'[Manager] = Idle /\ Only(Manager)
<1>1. Manager \in Indexers /\ proc[Manager].pc = "start"
  BY NoneIsNothing DEF StartEmbedding
<1> QED
  BY <1>1, Known DEF StartEmbedding, ProcOK, Only

\* The sync worker begins, ...
LEMMA SyncListEffect ==
  ASSUME TypeInv, SyncList
  PROVE  /\ sync.state = "queued" /\ sync'.state = "listed"
         /\ \A f \in Files : sync'.known[f] # None => row[f] # None /\ sync'.known[f] = row[f].doc
         /\ sync'.todo = sync.todo /\ sync'.gone = sync.gone
         /\ sync'.changed = sync.changed /\ sync'.graphs = sync.graphs
<1>1. PICK hidden \in SUBSET {f \in Files : row[f] # None} :
         sync' = [sync EXCEPT !.state = "listed",
                      !.known = [f \in Files |-> IF row[f] = None \/ f \in hidden THEN None ELSE row[f].doc]]
  BY DEF SyncList
<1> QED
  BY <1>1 DEF SyncList, TypeInv, SyncOK, SyncState

LEMMA SyncScanEffect ==
  ASSUME TypeInv, SyncScan
  PROVE  /\ sync.state = "listed" /\ sync'.state = "busy"
         /\ sync'.known = sync.known /\ sync'.todo = {f \in Files : Found(Syncer, f) # None}
         /\ sync'.gone = {f \in Files : sync.known[f] # None /\ Found(Syncer, f) = None}
         /\ sync'.changed = sync.changed /\ sync'.graphs = sync.graphs
         /\ proc'[Syncer].pc = "compare" /\ proc'[Syncer].bytes = proc[Syncer].bytes /\ Only(Syncer)
<1>1. /\ sync.state = "listed" /\ sync'.state = "busy"
      /\ sync'.known = sync.known /\ sync'.todo = {f \in Files : Found(Syncer, f) # None}
      /\ sync'.gone = {f \in Files : sync.known[f] # None} \ {f \in Files : Found(Syncer, f) # None}
      /\ sync'.changed = sync.changed /\ sync'.graphs = sync.graphs
  BY DEF SyncScan, TypeInv, SyncOK, SyncState
<1>2. proc'[Syncer].pc = "compare" /\ proc'[Syncer].bytes = proc[Syncer].bytes /\ Only(Syncer)
  BY Known, NoneIsNothing DEF SyncScan, Go, Only, Proc
<1> QED
  BY <1>1, <1>2

\* ... goes on to the next file, ...
LEMMA SyncCompareEffect ==
  ASSUME TypeInv, NEW f \in Files, SyncCompare(f), ~Fails(Syncer)
  PROVE  /\ proc[Syncer].pc = "compare" /\ f \in sync.todo /\ Found(Syncer, f) # None
         /\ UNCHANGED <<store, job, embedder, owed, unlink, events, removed, dropped, raced, interrupted>>
         /\ sync'.state = sync.state /\ sync'.known = sync.known /\ sync'.gone = sync.gone
         /\ sync'.todo \subseteq sync.todo
         /\ sync'.changed = sync.changed /\ sync'.graphs = sync.graphs
         /\ Only(Syncer)
         /\ \/ UNCHANGED proc
            \/ /\ proc'[Syncer].pc = "bytes" /\ proc'[Syncer].file = f
               /\ proc'[Syncer].bytes = proc[Syncer].bytes
<1>1. /\ proc[Syncer].pc = "compare" /\ f \in sync.todo /\ Found(Syncer, f) # None
      /\ UNCHANGED <<store, job, embedder, owed, unlink, events, removed, dropped, raced, interrupted>>
  BY DEF SyncCompare
<1>2. CASE sync' = [sync EXCEPT !.todo = @ \ {f}] /\ UNCHANGED proc
  BY <1>1, <1>2 DEF Only, TypeInv, SyncOK, SyncState
<1>3. CASE proc' = [proc EXCEPT ![Syncer].pc = "bytes", ![Syncer].file = f] /\ UNCHANGED sync
  <2>1. /\ proc'[Syncer].pc = "bytes" /\ proc'[Syncer].file = f
        /\ proc'[Syncer].bytes = proc[Syncer].bytes /\ Only(Syncer)
    BY <1>3, Known, NoneIsNothing DEF Only, Proc
  <2> QED
    BY <1>1, <1>3, <2>1
<1> QED
  BY <1>2, <1>3 DEF SyncCompare

LEMMA SyncDeleteEffect ==
  ASSUME TypeInv, NEW f \in Files, SyncDelete(f)
  PROVE  /\ f \in sync.gone /\ sync.known[f] \in Contents /\ DeleteRow(Home[Syncer], sync.known[f])
         /\ sync'.state = sync.state /\ sync'.known = sync.known /\ sync'.todo = sync.todo
         /\ sync'.changed = sync.changed /\ sync'.graphs = sync.graphs
  BY DEF SyncDelete, TypeInv, SyncOK, SyncState, Maybe

\* ... to a graph, and ends.
LEMMA SyncGraphEffect ==
  ASSUME TypeInv, NEW d \in Contents, SyncGraph(d)
  PROVE  /\ proc[Syncer].pc = "compare" /\ d \in sync.graphs
         /\ sync'.state = sync.state /\ sync'.known = sync.known /\ sync'.todo = sync.todo
         /\ sync'.gone = sync.gone
         /\ sync'.changed = sync.changed /\ sync'.graphs = sync.graphs \ {d}
         /\ proc'[Syncer].pc = "chunks" /\ proc'[Syncer].doc = d
         /\ proc'[Syncer].bytes = proc[Syncer].bytes /\ Only(Syncer)
<1>1. /\ proc[Syncer].pc = "compare" /\ d \in sync.graphs
      /\ sync'.state = sync.state /\ sync'.known = sync.known /\ sync'.todo = sync.todo
      /\ sync'.gone = sync.gone
      /\ sync'.changed = sync.changed /\ sync'.graphs = sync.graphs \ {d}
  BY DEF SyncGraph, TypeInv, SyncOK, SyncState
<1>2. /\ proc'[Syncer].pc = "chunks" /\ proc'[Syncer].doc = d
      /\ proc'[Syncer].bytes = proc[Syncer].bytes /\ Only(Syncer)
  BY Known, NoneIsNothing DEF SyncGraph, Only, Proc
<1> QED
  BY <1>1, <1>2

LEMMA SyncFinishEffect ==
  ASSUME TypeInv, SyncFinish
  PROVE  /\ proc[Syncer].pc = "compare" /\ sync.graphs = {}
         /\ proc'[Syncer] = Idle /\ Only(Syncer)
         /\ sync'.state = "done" /\ sync'.todo = {} /\ sync'.gone = {}
         /\ sync'.known = [f \in Files |-> None] /\ sync'.changed = {} /\ sync'.graphs = {}
<1>1. proc'[Syncer] = Idle /\ Only(Syncer)
  BY Known, NoneIsNothing DEF SyncFinish, Only
<1> QED
  BY <1>1 DEF SyncFinish, NoSync

-----------------------------------------------------------------------------
(***************************************************************************)
(* The work in hand stays in hand.                                          *)
(***************************************************************************)
\* Nobody's work is touched.
LEMMA WorkStays ==
  ASSUME TypeInv, WorkInv, UNCHANGED <<proc, sync>>,
         \A n \in Jobs : job[n].state = "busy" => job'[n] = job[n]
  PROVE  WorkInv'
BY DEF WorkInv, Works

\* p goes on with its job, or has none any more.
LEMMA WorkGoesOn ==
  ASSUME TypeInv, WorkInv, NEW p \in Indexers, Only(p), proc[p].pc # "idle",
         \A n \in Jobs : job'[n] = job[n] \/ (p \in Workers /\ n = proc[p].job),
         p \in Workers => \/ proc'[p].pc = "idle"
                          \/ /\ proc'[p].job = proc[p].job /\ proc'[p].file = proc[p].file
                             /\ UNCHANGED job,
         proc'[p].bytes # None => proc'[p].pc \in {"text", "select", "commit"},
         sync'.state = sync.state \/ (p = Syncer /\ proc'[p].pc = "idle")
  PROVE  WorkInv'
<1>1. ASSUME NEW w \in Workers PROVE Works(w)'
  <2>1. w \in Indexers /\ Works(w)
    BY NoneIsNothing DEF WorkInv
  <2>2. CASE w = p
    BY <2>1, <2>2, NoneIsNothing DEF Works, Only
  <2>3. CASE w # p
    <3>1. proc'[w] = proc[w]
      BY <2>1, <2>3 DEF Only
    <3>2. proc[w].pc # "idle" => job'[proc[w].job] = job[proc[w].job]
      BY <2>1, <2>3 DEF Works
    <3>3. \A v \in Workers : v = p \/ proc'[v] = proc[v]
      BY NoneIsNothing DEF Only
    <3> QED
      BY <2>1, <2>3, <3>1, <3>2, <3>3 DEF Works
  <2> QED
    BY <2>2, <2>3
<1>2. \A o \in Indexers : proc'[o].bytes # None => proc'[o].pc \in {"text", "select", "commit"}
  BY DEF WorkInv, Only
<1>3. sync'.state # "busy" => proc'[Syncer].pc = "idle"
  BY NoneIsNothing DEF WorkInv, Only
<1> QED
  BY <1>1, <1>2, <1>3 DEF WorkInv

\* A worker that fails gives its job back.
LEMMA FailsJob ==
  ASSUME TypeInv, WorkInv, NEW p \in Indexers, Fails(p), proc[p].pc # "idle"
  PROVE  /\ \A n \in Jobs : job'[n].file = job[n].file
         /\ \A n \in Jobs : job'[n] = job[n] \/ (p \in Workers /\ n = proc[p].job)
         /\ \A n \in Jobs : job[n].state = "queued" => job'[n].state = "queued"
         /\ p \in Workers => /\ proc[p].job \in Jobs /\ job[proc[p].job].file = proc[p].file
                             /\ job'[proc[p].job].state = "queued"
<1>1. CASE p \in Workers
  <2>1. job' = [job EXCEPT ![proc[p].job].state = "queued"] /\ Works(p)
    BY <1>1, NoneIsNothing DEF Fails, WorkInv
  <2> QED
    BY <1>1, <2>1, JobEffect DEF Works
<1>2. CASE p \notin Workers
  BY <1>2 DEF Fails
<1> QED
  BY <1>1, <1>2

LEMMA FailsWork ==
  ASSUME TypeInv, WorkInv, NEW p \in Indexers, Fails(p), proc[p].pc # "idle"
  PROVE  WorkInv'
<1>1. proc'[p] = Idle /\ Only(p)
  BY FailsEffect
<1>2. \A n \in Jobs : job'[n] = job[n] \/ (p \in Workers /\ n = proc[p].job)
  BY FailsJob
<1>3. sync'.state = sync.state \/ p = Syncer
  BY DEF Fails
<1> QED
  BY <1>1, <1>2, <1>3, IdleFields, WorkGoesOn

LEMMA IndexWork ==
  ASSUME TypeInv, WorkInv, NEW p \in Indexers, IndexStep(p)
  PROVE  WorkInv'
<1>1. CASE Fails(p)
  <2>1. proc[p].pc # "idle"
    BY DEF IndexStep, ReadBytes, ReadText, SelectPrevious, Commit, ReadChunks, WriteGraph
  <2> QED
    BY <1>1, <2>1, FailsWork
<1>2. CASE ReadBytes(p) /\ ~Fails(p)
  <2>1. UNCHANGED <<job, sync>>
    BY <1>2 DEF ReadBytes
  <2> QED
    BY <1>2, <2>1, ReadBytesEffect, WorkGoesOn
<1>3. CASE ReadText(p) /\ ~Fails(p)
  <2>1. UNCHANGED <<job, sync>>
    BY <1>3 DEF ReadText
  <2> QED
    BY <1>3, <2>1, ReadTextEffect, WorkGoesOn
<1>4. ASSUME NEW d \in Contents, Indexed(p, d), proc[p].pc # "idle", UNCHANGED job
      PROVE  WorkInv'
  BY <1>4, IndexedEffect, WorkGoesOn, NoneIsNothing
<1>5. CASE SelectPrevious(p)
  <2>1. UNCHANGED job
    BY <1>5 DEF SelectPrevious
  <2> QED
    BY <1>4, <1>5, <2>1, SelectEffect, WorkGoesOn
<1>6. CASE Commit(p) /\ ~Fails(p)
  <2>1. PICK f, doc, prev : f = proc[p].file /\ doc = proc[p].bytes /\ prev = proc[p].prev
    OBVIOUS
  <2>2. proc[p].pc = "commit" /\ doc \in Contents /\ Indexed(p, doc) /\ UNCHANGED job
    BY <1>6, <2>1, CommitEffect
  <2> QED
    BY <1>4, <2>2
<1>7. CASE ReadChunks(p)
  <2>1. UNCHANGED <<job, sync>>
    BY <1>7 DEF ReadChunks
  <2> QED
    BY <1>7, <2>1, ReadChunksEffect, WorkGoesOn DEF WorkInv
<1>8. CASE WriteGraph(p) /\ ~Fails(p)
  BY <1>8, WriteGraphEffect, WorkGoesOn DEF WorkInv
<1> QED
  BY <1>1, <1>2, <1>3, <1>5, <1>6, <1>7, <1>8 DEF IndexStep

\* The worker of a job that was queued is its only one.
LEMMA TakeWork ==
  ASSUME TypeInv, WorkInv, NEW w \in Workers, NEW n \in Jobs, Take(w, n)
  PROVE  WorkInv'
<1>1. /\ proc[w].pc = "idle" /\ job[n].state = "queued" /\ proc'[w].pc \in {"fetch", "bytes"}
      /\ proc'[w].job = n /\ proc'[w].file = job[n].file /\ proc'[w].bytes = None /\ Only(w)
      /\ job'[n].state = "busy" /\ job'[n].file = job[n].file /\ \A k \in Jobs \ {n} : job'[k] = job[k]
  BY TakeEffect
<1>2. w \in Indexers /\ w # Syncer /\ UNCHANGED sync
  BY NoneIsNothing DEF Take
<1>3. ASSUME NEW v \in Workers PROVE Works(v)'
  <2>1. \A u \in Workers \ {w} : proc'[u] = proc[u] /\ (proc[u].pc # "idle" => proc[u].job # n /\ proc[u].job \in Jobs)
    BY <1>1, NoneIsNothing DEF Only, WorkInv, Works
  <2>2. CASE v = w
    BY <1>1, <2>1, <2>2 DEF Works
  <2>3. CASE v # w
    BY <1>1, <2>1, <2>3 DEF Works, WorkInv
  <2> QED
    BY <2>2, <2>3
<1> QED
  BY <1>1, <1>2, <1>3, NoneIsNothing DEF WorkInv, Only

LEMMA StepWork ==
  ASSUME TypeInv, WorkInv, [Next]_vars
  PROVE  WorkInv'
<1>1. CASE ApiStep
  <2>1. UNCHANGED <<proc, sync>>
    BY <1>1 DEF ApiStep, Upload, Delete, ChangeFile, Unlink, UnlinkLost
  <2>2. CASE UNCHANGED job
    BY <2>1, <2>2, WorkStays
  <2>3. ASSUME NEW h \in ApiHosts, NEW f \in Files, NEW c \in Contents, Upload(h, f, c) PROVE WorkInv'
    <3>1. \A n \in Jobs : job[n].state = "busy" => job'[n] = job[n]
      BY <2>3, UploadEffect
    <3> QED
      BY <2>1, <3>1, WorkStays
  <2> QED
    BY <1>1, <2>2, <2>3 DEF ApiStep, Delete, ChangeFile, Unlink, UnlinkLost
<1>2. ASSUME NEW w \in Workers, IngestStep(w) PROVE WorkInv'
  <2>1. w \in Indexers /\ w # Syncer
    BY NoneIsNothing
  <2>2. CASE Finish(w)
    <3>1. UNCHANGED sync
      BY <2>2 DEF Finish
    <3> QED
      BY <2>1, <2>2, <3>1, FinishEffect, IdleFields, WorkGoesOn
  <2>3. CASE Fetch(w)
    <3>1. proc[w].bytes = None
      BY <2>1, <2>3, FetchEffect DEF WorkInv
    <3> QED
      BY <2>1, <2>3, <3>1, FetchEffect, WorkGoesOn
  <2> QED
    BY <1>2, <2>1, <2>2, <2>3, TakeWork, IndexWork DEF IngestStep
<1>3. CASE SyncStep
  <2>1. Syncer \in Indexers /\ Syncer \notin Workers
    BY NoneIsNothing
  <2>2. CASE SyncList
    <3>1. sync.state = "queued" /\ sync'.state = "listed" /\ UNCHANGED <<proc, job>>
      BY <2>2, SyncListEffect DEF SyncList
    <3> QED
      BY <3>1 DEF WorkInv, Works
  <2>3. CASE SyncScan
    <3>1. /\ sync.state = "listed" /\ sync'.state = "busy" /\ proc'[Syncer].pc = "compare"
          /\ proc'[Syncer].bytes = proc[Syncer].bytes /\ Only(Syncer) /\ UNCHANGED job
      BY <2>3, SyncScanEffect DEF SyncScan
    <3>2. proc'[Syncer].bytes = None
      BY <2>1, <3>1 DEF WorkInv
    <3>3. \A w \in Workers : proc'[w] = proc[w]
      BY <2>1, <3>1, NoneIsNothing DEF Only
    <3>4. \A w \in Workers : Works(w)'
      BY <3>1, <3>3 DEF WorkInv, Works
    <3> QED
      BY <2>1, <3>1, <3>2, <3>4 DEF WorkInv, Only
  <2>4. ASSUME NEW f \in Files, SyncCompare(f) PROVE WorkInv'
    <3>1. CASE Fails(Syncer)
      BY <2>1, <2>4, <3>1, FailsWork DEF SyncCompare
    <3>2. CASE ~Fails(Syncer)
      BY <2>1, <2>4, <3>2, SyncCompareEffect, WorkGoesOn DEF WorkInv
    <3> QED
      BY <3>1, <3>2
  <2>5. ASSUME NEW f \in Files, SyncDelete(f) PROVE WorkInv'
    <3>1. sync'.state = sync.state /\ UNCHANGED <<proc, job>>
      BY <2>5, SyncDeleteEffect DEF SyncDelete
    <3> QED
      BY <3>1 DEF WorkInv, Works
  <2>6. ASSUME NEW d \in Contents, SyncGraph(d) PROVE WorkInv'
    <3>1. UNCHANGED job
      BY <2>6 DEF SyncGraph
    <3> QED
      BY <2>1, <2>6, <3>1, SyncGraphEffect, WorkGoesOn DEF WorkInv
  <2>7. CASE SyncFinish
    <3>1. UNCHANGED job
      BY <2>7 DEF SyncFinish
    <3> QED
      BY <2>1, <2>7, <3>1, SyncFinishEffect, IdleFields, WorkGoesOn
  <2> QED
    BY <1>3, <2>1, <2>2, <2>3, <2>4, <2>5, <2>6, <2>7, IndexWork DEF SyncStep
<1>4. CASE EmbedStep \/ EmbedRaises \/ UNCHANGED vars
  <2>1. UNCHANGED <<proc, sync, job>>
    BY <1>4 DEF EmbedStep, EmbedTake, EmbedWrite, EmbedFails, EmbedRaises, vars
  <2> QED
    BY <2>1, WorkStays
<1>5. CASE ReindexStep
  <2>1. Manager \in Indexers /\ Manager \notin Workers /\ Manager # Syncer
    BY NoneIsNothing
  <2>2. ASSUME NEW d \in Contents, ReindexGraph(d) \/ ReindexEmbedding(d) PROVE WorkInv'
    <3>1. UNCHANGED <<job, sync>>
      BY <2>2 DEF ReindexGraph, ReindexEmbedding
    <3>2. /\ Only(Manager) /\ proc'[Manager].bytes = None
      BY <2>2, ReindexEffect
    <3>3. \A w \in Workers : proc'[w] = proc[w]
      BY <2>1, <3>2, NoneIsNothing DEF Only
    <3>4. \A w \in Workers : Works(w)'
      BY <3>1, <3>3 DEF WorkInv, Works
    <3> QED
      BY <2>1, <3>1, <3>2, <3>4, NoneIsNothing DEF WorkInv, Only
  <2>3. CASE StartEmbedding
    <3>1. UNCHANGED <<job, sync>>
      BY <2>3 DEF StartEmbedding
    <3> QED
      BY <2>1, <2>3, <3>1, StartEmbeddingEffect, IdleFields, WorkGoesOn
  <2> QED
    BY <1>5, <2>1, <2>2, <2>3, IndexWork DEF ReindexStep, IndexStep
<1>6. ASSUME NEW p \in Indexers, Raises(p) PROVE WorkInv'
  BY <1>6, FailsWork DEF Raises
<1> QED
  BY <1>1, <1>2, <1>3, <1>4, <1>5, <1>6 DEF Next

-----------------------------------------------------------------------------
(***************************************************************************)
(* Rows follow files.                                                       *)
(***************************************************************************)
LEMMA EventsGrow ==
  ASSUME TypeInv, [Next]_vars, events' = 0
  PROVE  events = 0 /\ ~Event
<1>1. events \in Nat
  BY DEF TypeInv, RestOK
<1>2. ~Event
  BY <1>1 DEF Event
<1> QED
  BY <1>2 DEF Next, ApiStep, Upload, Delete, ChangeFile, Unlink, UnlinkLost, IngestStep, Take, Fetch,
     Finish, SyncStep, SyncList, SyncScan, SyncCompare, SyncDelete, SyncFinish, SyncGraph, IndexStep, ReadBytes,
     ReadText, SelectPrevious, Commit, ReadChunks, WriteGraph, EmbedStep, EmbedTake, EmbedWrite, ReindexStep,
     ReindexGraph, ReindexEmbedding, StartEmbedding, Raises, EmbedRaises, vars

\* Everybody finds the files of the one directory.
LEMMA OneDirectoryFiles ==
  ASSUME OneDirectory
  PROVE  /\ \A h \in Hosts : h = Directory
         /\ Directory \in Hosts
         /\ \A p \in Indexers, f \in Files : Found(p, f) = files[f]
<1>1. \A h \in Hosts : h = Directory
  BY DEF OneDirectory, Directory
<1>2. Home[Syncer] \in Hosts
  BY Directories, NoneIsNothing
<1> QED
  BY <1>1, <1>2, Directories DEF Found, files

\* p goes on; the files stay, and no row goes.
LEMMA CalmGoesOn ==
  ASSUME TypeInv, Calm, NEW p \in Indexers, Only(p), UNCHANGED <<files, unlink>>,
         \A f \in Files : /\ row[f] # None => row'[f] # None
                          /\ row'[f] # None => files[f] # None
                          /\ sync'.known[f] # None \/ f \in sync'.todo => files[f] # None,
         sync'.gone = {},
         \A n \in Jobs : /\ job'[n].file = job[n].file
                         /\ job'[n].state = "none" \/ job[n].state # "none",
         Indexes(proc'[p]) => proc'[p].pc # "fetch" /\ proc'[p].file \in Files /\ files[proc'[p].file] # None,
         proc'[p].pc = "commit" /\ proc'[p].prev # None => row[proc'[p].file] # None
  PROVE  Calm'
<1>1. ASSUME NEW o \in Indexers
      PROVE  /\ Indexes(proc'[o]) => proc'[o].pc # "fetch" /\ files'[proc'[o].file] # None
             /\ proc'[o].pc = "commit" /\ proc'[o].prev # None => row'[proc'[o].file] # None
  <2>1. CASE o = p
    BY <2>1 DEF Indexes
  <2>2. CASE o # p
    <3>1. proc'[o] = proc[o] /\ ProcOK(proc[o])
      BY <2>2, Known DEF Only
    <3>2. Indexes(proc[o]) => proc[o].file \in Files
      BY <3>1, Known DEF Indexes, ProcOK
    <3> QED
      BY <3>1, <3>2 DEF Calm, Indexes
  <2> QED
    BY <2>1, <2>2
<1>2. \A n \in Jobs : job'[n].state # "none" => files'[job'[n].file] # None
  BY DEF Calm
<1>3. unlink' = {} /\ \A f \in Files : row'[f] # None \/ sync'.known[f] # None \/ f \in sync'.todo => files'[f] # None
  BY DEF Calm
<1> QED
  BY <1>1, <1>2, <1>3 DEF Calm, Indexes

\* p goes on, and what f's file holds stays followed unless p was to see to it.
LEMMA FollowedGoesOn ==
  ASSUME TypeInv, WorkInv, NEW f \in Files, Followed(f), NEW p \in Indexers, Only(p),
         files'[f] = files[f], row'[f] = row[f],
         \A n \in Jobs : job[n].file = f /\ job[n].state # "none" =>
             job'[n].file = f /\ (job[n].state = "queued" => job'[n].state = "queued"),
         Reads(proc'[p], f) => Reads(proc[p], f) /\ proc'[p].bytes = proc[p].bytes,
         p \in Workers /\ proc[p].file = f /\ proc[p].pc = "bytes" => job'[proc[p].job].state = "queued",
         p \in Workers /\ Reads(proc[p], f) =>
             Reads(proc'[p], f) \/ \E n \in Jobs : job'[n].file = f /\ job'[n].state = "queued"
  PROVE  Followed(f)'
<1>1. CASE \E n \in Jobs : job[n].file = f /\ job[n].state = "queued"
  BY <1>1 DEF Followed
<1>2. ASSUME NEW n \in Jobs, job[n].file = f, NEW w \in Workers, proc[w].pc = "bytes", proc[w].job = n
      PROVE  Followed(f)'
  <2>1. job[n].state = "busy" /\ proc[w].file = f /\ job'[n].file = f
    BY <1>2 DEF WorkInv, Works
  <2>2. w = p \/ proc'[w] = proc[w]
    BY NoneIsNothing DEF Only
  <2> QED
    BY <1>2, <2>1, <2>2 DEF Followed
<1>3. ASSUME NEW w \in Workers, Reads(proc[w], f), proc[w].bytes = files[f],
             \A q \in Indexers \ {w} : ~Reads(proc[q], f)
      PROVE  Followed(f)'
  <2>1. w \in Indexers /\ \A q \in Indexers \ {w} : ~Reads(proc'[q], f)
    BY <1>3, NoneIsNothing DEF Only
  <2>2. CASE Reads(proc'[w], f)
    <3>1. proc'[w].bytes = files'[f]
      BY <1>3, <2>1, <2>2 DEF Only
    <3> QED
      BY <2>1, <2>2, <3>1 DEF Followed, Reads
  <2>3. CASE ~Reads(proc'[w], f)
    <3>1. w = p
      BY <1>3, <2>1, <2>3 DEF Only
    <3> QED
      BY <1>3, <2>3, <3>1 DEF Followed
  <2> QED
    BY <2>2, <2>3
<1>4. CASE /\ row[f] # None /\ row[f].doc = files[f]
           /\ \A q \in Indexers : Reads(proc[q], f) => proc[q].bytes = files[f]
  <2>1. \A q \in Indexers : Reads(proc'[q], f) => proc'[q].bytes = files'[f]
    BY <1>4 DEF Only
  <2> QED
    BY <1>4, <2>1 DEF Followed, Reads
<1> QED
  BY <1>1, <1>2, <1>3, <1>4 DEF Followed

\* p has stored what it read: f's row holds it now.
LEMMA FollowedStored ==
  ASSUME TypeInv, WorkInv, NEW f \in Files, Followed(f), NEW p \in Indexers, Only(p),
         UNCHANGED <<files, job>>, Reads(proc[p], f), proc[p].pc # "bytes", proc'[p].bytes = None,
         row'[f] # None, row'[f].doc = proc[p].bytes
  PROVE  Followed(f)'
<1>1. CASE \E n \in Jobs : job[n].file = f /\ job[n].state = "queued"
  BY <1>1 DEF Followed
<1>2. ASSUME NEW n \in Jobs, job[n].file = f, NEW w \in Workers, proc[w].pc = "bytes", proc[w].job = n
      PROVE  Followed(f)'
  <2>1. proc'[w] = proc[w]
    BY <1>2, NoneIsNothing DEF Only
  <2> QED
    BY <1>2, <2>1 DEF Followed
<1>3. CASE \A q \in Indexers : Reads(proc[q], f) => proc[q].bytes = files[f]
  <2>1. \A q \in Indexers : Reads(proc'[q], f) => proc'[q].bytes = files'[f]
    BY <1>3 DEF Only, Reads
  <2>2. row'[f].doc = files'[f]
    BY <1>3
  <2> QED
    BY <2>1, <2>2 DEF Followed, Reads
<1>4. ASSUME NEW w \in Workers, proc[w].bytes = files[f], \A q \in Indexers \ {w} : ~Reads(proc[q], f)
      PROVE  \A q \in Indexers : Reads(proc[q], f) => proc[q].bytes = files[f]
  BY <1>4
<1> QED
  BY <1>1, <1>2, <1>3, <1>4 DEF Followed

\* A step of p that touches no file and no row.
LEMMA FollowingGoesOn ==
  ASSUME TypeInv, WorkInv, Following, NEW p \in Indexers, Only(p), UNCHANGED <<files, row, job, raced>>,
         \A f \in Files : Reads(proc'[p], f) => Reads(proc[p], f) /\ proc'[p].bytes = proc[p].bytes,
         p \in Workers => /\ proc[p].pc # "bytes"
                          /\ \A f \in Files : Reads(proc[p], f) => Reads(proc'[p], f)
  PROVE  Following'
<1>1. ASSUME NEW f \in Files, Followed(f) PROVE Followed(f)'
  BY <1>1, FollowedGoesOn
<1> QED
  BY <1>1 DEF Following

LEMMA FailsFollows ==
  ASSUME TypeInv, WorkInv, Calm, Following, NEW p \in Indexers, Fails(p), proc[p].pc # "idle"
  PROVE  Calm' /\ Following'
<1>1. proc'[p] = Idle /\ Only(p) /\ UNCHANGED <<files, row, unlink, raced>>
  BY FailsEffect DEF Fails, store, files
<1>2. /\ \A n \in Jobs : job'[n].file = job[n].file
      /\ \A n \in Jobs : job'[n] = job[n] \/ (p \in Workers /\ n = proc[p].job)
      /\ \A n \in Jobs : job[n].state = "queued" => job'[n].state = "queued"
      /\ p \in Workers => /\ proc[p].job \in Jobs /\ job[proc[p].job].file = proc[p].file
                          /\ job'[proc[p].job].state = "queued"
  BY FailsJob
<1>3. Calm'
  <2>1. sync'.gone = {} /\ sync'.todo \subseteq sync.todo /\ \A f \in Files : sync'.known[f] \in {None, sync.known[f]}
    BY DEF Fails, NoSync, Calm
  <2>2. \A n \in Jobs : job[n].state = "none" => job'[n].state = "none"
    BY <1>2, NoneIsNothing DEF WorkInv, Works
  <2> QED
    BY <1>1, <1>2, <2>1, <2>2, IdleFields, CalmGoesOn DEF Calm, Indexes
<1>4. ASSUME NEW f \in Files, Followed(f) PROVE Followed(f)'
  <2>1. Reads(proc'[p], f) => Reads(proc[p], f) /\ proc'[p].bytes = proc[p].bytes
    BY <1>1, IdleFields DEF Reads
  <2>2. p \in Workers /\ Reads(proc[p], f) => \E n \in Jobs : job'[n].file = f /\ job'[n].state = "queued"
    BY <1>2 DEF Reads
  <2> QED
    BY <1>1, <1>2, <1>4, <2>1, <2>2, FollowedGoesOn
<1> QED
  BY <1>1, <1>3, <1>4 DEF Following

LEMMA ReadBytesFollows ==
  ASSUME OneDirectory, TypeInv, WorkInv, Calm, Following, NEW p \in Workers \union {Syncer}, ReadBytes(p), ~Fails(p)
  PROVE  Calm' /\ Following'
<1>1. /\ proc[p].pc = "bytes" /\ proc[p].file \in Files /\ files[proc[p].file] # None
      /\ proc'[p].pc = "text" /\ proc'[p].bytes = files[proc[p].file]
      /\ proc'[p].file = proc[p].file /\ Only(p) /\ p \in Indexers
  BY ReadBytesEffect, OneDirectoryFiles, NoneIsNothing
<1>2. /\ UNCHANGED <<files, row, job, sync, unlink>>
      /\ raced' = IF \E q \in Indexers \ {p} : proc[q].file = proc[p].file /\ proc[q].bytes # None
                  THEN raced \union {proc[p].file} ELSE raced
  BY DEF ReadBytes, store, files
<1>3. Calm'
  BY <1>1, <1>2, CalmGoesOn DEF Calm, Indexes
<1>4. ASSUME NEW f \in Files \ raced', files[f] # None PROVE Followed(f)'
  <2>1. Followed(f)
    BY <1>2, <1>4 DEF Following
  <2>2. CASE f # proc[p].file
    BY <1>1, <1>2, <2>1, <2>2, FollowedGoesOn DEF Reads
  <2>3. CASE f = proc[p].file
    <3>1. \A q \in Indexers \ {p} : ~Reads(proc[q], f) /\ ~Reads(proc'[q], f)
      BY <1>1, <1>2, <1>4, <2>3 DEF Reads, Only
    <3>2. Reads(proc'[p], f) /\ proc'[p].bytes = files'[f]
      BY <1>1, <1>2, <2>3 DEF Reads
    <3>3. CASE p \in Workers
      BY <3>1, <3>2, <3>3 DEF Followed, Reads
    <3>4. CASE p = Syncer
      <4>1. ~Reads(proc[p], f)
        BY <1>1 DEF WorkInv, Reads
      <4>2. \A w \in Workers : proc'[w] = proc[w] /\ ~Reads(proc[w], f)
        BY <1>1, <3>1, <3>4, NoneIsNothing DEF Only
      <4> QED
        BY <1>2, <2>1, <3>1, <3>2, <4>2 DEF Followed, Reads
    <3> QED
      BY <3>3, <3>4
  <2> QED
    BY <2>2, <2>3
<1> QED
  BY <1>2, <1>3, <1>4 DEF Following

\* p's contents are those of its name's row now.
LEMMA IndexedFollows ==
  ASSUME TypeInv, WorkInv, Following, NEW p \in Indexers, NEW d \in Contents, Indexed(p, d),
         proc[p].pc \in {"select", "commit"}, proc[p].bytes = d, proc[p].file \in Files,
         UNCHANGED <<files, job, raced>>,
         row'[proc[p].file] # None, row'[proc[p].file].doc = d,
         \A g \in Files \ {proc[p].file} : row'[g] = row[g]
  PROVE  Following'
<1>1. Only(p) /\ proc'[p].bytes = None
  BY IndexedEffect
<1>2. proc[p].bytes # None
  BY NoneIsNothing
<1>3. ASSUME NEW f \in Files, Followed(f) PROVE Followed(f)'
  <2>1. CASE f = proc[p].file
    <3>1. Reads(proc[p], f) /\ proc[p].pc # "bytes"
      BY <1>2, <2>1 DEF Reads
    <3> QED
      BY <1>1, <1>3, <2>1, <3>1, FollowedStored
  <2>2. CASE f # proc[p].file
    <3>1. ~Reads(proc'[p], f) /\ ~Reads(proc[p], f) /\ row'[f] = row[f]
      BY <1>1, <2>2 DEF Reads
    <3> QED
      BY <1>1, <1>3, <2>2, <3>1, FollowedGoesOn
  <2> QED
    BY <2>1, <2>2
<1> QED
  BY <1>3 DEF Following

\* Indexed sets no file, row or job.
LEMMA IndexedCalm ==
  ASSUME TypeInv, Calm, NEW p \in Indexers, NEW d \in Contents, Indexed(p, d),
         UNCHANGED <<files, unlink, job>>,
         \A f \in Files : (row[f] # None => row'[f] # None) /\ (row'[f] # None => files[f] # None)
  PROVE  Calm'
<1>1. Only(p) /\ proc'[p].pc \in {"compare", "chunks"}
  BY IndexedEffect
<1>2. sync'.gone = {} /\ sync'.todo \subseteq sync.todo /\ sync'.known = sync.known
  BY IndexedEffect DEF Calm
<1> QED
  BY <1>1, <1>2, CalmGoesOn DEF Calm, Indexes

\* What is stored while nothing is deleted replaces the row of its own name.
LEMMA CommitAlone ==
  ASSUME IInv, Calm, NEW p \in Indexers, Commit(p), ~Fails(p),
         NEW f, f = proc[p].file, NEW doc, doc = proc[p].bytes, NEW prev, prev = proc[p].prev
  PROVE  /\ f \in Files /\ row'[f] # None /\ row'[f].doc = doc
         /\ \A g \in Files \ {f} :
                /\ row'[g] = row[g]
                /\ row[g] # None => row[g].doc # doc /\ (prev # None => row[g].doc # prev.doc)
<1>1. TypeInv /\ Commits(p)
  BY CommitType DEF IInv
<1>2. /\ proc[p].pc = "commit" /\ f \in Files /\ doc \in Contents /\ prev \in Row \union {None}
  BY <1>1, CommitEffect
<1>3. /\ OneName /\ Versions(f) /\ Stored(f, doc, prev)
      /\ prev # None => /\ prev.version \in DOMAIN history[f]
                        /\ Clean(f) => history[f][prev.version] = prev.doc
  BY <1>1, CommitFacts
<1>4. /\ row' = [g \in Files |-> IF g = f THEN [doc |-> doc, version |-> NextVersion(prev)] ELSE Kept(prev)[g]]
      /\ \A g \in Files : Kept(prev)[g] # row[g] => prev # None /\ g \in Holder(prev.doc)
      /\ row[f] # None => prev # None /\ f \in Holder(prev.doc)
  BY <1>1, <1>2, <1>3, StoredFacts
<1>5. prev # None => row[f] # None
  BY <1>2 DEF Calm
<1>6. ASSUME NEW g \in Files \ {f}, prev # None, g \in Holder(prev.doc) PROVE FALSE
  <2>1. f \in Holder(prev.doc)
    BY <1>4, <1>5, <1>6
  <2> QED
    BY <1>3, <1>6, <2>1 DEF OneName, Holder
<1>7. \A g \in Files \ {f} : row'[g] = row[g] /\ Kept(prev)[g] = row[g]
  BY <1>4, <1>6
<1>8. row'[f] # None /\ row'[f].doc = doc
  <2>1. row'[f] = [doc |-> doc, version |-> NextVersion(prev)]
    BY <1>2, <1>4
  <2>2. row'[f] \in Row
    BY <1>2, <2>1, NextVersionType DEF Row
  <2> QED
    BY <2>1, <2>2, NoneIsNothing
<1>9. ASSUME NEW g \in Files \ {f}, row[g] # None
      PROVE  row[g].doc # doc /\ (prev # None => row[g].doc # prev.doc)
  <2>1. row[g].doc # doc
    BY <1>3, <1>7, <1>9 DEF Stored, Conflict
  <2> QED
    BY <1>6, <1>9, <2>1 DEF Holder
<1> QED
  BY <1>2, <1>7, <1>8, <1>9

LEMMA CommitFollows ==
  ASSUME IInv, WorkInv, Calm, Following, NEW p \in Indexers, Commit(p), ~Fails(p)
  PROVE  Calm' /\ Following'
<1>0. PICK f, doc, prev : f = proc[p].file /\ doc = proc[p].bytes /\ prev = proc[p].prev
  OBVIOUS
<1>1. TypeInv
  BY DEF IInv
<1>2. /\ proc[p].pc = "commit" /\ f \in Files /\ doc \in Contents
      /\ Indexed(p, doc) /\ UNCHANGED <<files, job, unlink, raced>>
  BY <1>0, <1>1, CommitEffect DEF files
<1>3. row'[f] # None /\ row'[f].doc = doc /\ \A g \in Files \ {f} : row'[g] = row[g]
  BY <1>0, CommitAlone
<1>4. files[f] # None
  BY <1>0, <1>2 DEF Calm, Indexes
<1>5. Calm'
  <2>1. \A g \in Files : (row[g] # None => row'[g] # None) /\ (row'[g] # None => files[g] # None)
    BY <1>3, <1>4 DEF Calm
  <2> QED
    BY <1>1, <1>2, <2>1, IndexedCalm
<1> QED
  BY <1>0, <1>1, <1>2, <1>3, <1>5, IndexedFollows

LEMMA SelectFollows ==
  ASSUME TypeInv, WorkInv, Calm, Following, NEW p \in Indexers, SelectPrevious(p)
  PROVE  Calm' /\ Following'
<1>1. UNCHANGED <<files, row, job, unlink, raced>>
  BY DEF SelectPrevious, store, files
<1>2. proc[p].pc = "select" /\ proc[p].file \in Files /\ proc[p].bytes \in Contents
  BY SelectEffect
<1>3. CASE row[proc[p].file] # None /\ row[proc[p].file].doc = proc[p].bytes /\ Indexed(p, proc[p].bytes)
  <2>1. Calm'
    BY <1>1, <1>2, <1>3, IndexedCalm DEF Calm
  <2>2. Following'
    BY <1>1, <1>2, <1>3, IndexedFollows
  <2> QED
    BY <2>1, <2>2
<1>4. CASE /\ proc'[p].pc = "commit" /\ proc'[p].prev = row[proc[p].file]
           /\ proc'[p].bytes = proc[p].bytes /\ proc'[p].file = proc[p].file
           /\ Only(p) /\ UNCHANGED sync
  <2>1. Calm'
    BY <1>1, <1>2, <1>4, CalmGoesOn DEF Calm, Indexes
  <2>2. Following'
    BY <1>1, <1>2, <1>4, FollowingGoesOn DEF Reads
  <2> QED
    BY <2>1, <2>2
<1> QED
  BY <1>3, <1>4, SelectEffect

LEMMA IndexFollows ==
  ASSUME OneDirectory, IInv, WorkInv, Calm, Following, NEW p \in Workers \union {Syncer}, IndexStep(p)
  PROVE  Calm' /\ Following'
<1>0. TypeInv /\ p \in Indexers
  BY NoneIsNothing DEF IInv
<1>1. CASE Fails(p)
  <2>1. proc[p].pc # "idle"
    BY DEF IndexStep, ReadBytes, ReadText, SelectPrevious, Commit, ReadChunks, WriteGraph
  <2> QED
    BY <1>0, <1>1, <2>1, FailsFollows
<1>2. CASE ReadText(p) /\ ~Fails(p)
  <2>1. UNCHANGED <<files, row, job, sync, unlink, raced>>
    BY <1>2 DEF ReadText, store, files
  <2>2. /\ proc[p].pc = "text" /\ proc[p].file \in Files /\ proc'[p].pc = "select"
        /\ proc'[p].bytes = proc[p].bytes /\ proc'[p].file = proc[p].file /\ Only(p)
    BY <1>0, <1>2, ReadTextEffect
  <2>3. Calm'
    BY <1>0, <2>1, <2>2, CalmGoesOn DEF Calm, Indexes
  <2>4. Following'
    BY <1>0, <2>1, <2>2, FollowingGoesOn DEF Reads
  <2> QED
    BY <2>3, <2>4
<1>3. CASE ReadChunks(p)
  <2>1. UNCHANGED <<files, row, job, sync, unlink, raced>>
    BY <1>3 DEF ReadChunks, store, files
  <2>2. /\ proc[p].pc = "chunks" /\ proc'[p].pc = "graph"
        /\ proc'[p].bytes = proc[p].bytes /\ proc'[p].file = proc[p].file /\ Only(p)
    BY <1>0, <1>3, ReadChunksEffect
  <2>3. Calm'
    BY <1>0, <2>1, <2>2, CalmGoesOn DEF Calm, Indexes
  <2>4. Following'
    BY <1>0, <2>1, <2>2, FollowingGoesOn DEF Reads
  <2> QED
    BY <2>3, <2>4
<1>4. CASE WriteGraph(p) /\ ~Fails(p)
  <2>1. UNCHANGED <<files, row, job, sync, unlink, raced>> /\ Only(p)
    BY <1>0, <1>4, WriteGraphEffect DEF files
  <2>2. /\ proc[p].pc = "graph" /\ proc'[p].pc \in {"start", "compare"}
        /\ proc'[p].bytes = None \/ (proc'[p].bytes = proc[p].bytes /\ proc'[p].file = proc[p].file)
        /\ p \in Workers => proc'[p].bytes = proc[p].bytes /\ proc'[p].file = proc[p].file
    BY <1>0, <1>4, WriteGraphEffect
  <2>3. Calm'
    BY <1>0, <2>1, <2>2, CalmGoesOn DEF Calm, Indexes
  <2>4. Following'
    BY <1>0, <2>1, <2>2, FollowingGoesOn DEF Reads
  <2> QED
    BY <2>3, <2>4
<1> QED
  BY <1>0, <1>1, <1>2, <1>3, <1>4, ReadBytesFollows, SelectFollows, CommitFollows DEF IndexStep

LEMMA UploadFollows ==
  ASSUME OneDirectory, TypeInv, WorkInv, Calm, Following, NEW h \in Hosts, NEW f \in Files, NEW c \in Contents, Upload(h, f, c)
  PROVE  Calm' /\ Following'
<1>1. PICK n \in Jobs : /\ job[n].state = "none" /\ job'[n].file = f /\ job'[n].state = "queued"
                        /\ \A k \in Jobs \ {n} : job'[k] = job[k]
  BY UploadEffect
<1>2. /\ files'[f] = c /\ c # None /\ \A g \in Files \ {f} : files'[g] = files[g]
      /\ UNCHANGED <<row, proc, sync, unlink, raced>>
  <2>1. file' = [file EXCEPT ![h][f] = c] /\ UNCHANGED <<row, proc, sync, unlink, raced>>
    BY DEF Upload
  <2>2. file'[h][f] = c /\ \A g \in Files \ {f} : file'[h][g] = file[h][g]
    BY <2>1 DEF TypeInv, StoreOK
  <2> QED
    BY <2>1, <2>2, NoneIsNothing, OneDirectoryFiles DEF files
<1>3. Calm'
  <2>1. \A g \in Files : files[g] # None => files'[g] # None
    BY <1>2
  <2>2. \A k \in Jobs : job'[k].state # "none" => job'[k].file \in Files /\ files'[job'[k].file] # None
    <3> SUFFICES ASSUME NEW k \in Jobs, job'[k].state # "none"
                 PROVE  job'[k].file \in Files /\ files'[job'[k].file] # None
      OBVIOUS
    <3>1. k # n => job[k].file \in Files
      BY <1>1 DEF TypeInv, JobsOK, JobState, Maybe
    <3> QED
      BY <1>1, <1>2, <2>1, <3>1 DEF Calm
  <2>3. \A p \in Indexers : Indexes(proc[p]) => proc[p].file \in Files
    BY Known DEF Indexes, ProcOK
  <2> QED
    BY <1>2, <2>1, <2>2, <2>3 DEF Calm, Indexes
<1>4. Followed(f)'
  BY <1>1 DEF Followed
<1>5. ASSUME NEW g \in Files \ {f}, Followed(g) PROVE Followed(g)'
  <2>1. Syncer \in Indexers /\ Syncer \notin Workers /\ Only(Syncer)
    BY <1>2, NoneIsNothing DEF Only
  <2> QED
    BY <1>1, <1>2, <1>5, <2>1, FollowedGoesOn
<1> QED
  BY <1>2, <1>3, <1>4, <1>5 DEF Following

LEMMA TakeFollows ==
  ASSUME OneDirectory, TypeInv, WorkInv, Calm, Following, NEW w \in Workers, NEW n \in Jobs, Take(w, n)
  PROVE  Calm' /\ Following'
<1>1. /\ proc[w].pc = "idle" /\ job[n].state = "queued" /\ job[n].file \in Files
      /\ proc'[w].pc = IF Found(w, job[n].file) = None THEN "fetch" ELSE "bytes"
      /\ proc'[w].job = n /\ proc'[w].file = job[n].file
      /\ proc'[w].bytes = None /\ Only(w)
      /\ job'[n].state = "busy" /\ job'[n].file = job[n].file
      /\ \A k \in Jobs \ {n} : job'[k] = job[k]
  BY TakeEffect
<1>2. UNCHANGED <<files, row, sync, unlink, raced>> /\ w \in Indexers
  BY NoneIsNothing DEF Take, store, files
<1>3. files[job[n].file] # None /\ proc'[w].pc = "bytes"
  BY <1>1, <1>2, OneDirectoryFiles DEF Calm
<1>4. Calm'
  BY <1>1, <1>2, <1>3, CalmGoesOn DEF Calm, Indexes
<1>5. ASSUME NEW f \in Files, Followed(f) PROVE Followed(f)'
  <2>1. CASE f = job[n].file
    BY <1>1, <1>3, <2>1 DEF Followed
  <2>2. CASE f # job[n].file
    <3>1. \A k \in Jobs : job[k].file = f => job'[k] = job[k]
      BY <1>1, <2>2
    <3>2. ~Reads(proc[w], f) /\ ~Reads(proc'[w], f)
      BY <1>1, <1>2, <2>2 DEF Reads, WorkInv
    <3> QED
      BY <1>1, <1>2, <1>3, <1>5, <3>1, <3>2, FollowedGoesOn
  <2> QED
    BY <2>1, <2>2
<1> QED
  BY <1>2, <1>3, <1>4, <1>5 DEF Following

\* Nothing that matters to files and rows changes.
LEMMA FollowsStill ==
  ASSUME TypeInv, Calm, Following, UNCHANGED <<files, row, job, proc, unlink, raced>>,
         sync'.gone = {}, sync'.todo = sync.todo,
         \A f \in Files : sync'.known[f] # None => files[f] # None
  PROVE  Calm' /\ Following'
<1>1. Following'
  BY DEF Following, Followed, Reads
<1> QED
  BY <1>1 DEF Calm, Indexes

LEMMA SyncFollows ==
  ASSUME OneDirectory, IInv, WorkInv, Calm, Following, SyncStep, ~Event
  PROVE  Calm' /\ Following'
<1>0. TypeInv /\ Syncer \in Indexers /\ Syncer \notin Workers
  BY NoneIsNothing DEF IInv
<1>1. CASE SyncList
  <2>1. /\ UNCHANGED <<files, row, job, proc, unlink, raced>>
        /\ \A f \in Files : sync'.known[f] # None => row[f] # None
        /\ sync'.todo = sync.todo /\ sync'.gone = sync.gone
    BY <1>0, <1>1, SyncListEffect DEF SyncList, store, files
  <2>2. sync'.gone = {} /\ \A f \in Files : sync'.known[f] # None => files[f] # None
    BY <2>1 DEF Calm
  <2> QED
    BY <1>0, <2>1, <2>2, FollowsStill
<1>2. CASE SyncScan
  <2>1. /\ UNCHANGED <<files, row, job, unlink, raced>>
        /\ sync'.known = sync.known /\ sync'.todo = {f \in Files : files[f] # None}
        /\ sync'.gone = {f \in Files : sync.known[f] # None /\ files[f] = None}
        /\ sync.state = "listed"
        /\ proc'[Syncer].pc = "compare" /\ proc'[Syncer].bytes = proc[Syncer].bytes /\ Only(Syncer)
    BY <1>0, <1>2, SyncScanEffect, OneDirectoryFiles DEF SyncScan, store, files
  <2>2. sync'.gone = {}
    BY <2>1 DEF Calm
  <2>3. proc[Syncer].bytes = None
    BY <1>0, <2>1 DEF WorkInv
  <2>4. Calm'
    BY <1>0, <2>1, <2>2, CalmGoesOn DEF Calm, Indexes
  <2>5. Following'
    BY <1>0, <2>1, <2>3, FollowingGoesOn DEF Reads
  <2> QED
    BY <2>4, <2>5
<1>3. ASSUME NEW f \in Files, SyncCompare(f) PROVE Calm' /\ Following'
  <2>1. CASE Fails(Syncer)
    BY <1>0, <1>3, <2>1, FailsFollows DEF SyncCompare
  <2>2. CASE ~Fails(Syncer)
    <3>1. /\ proc[Syncer].pc = "compare" /\ f \in sync.todo /\ files[f] # None
          /\ UNCHANGED <<files, row, job, unlink, raced>>
          /\ sync'.known = sync.known /\ sync'.gone = sync.gone /\ sync'.todo \subseteq sync.todo
          /\ Only(Syncer)
          /\ \/ UNCHANGED proc
             \/ /\ proc'[Syncer].pc = "bytes" /\ proc'[Syncer].file = f
                /\ proc'[Syncer].bytes = proc[Syncer].bytes
      BY <1>0, <1>3, <2>2, SyncCompareEffect, OneDirectoryFiles DEF store, files
    <3>2. proc[Syncer].bytes = None
      BY <1>0, <3>1 DEF WorkInv
    <3>3. Calm'
      BY <1>0, <3>1, CalmGoesOn DEF Calm, Indexes
    <3>4. Following'
      BY <1>0, <3>1, <3>2, FollowingGoesOn DEF Reads
    <3> QED
      BY <3>3, <3>4
  <2> QED
    BY <2>1, <2>2
<1>4. ASSUME NEW f \in Files, SyncDelete(f) PROVE FALSE
  BY <1>0, <1>4, SyncDeleteEffect DEF Calm
<1>5. ASSUME NEW d \in Contents, SyncGraph(d) PROVE Calm' /\ Following'
  <2>1. /\ UNCHANGED <<files, row, job, unlink, raced>> /\ proc[Syncer].pc = "compare"
        /\ sync'.known = sync.known /\ sync'.todo = sync.todo /\ sync'.gone = sync.gone
        /\ proc'[Syncer].pc = "chunks" /\ proc'[Syncer].bytes = proc[Syncer].bytes /\ Only(Syncer)
    BY <1>0, <1>5, SyncGraphEffect DEF SyncGraph, store, files
  <2>2. proc[Syncer].bytes = None
    BY <1>0, <2>1 DEF WorkInv
  <2>3. Calm'
    BY <1>0, <2>1, CalmGoesOn DEF Calm, Indexes
  <2>4. Following'
    BY <1>0, <2>1, <2>2, FollowingGoesOn DEF Reads
  <2> QED
    BY <2>3, <2>4
<1>6. CASE SyncFinish
  <2>1. /\ UNCHANGED <<files, row, job, unlink, raced>>
        /\ proc'[Syncer] = Idle /\ Only(Syncer)
        /\ sync'.todo = {} /\ sync'.gone = {} /\ sync'.known = [f \in Files |-> None]
    BY <1>0, <1>6, SyncFinishEffect DEF SyncFinish, store, files
  <2>2. Calm'
    BY <1>0, <2>1, IdleFields, CalmGoesOn DEF Calm, Indexes
  <2>3. Following'
    BY <1>0, <2>1, IdleFields, FollowingGoesOn DEF Reads
  <2> QED
    BY <2>2, <2>3
<1> QED
  BY <1>1, <1>2, <1>3, <1>4, <1>5, <1>6, IndexFollows DEF SyncStep

LEMMA ReindexFollows ==
  ASSUME IInv, WorkInv, Calm, Following, ReindexStep, ~Event
  PROVE  Calm' /\ Following'
<1>0. TypeInv /\ Manager \in Indexers /\ Manager \notin Workers
  BY NoneIsNothing DEF IInv
<1>1. ASSUME NEW d \in Contents, ReindexGraph(d) \/ ReindexEmbedding(d) PROVE FALSE
  BY <1>1 DEF ReindexGraph, ReindexEmbedding
<1>2. CASE Fails(Manager) /\ (ReadChunks(Manager) \/ WriteGraph(Manager))
  BY <1>0, <1>2, FailsFollows DEF ReadChunks, WriteGraph
<1>3. ASSUME UNCHANGED <<files, row, job, sync, unlink, raced>>, Only(Manager),
             proc'[Manager].pc \in {"graph", "idle"}, proc'[Manager].bytes = None
      PROVE  Calm' /\ Following'
  <2>1. Calm'
    BY <1>0, <1>3, CalmGoesOn DEF Calm, Indexes
  <2>2. Following'
    BY <1>0, <1>3, FollowingGoesOn DEF Reads
  <2> QED
    BY <2>1, <2>2
<1>4. CASE ReadChunks(Manager)
  <2>1. UNCHANGED <<files, row, job, sync, unlink, raced>>
    BY <1>4 DEF ReadChunks, store, files
  <2>2. proc[Manager].pc = "chunks" /\ proc'[Manager].pc = "graph" /\ Only(Manager)
        /\ proc'[Manager].bytes = proc[Manager].bytes
    BY <1>0, <1>4, ReadChunksEffect
  <2> QED
    BY <1>0, <1>3, <2>1, <2>2 DEF WorkInv
<1>5. CASE WriteGraph(Manager) /\ ~Fails(Manager)
  BY <1>0, <1>3, <1>5, WriteGraphEffect, NoneIsNothing DEF files
<1>6. CASE StartEmbedding
  <2>1. UNCHANGED <<files, row, job, sync, unlink, raced>>
    BY <1>6 DEF StartEmbedding, store, files
  <2> QED
    BY <1>0, <1>3, <1>6, <2>1, StartEmbeddingEffect, IdleFields
<1> QED
  BY <1>1, <1>2, <1>4, <1>5, <1>6 DEF ReindexStep

\* The jobs stay those of their uploads.
KeepsJobs ==
    \A n \in Jobs : /\ job'[n].file = job[n].file /\ job'[n].object = job[n].object
                    /\ job'[n].state = "none" => job[n].state = "none"

LEMMA StateKeepsJobs ==
  ASSUME TypeInv, NEW n, NEW s \in {"queued", "busy", "done"}, job' = [job EXCEPT ![n].state = s]
  PROVE  KeepsJobs
  BY DEF KeepsJobs, TypeInv, JobsOK, JobState

\* p reads nothing, and no file and no row changes.
LEMMA TextGoesOn ==
  ASSUME TypeInv, TextInv, KeepsJobs, UNCHANGED <<files, row, chunks>>, NEW p \in Indexers, Only(p),
         \A f \in Files : Reads(proc'[p], f) =>
             /\ Reads(proc[p], f) /\ proc'[p].bytes = proc[p].bytes
             /\ proc'[p].pc \in {"select", "commit"} =>
                    proc[p].pc \in {"select", "commit"} /\ proc'[p].text = proc[p].text
  PROVE  TextInv'
<1>1. \A n \in Jobs : job'[n].state = "none" => job'[n].file = None
  BY DEF TextInv, KeepsJobs
<1>2. ASSUME NEW f \in Files, NeverReturned(f)' PROVE Untorn(f)'
  <2>1. Untorn(f)
    BY <1>2 DEF TextInv, KeepsJobs, NeverReturned
  <2>2. \A c : Came(f, c) => Came(f, c)'
    BY DEF KeepsJobs, Came
  <2>3. \A q \in Indexers : Reads(proc'[q], f) =>
            /\ Came(f, proc'[q].bytes)
            /\ proc'[q].pc \in {"select", "commit"} =>
                   proc'[q].text = proc'[q].bytes \/ proc'[q].bytes # files[f]
    BY <2>1 DEF Untorn, Only
  <2> QED
    BY <2>1, <2>2, <2>3 DEF Untorn, Reads, Came, KeepsJobs
<1> QED
  BY <1>1, <1>2 DEF TextInv

LEMMA UploadText ==
  ASSUME OneDirectory, TypeInv, TextInv, NEW h \in Hosts, NEW f \in Files, NEW c \in Contents, Upload(h, f, c)
  PROVE  TextInv'
<1>1. PICK n \in Jobs : /\ job[n].state = "none" /\ job'[n].file = f /\ job'[n].state = "queued"
                        /\ job'[n].object = c /\ \A k \in Jobs \ {n} : job'[k] = job[k]
  BY UploadEffect
<1>2. job[n].file = None /\ f # None
  BY <1>1, NoneIsNothing DEF TextInv
<1>3. files'[f] = c /\ (\A g \in Files \ {f} : files'[g] = files[g]) /\ UNCHANGED <<row, chunks, proc>>
  <2>1. file' = [file EXCEPT ![h][f] = c] /\ UNCHANGED <<row, chunks, proc>>
    BY DEF Upload
  <2>2. file'[h][f] = c /\ \A g \in Files \ {f} : file'[h][g] = file[h][g]
    BY <2>1 DEF TypeInv, StoreOK
  <2> QED
    BY <2>1, <2>2, OneDirectoryFiles DEF files
<1>4. \A k \in Jobs : job'[k].state = "none" => job'[k].file = None
  BY <1>1 DEF TextInv
<1>5. ASSUME NEW g \in Files, NeverReturned(g)' PROVE Untorn(g)'
  <2>1. \A k \in Jobs : job[k].file = g => k # n /\ job'[k] = job[k]
    BY <1>1, <1>2, NoneIsNothing
  <2>2. NeverReturned(g)
    BY <1>5, <2>1 DEF NeverReturned
  <2>3. Untorn(g) /\ \A x : Came(g, x) => Came(g, x)'
    BY <2>1, <2>2 DEF TextInv, Came
  <2>4. CASE g # f
    BY <1>3, <2>3, <2>4 DEF Untorn, Reads, Came
  <2>5. CASE g = f
    <3>1. ASSUME NEW x, Came(f, x) PROVE x # c
      BY <1>1, <1>5, <2>1, <2>5, <3>1 DEF Came, NeverReturned
    <3>2. Came(f, c)'
      BY <1>1 DEF Came
    <3> QED
      BY <1>3, <2>3, <2>5, <3>1, <3>2 DEF Untorn, Reads, Came
  <2> QED
    BY <2>4, <2>5
<1> QED
  BY <1>4, <1>5 DEF TextInv

\* p reads the file that is there.
LEMMA ReadsText ==
  ASSUME TypeInv, TextInv, KeepsJobs, UNCHANGED <<files, row, chunks>>, NEW p \in Indexers, Only(p),
         proc[p].file \in Files, proc'[p].file = proc[p].file,
         \/ /\ proc'[p].pc = "text" /\ proc'[p].bytes = files[proc[p].file] /\ files[proc[p].file] # None
         \/ /\ proc'[p].bytes = proc[p].bytes /\ proc'[p].text = files[proc[p].file]
  PROVE  TextInv'
<1>1. \A n \in Jobs : job'[n].state = "none" => job'[n].file = None
  BY DEF TextInv, KeepsJobs
<1>2. ASSUME NEW f \in Files, NeverReturned(f)' PROVE Untorn(f)'
  <2>1. Untorn(f)
    BY <1>2 DEF TextInv, KeepsJobs, NeverReturned
  <2>2. \A c : Came(f, c) => Came(f, c)'
    BY DEF KeepsJobs, Came
  <2>3. Reads(proc'[p], f) =>
            /\ Came(f, proc'[p].bytes)
            /\ proc'[p].pc \in {"select", "commit"} =>
                   proc'[p].text = proc'[p].bytes \/ proc'[p].bytes # files[f]
    BY <2>1 DEF Untorn, Reads
  <2>4. \A q \in Indexers : Reads(proc'[q], f) =>
            /\ Came(f, proc'[q].bytes)
            /\ proc'[q].pc \in {"select", "commit"} =>
                   proc'[q].text = proc'[q].bytes \/ proc'[q].bytes # files[f]
    BY <2>1, <2>3 DEF Untorn, Only
  <2> QED
    BY <2>1, <2>2, <2>4 DEF Untorn, Reads, Came, KeepsJobs
<1> QED
  BY <1>1, <1>2 DEF TextInv

LEMMA CommitText ==
  ASSUME IInv, Calm, TextInv, NEW p \in Indexers, Commit(p), ~Fails(p)
  PROVE  TextInv'
<1>0. PICK f, doc, prev : f = proc[p].file /\ doc = proc[p].bytes /\ prev = proc[p].prev
  OBVIOUS
<1>1. TypeInv
  BY DEF IInv
<1>2. /\ proc[p].pc = "commit" /\ f \in Files /\ doc \in Contents /\ Indexed(p, doc)
      /\ chunks' = [d \in Contents |-> IF d = doc THEN proc[p].text
                                      ELSE IF prev # None /\ d = prev.doc THEN None ELSE chunks[d]]
      /\ UNCHANGED <<files, job>>
  BY <1>0, <1>1, CommitEffect DEF files
<1>3. /\ row'[f] # None /\ row'[f].doc = doc
      /\ \A g \in Files \ {f} :
             /\ row'[g] = row[g]
             /\ row[g] # None => row[g].doc # doc /\ (prev # None => row[g].doc # prev.doc)
  BY <1>0, CommitAlone
<1>4. Only(p) /\ proc'[p].bytes = None
  BY <1>1, <1>2, IndexedEffect
<1>5. \A n \in Jobs : job'[n].state = "none" => job'[n].file = None
  BY <1>2 DEF TextInv
<1>6. ASSUME NEW g \in Files, NeverReturned(g)' PROVE Untorn(g)'
  <2>1. Untorn(g)
    BY <1>2, <1>6 DEF TextInv, NeverReturned
  <2>2. \A c : Came(g, c) <=> Came(g, c)'
    BY <1>2 DEF Came
  <2>3. \A q \in Indexers : Reads(proc'[q], g) =>
            /\ Came(g, proc'[q].bytes)
            /\ proc'[q].pc \in {"select", "commit"} =>
                   proc'[q].text = proc'[q].bytes \/ proc'[q].bytes # files[g]
    BY <1>4, <2>1 DEF Untorn, Only, Reads
  <2>4. row'[g] # None => /\ Came(g, row'[g].doc)
                          /\ chunks'[row'[g].doc] = row'[g].doc \/ row'[g].doc # files[g]
    <3>1. CASE g = f
      <4>1. Reads(proc[p], f)
        BY <1>0, <1>2, NoneIsNothing DEF Reads
      <4>2. Came(f, doc) /\ (proc[p].text = doc \/ doc # files[f])
        BY <1>0, <1>2, <2>1, <3>1, <4>1 DEF Untorn
      <4>3. chunks'[doc] = proc[p].text
        BY <1>2
      <4> QED
        BY <1>3, <3>1, <4>2, <4>3
    <3>2. CASE g # f
      <4>1. row'[g] = row[g] /\ (row[g] # None => row[g].doc \in Contents)
        BY <1>1, <1>3, <3>2 DEF TypeInv, StoreOK, Maybe, Row
      <4>2. row[g] # None => chunks'[row[g].doc] = chunks[row[g].doc]
        BY <1>2, <1>3, <3>2, <4>1
      <4> QED
        BY <2>1, <4>1, <4>2 DEF Untorn
    <3> QED
      BY <3>1, <3>2
  <2> QED
    BY <1>2, <2>1, <2>2, <2>3, <2>4 DEF Untorn, Reads, Came
<1> QED
  BY <1>5, <1>6 DEF TextInv

LEMMA IndexText ==
  ASSUME OneDirectory, IInv, WorkInv, Calm, TextInv, NEW p \in Workers \union {Syncer}, IndexStep(p)
  PROVE  TextInv'
<1>0. TypeInv /\ p \in Indexers
  BY NoneIsNothing DEF IInv
<1>1. CASE Fails(p)
  <2>1. KeepsJobs
    <3>1. CASE p \in Workers
      BY <1>0, <1>1, <3>1, NoneIsNothing, StateKeepsJobs DEF Fails
    <3>2. CASE p \notin Workers
      BY <1>1, <3>2 DEF Fails, KeepsJobs
    <3> QED
      BY <3>1, <3>2
  <2>2. UNCHANGED <<files, row, chunks>>
    BY <1>1 DEF Fails, store, files
  <2>3. proc'[p] = Idle /\ Only(p)
    BY <1>0, <1>1, FailsEffect
  <2> QED
    BY <1>0, <2>1, <2>2, <2>3, IdleFields, TextGoesOn DEF Reads
<1>2. CASE ReadBytes(p) /\ ~Fails(p)
  <2>1. UNCHANGED <<files, row, chunks>> /\ KeepsJobs
    BY <1>2 DEF ReadBytes, store, files, KeepsJobs
  <2>2. /\ proc[p].file \in Files /\ files[proc[p].file] # None /\ Only(p)
        /\ proc'[p].pc = "text" /\ proc'[p].bytes = files[proc[p].file] /\ proc'[p].file = proc[p].file
    BY <1>0, <1>2, ReadBytesEffect, OneDirectoryFiles
  <2> QED
    BY <1>0, <2>1, <2>2, ReadsText
<1>3. CASE ReadText(p) /\ ~Fails(p)
  <2>1. UNCHANGED <<files, row, chunks>> /\ KeepsJobs
    BY <1>3 DEF ReadText, store, files, KeepsJobs
  <2>2. /\ proc[p].file \in Files /\ Only(p) /\ proc'[p].file = proc[p].file
        /\ proc'[p].bytes = proc[p].bytes /\ proc'[p].text = files[proc[p].file]
    BY <1>0, <1>3, ReadTextEffect, OneDirectoryFiles
  <2> QED
    BY <1>0, <2>1, <2>2, ReadsText
<1>4. CASE SelectPrevious(p)
  <2>1. UNCHANGED <<files, row, chunks>> /\ KeepsJobs
    BY <1>4 DEF SelectPrevious, store, files, KeepsJobs
  <2>2. proc[p].pc = "select" /\ proc[p].bytes \in Contents
    BY <1>0, <1>4, SelectEffect
  <2>3. CASE Indexed(p, proc[p].bytes)
    BY <1>0, <2>1, <2>2, <2>3, IndexedEffect, TextGoesOn DEF Reads
  <2>4. CASE ~Indexed(p, proc[p].bytes)
    BY <1>0, <1>4, <2>1, <2>2, <2>4, SelectEffect, TextGoesOn DEF Reads
  <2> QED
    BY <2>3, <2>4
<1>5. CASE ReadChunks(p)
  <2>1. UNCHANGED <<files, row, chunks>> /\ KeepsJobs
    BY <1>5 DEF ReadChunks, store, files, KeepsJobs
  <2>2. proc'[p].bytes = proc[p].bytes /\ proc[p].pc = "chunks" /\ Only(p)
    BY <1>0, <1>5, ReadChunksEffect
  <2>3. proc[p].bytes = None
    BY <1>0, <2>2 DEF WorkInv
  <2> QED
    BY <1>0, <2>1, <2>2, <2>3, TextGoesOn DEF Reads
<1>6. CASE WriteGraph(p) /\ ~Fails(p)
  <2>1. UNCHANGED <<files, row, chunks>> /\ KeepsJobs /\ Only(p) /\ proc[p].pc = "graph"
        /\ proc'[p].bytes \in {None, proc[p].bytes}
    BY <1>0, <1>6, WriteGraphEffect DEF files, KeepsJobs
  <2>2. proc[p].bytes = None
    BY <1>0, <2>1 DEF WorkInv
  <2> QED
    BY <1>0, <2>1, <2>2, TextGoesOn DEF Reads
<1> QED
  BY <1>0, <1>1, <1>2, <1>3, <1>4, <1>5, <1>6, CommitText DEF IndexStep

\* A step that nobody has read anything in.
LEMMA OutsideText ==
  ASSUME TypeInv, TextInv, KeepsJobs, UNCHANGED <<files, row, chunks>>,
         NEW p \in Indexers, Only(p), proc'[p].bytes = None \/ UNCHANGED proc
  PROVE  TextInv'
<1>1. CASE proc'[p].bytes = None
  BY <1>1, TextGoesOn DEF Reads
<1>2. CASE UNCHANGED proc
  BY <1>2, TextGoesOn
<1> QED
  BY <1>1, <1>2

LEMMA StepText ==
  ASSUME OneDirectory, IInv, WorkInv, Calm, TextInv, ~Event, [Next]_vars
  PROVE  TextInv'
<1>0. TypeInv /\ Syncer \in Indexers /\ Manager \in Indexers
  BY NoneIsNothing DEF IInv
<1>1. CASE ApiStep
  <2>1. ASSUME NEW h \in Hosts, NEW f \in Files, Unlink(h, f) \/ UnlinkLost(h, f) PROVE FALSE
    BY <2>1 DEF Unlink, UnlinkLost, Calm
  <2> QED
    BY <1>0, <1>1, <2>1, UploadText, Directories DEF ApiStep, Delete, ChangeFile
<1>2. ASSUME NEW w \in Workers, IngestStep(w) PROVE TextInv'
  <2>0. w \in Indexers
    BY NoneIsNothing
  <2>1. CASE Finish(w)
    <3>1. UNCHANGED <<files, row, chunks>> /\ KeepsJobs
      BY <1>0, <2>1, StateKeepsJobs DEF Finish, store, files
    <3> QED
      BY <1>0, <2>0, <2>1, <3>1, FinishEffect, IdleFields, OutsideText
  <2>2. ASSUME NEW n \in Jobs, Take(w, n) PROVE TextInv'
    <3>1. UNCHANGED <<files, row, chunks>> /\ KeepsJobs
      BY <1>0, <2>2, StateKeepsJobs DEF Take, store, files
    <3> QED
      BY <1>0, <2>0, <2>2, <3>1, TakeEffect, OutsideText
  <2>3. CASE Fetch(w)
    BY <2>0, <2>3 DEF Fetch, Calm
  <2> QED
    BY <1>2, <2>1, <2>2, <2>3, IndexText DEF IngestStep
<1>3. CASE SyncStep
  <2>1. CASE SyncList
    <3>1. UNCHANGED <<files, row, chunks, proc>> /\ KeepsJobs
      BY <2>1 DEF SyncList, store, files, KeepsJobs
    <3> QED
      BY <1>0, <3>1, OutsideText DEF Only
  <2>2. CASE SyncScan
    <3>1. UNCHANGED <<files, row, chunks>> /\ KeepsJobs /\ sync.state = "listed" /\ Only(Syncer)
          /\ proc'[Syncer].bytes = proc[Syncer].bytes
      BY <1>0, <2>2, SyncScanEffect DEF SyncScan, store, files, KeepsJobs
    <3>2. proc[Syncer].bytes = None
      BY <1>0, <3>1 DEF WorkInv
    <3> QED
      BY <1>0, <3>1, <3>2, OutsideText
  <2>3. ASSUME NEW f \in Files, SyncCompare(f) PROVE TextInv'
    <3>1. proc[Syncer].pc = "compare" /\ UNCHANGED <<files, row, chunks, job>>
      BY <2>3, NoneIsNothing DEF SyncCompare, Fails, store, files
    <3>2. KeepsJobs /\ proc[Syncer].bytes = None
      BY <1>0, <3>1 DEF KeepsJobs, WorkInv
    <3>3. CASE Fails(Syncer)
      BY <1>0, <3>1, <3>2, <3>3, FailsEffect, IdleFields, OutsideText
    <3>4. CASE ~Fails(Syncer)
      BY <1>0, <2>3, <3>1, <3>2, <3>4, SyncCompareEffect, OutsideText
    <3> QED
      BY <3>3, <3>4
  <2>4. ASSUME NEW f \in Files, SyncDelete(f) PROVE FALSE
    BY <1>0, <2>4, SyncDeleteEffect DEF Calm
  <2>5. ASSUME NEW d \in Contents, SyncGraph(d) PROVE TextInv'
    <3>1. UNCHANGED <<files, row, chunks>> /\ KeepsJobs
      BY <2>5 DEF SyncGraph, store, files, KeepsJobs
    <3>2. proc[Syncer].pc = "compare" /\ proc'[Syncer].bytes = proc[Syncer].bytes /\ Only(Syncer)
      BY <1>0, <2>5, SyncGraphEffect
    <3>3. proc[Syncer].bytes = None
      BY <1>0, <3>2 DEF WorkInv
    <3> QED
      BY <1>0, <3>1, <3>2, <3>3, OutsideText
  <2>6. CASE SyncFinish
    <3>1. UNCHANGED <<files, row, chunks>> /\ KeepsJobs
      BY <2>6 DEF SyncFinish, store, files, KeepsJobs
    <3> QED
      BY <1>0, <2>6, <3>1, SyncFinishEffect, IdleFields, OutsideText
  <2> QED
    BY <1>3, <2>1, <2>2, <2>3, <2>4, <2>5, <2>6, IndexText DEF SyncStep
<1>4. CASE EmbedStep \/ EmbedRaises \/ UNCHANGED vars
  <2>1. UNCHANGED <<files, row, chunks, proc>> /\ KeepsJobs
    BY <1>4 DEF EmbedStep, EmbedTake, EmbedWrite, EmbedFails, EmbedRaises, vars, store, files, KeepsJobs
  <2> QED
    BY <1>0, <2>1, OutsideText DEF Only
<1>5. CASE ReindexStep
  <2>1. UNCHANGED <<files, row, chunks>> /\ KeepsJobs
    <3>1. UNCHANGED <<file, row, chunks, job>>
      BY <1>5, NoneIsNothing DEF ReindexStep, ReindexGraph, ReindexEmbedding, ReadChunks, WriteGraph,
         StartEmbedding, Fails, store
    <3> QED
      BY <3>1 DEF files, KeepsJobs
  <2>2. Only(Manager) /\ proc'[Manager].bytes = None
    <3>1. ASSUME NEW d \in Contents, ReindexGraph(d) \/ ReindexEmbedding(d) PROVE Only(Manager) /\ proc'[Manager].bytes = None
      BY <1>0, <3>1, ReindexEffect
    <3>2. CASE ReadChunks(Manager)
      BY <1>0, <3>2, ReadChunksEffect DEF WorkInv
    <3>3. CASE WriteGraph(Manager) /\ Fails(Manager)
      BY <1>0, <3>3, FailsEffect, IdleFields
    <3>4. CASE WriteGraph(Manager) /\ ~Fails(Manager)
      BY <1>0, <3>4, WriteGraphEffect, NoneIsNothing
    <3>5. CASE StartEmbedding
      BY <1>0, <3>5, StartEmbeddingEffect, IdleFields
    <3> QED
      BY <1>5, <3>1, <3>2, <3>3, <3>4, <3>5 DEF ReindexStep
  <2> QED
    BY <1>0, <2>1, <2>2, OutsideText
<1> QED
  BY <1>1, <1>2, <1>3, <1>4, <1>5 DEF Next, Raises

LEMMA StepFollows ==
  ASSUME IInv, WorkInv, FollowInv, [Next]_vars
  PROVE  FollowInv'
<1> SUFFICES ASSUME OneDirectory, events' = 0 PROVE Calm' /\ Following' /\ TextInv'
  BY DEF FollowInv, OneDirectory
<1>0. TypeInv
  BY DEF IInv
<1>1. events = 0 /\ ~Event /\ Calm /\ Following /\ TextInv
  BY <1>0, EventsGrow DEF FollowInv
<1>6. TextInv'
  BY <1>1, StepText
<1> SUFFICES Calm' /\ Following'
  BY <1>6
<1>2. CASE ApiStep
  <2>1. ASSUME NEW h \in Hosts, NEW f \in Files, Unlink(h, f) \/ UnlinkLost(h, f) PROVE FALSE
    BY <1>1, <2>1 DEF Unlink, UnlinkLost, Calm
  <2> QED
    BY <1>0, <1>1, <1>2, <2>1, UploadFollows, Directories DEF ApiStep, Delete, ChangeFile
<1>3. ASSUME NEW w \in Workers, IngestStep(w) PROVE Calm' /\ Following'
  <2>1. CASE Finish(w)
    <3>1. UNCHANGED <<files, row, sync, unlink, raced>> /\ w \in Indexers
      BY <2>1, NoneIsNothing DEF Finish, store, files
    <3>2. /\ proc[w].pc = "start" /\ proc'[w] = Idle /\ Only(w)
          /\ \A n \in Jobs \ {proc[w].job} : job'[n] = job[n]
          /\ \A n \in Jobs : job'[n].file = job[n].file
      BY <1>0, <2>1, FinishEffect
    <3>3. proc[w].bytes = None /\ proc[w].job \in Jobs /\ job[proc[w].job].state = "busy"
      BY <3>1, <3>2 DEF WorkInv, Works
    <3>4. Calm'
      BY <1>0, <1>1, <3>1, <3>2, <3>3, IdleFields, CalmGoesOn DEF Calm, Indexes
    <3>5. ASSUME NEW f \in Files, Followed(f) PROVE Followed(f)'
      BY <1>0, <3>1, <3>2, <3>3, <3>5, IdleFields, FollowedGoesOn DEF Reads
    <3> QED
      BY <1>1, <3>1, <3>4, <3>5 DEF Following
  <2>2. CASE Fetch(w)
    BY <1>1, <2>2, NoneIsNothing DEF Fetch, Calm
  <2> QED
    BY <1>0, <1>1, <1>3, <2>1, <2>2, TakeFollows, IndexFollows DEF IngestStep
<1>4. CASE EmbedStep \/ EmbedRaises \/ UNCHANGED vars
  <2>1. UNCHANGED <<files, row, job, proc, unlink, raced, sync>>
    BY <1>4 DEF EmbedStep, EmbedTake, EmbedWrite, EmbedFails, EmbedRaises, vars, store, files
  <2>2. sync'.gone = {} /\ \A f \in Files : sync'.known[f] # None => files[f] # None
    BY <1>1, <2>1 DEF Calm
  <2> QED
    BY <1>0, <1>1, <2>1, <2>2, FollowsStill
<1>5. ASSUME NEW p \in Indexers, Raises(p) PROVE FALSE
  BY <1>1, <1>5 DEF Raises
<1> QED
  BY <1>1, <1>2, <1>3, <1>4, <1>5, SyncFollows, ReindexFollows DEF Next

-----------------------------------------------------------------------------
(***************************************************************************)
(* Graphs and vectors follow chunks.                                        *)
(***************************************************************************)
\* Who has no document in hand, before or after.
Apart(p) == proc'[p] = proc[p] \/ ~(proc[p].pc \in {"chunks", "graph", "start"} \/ proc'[p].pc \in {"chunks", "graph", "start"})

\* A step that is about no document.
LEMMA OutsideDerived ==
  ASSUME TypeInv, DerivedInv,
         UNCHANGED <<row, chunks, graph, embedding, embedder, owed, dropped, interrupted>>,
         sync'.changed = sync.changed, sync'.graphs = sync.graphs,
         \A p \in Indexers : Apart(p),
         \A f \in Files : Due(f) => Due(f)'
  PROVE  DerivedInv'
<1>1. \A p \in Indexers, d \in Contents : Minds(proc'[p], d) <=> Minds(proc[p], d)
  BY DEF Apart, Minds
<1>2. \A p \in Indexers, d \in Contents : Minds(proc[p], d) => proc'[p] = proc[p]
  BY DEF Apart, Minds
<1>3. Syncer \in Indexers /\ Workers \subseteq Indexers
  BY NoneIsNothing
<1>4. \A d : Held(d)' <=> Held(d)
  BY DEF Held, Holder
<1>5. ASSUME NEW d \in Contents, Sound(d) PROVE Sound(d)'
  <2>1. \A p \in Indexers : Carries(p, d)'
    BY <1>1, <1>2, <1>4, <1>5 DEF Sound, Carries
  <2>2. Synced(d)'
    BY <1>1, <1>3, <1>4, <1>5 DEF Sound, Synced
  <2> QED
    BY <1>4, <1>5, <2>1, <2>2 DEF Sound, Embeds
<1>6. ASSUME NEW f \in Files, NEW d \in Contents, Cared(f, d) PROVE Cared(f, d)'
  <2>1. (\E w \in Workers : proc[w].file = f /\ Minds(proc[w], d)) =>
        \E w \in Workers : proc'[w].file = f /\ Minds(proc'[w], d)
    BY <1>1, <1>2, <1>3
  <2> QED
    BY <1>6, <2>1 DEF Cared, Embeds
<1>7. \A f \in Files : row[f] # None => row[f].doc \in Contents
  BY Known, NoneIsNothing DEF Row
<1> QED
  BY <1>5, <1>6, <1>7 DEF DerivedInv

\* An indexer goes on with its file.
LEMMA DueGoesOn ==
  ASSUME NEW f \in Files, Due(f), NEW p \in Indexers, Only(p), UNCHANGED job,
         p \in Workers /\ Indexes(proc[p]) /\ proc[p].file = f => Indexes(proc'[p]) /\ proc'[p].file = f
  PROVE  Due(f)'
<1>1. CASE \E n \in Jobs : job[n].file = f /\ job[n].state = "queued"
  BY <1>1 DEF Due
<1>2. ASSUME NEW w \in Workers, proc[w].file = f, Indexes(proc[w]) PROVE Due(f)'
  <2>1. proc'[w].file = f /\ Indexes(proc'[w])
    BY <1>2, NoneIsNothing DEF Only
  <2> QED
    BY <2>1 DEF Due, Indexes
<1> QED
  BY <1>1, <1>2 DEF Due

LEMMA FailsDerived ==
  ASSUME TypeInv, WorkInv, DerivedInv, NEW p \in Indexers, Fails(p), proc[p].pc # "idle"
  PROVE  DerivedInv'
<1>1. /\ proc'[p] = Idle /\ Only(p)
      /\ UNCHANGED <<row, chunks, graph, embedding, embedder, owed, dropped>>
  BY FailsEffect DEF Fails, store
<1>2. /\ \A n \in Jobs : job'[n].file = job[n].file
      /\ \A n \in Jobs : job[n].state = "queued" => job'[n].state = "queued"
      /\ p \in Workers => /\ proc[p].job \in Jobs /\ job[proc[p].job].file = proc[p].file
                          /\ job'[proc[p].job].state = "queued"
  BY FailsJob
<1>3. /\ p # Syncer => UNCHANGED <<sync, interrupted>>
      /\ p = Syncer => /\ sync'.changed = {} /\ sync'.graphs = {}
                       /\ interrupted' = interrupted \union UNION {Holder(d) : d \in sync.changed}
  BY NoneIsNothing DEF Fails, NoSync
<1>4. Syncer \in Indexers /\ Workers \subseteq Indexers
  BY NoneIsNothing
<1>5. \A d : Held(d)' <=> Held(d)
  BY <1>1 DEF Held, Holder
<1>6. \A d : ~Minds(proc'[p], d)
  BY <1>1, IdleFields DEF Minds
<1>7. ASSUME NEW d \in Contents, Sound(d) PROVE Sound(d)'
  <2>1. \A q \in Indexers : Carries(q, d)'
    BY <1>1, <1>5, <1>6, <1>7 DEF Sound, Carries, Only, Minds
  <2>2. Synced(d)'
    BY <1>1, <1>3, <1>4, <1>5, <1>7 DEF Sound, Synced, Only, Minds
  <2> QED
    BY <1>1, <1>5, <1>7, <2>1, <2>2 DEF Sound, Embeds
<1>8. ASSUME NEW f \in Files, row[f] # None, f \notin interrupted', Cared(f, row[f].doc)
      PROVE  Cared(f, row[f].doc)'
  <2>1. ASSUME NEW w \in Workers, proc[w].file = f, w = p PROVE Due(f)'
    BY <1>2, <2>1 DEF Due
  <2>2. CASE Due(f)
    <3>1. Due(f)'
      BY <1>1, <1>2, <1>4, <2>1, <2>2 DEF Due, Only, Indexes
    <3> QED
      BY <3>1 DEF Cared
  <2>3. ASSUME NEW w \in Workers, proc[w].file = f, Minds(proc[w], row[f].doc) PROVE Cared(f, row[f].doc)'
    BY <1>1, <1>4, <2>1, <2>3 DEF Cared, Only, Minds
  <2>4. CASE row[f].doc \in sync.changed
    <3>1. p # Syncer
      BY <1>3, <1>8, <2>4 DEF Holder
    <3> QED
      BY <1>1, <1>3, <2>4, <3>1 DEF Cared
  <2> QED
    BY <1>1, <1>8, <2>2, <2>3, <2>4 DEF Cared, Embeds
<1> QED
  BY <1>1, <1>3, <1>7, <1>8 DEF DerivedInv

\* p finds its contents stored already: it goes on to their graph.
LEMMA FoundDerived ==
  ASSUME TypeInv, DerivedInv, NEW p \in Workers \union {Syncer}, NEW d \in Contents, Indexed(p, d),
         proc[p].pc = "select", proc[p].file \in Files, row[proc[p].file] # None, row[proc[p].file].doc = d,
         UNCHANGED <<store, job, embedder, owed, dropped, interrupted>>
  PROVE  DerivedInv'
<1>1. p \in Indexers /\ Syncer \in Indexers /\ Workers \subseteq Indexers /\ Syncer \notin Workers
  BY NoneIsNothing
<1>2. /\ Only(p)
      /\ p = Syncer => /\ proc'[p].pc = "compare"
                       /\ sync'.changed = sync.changed \union {d} /\ sync'.graphs = sync.graphs \union {d}
      /\ p # Syncer => /\ proc'[p].pc = "chunks" /\ proc'[p].doc = d
                       /\ proc'[p].file = proc[p].file /\ sync' = sync
  BY <1>1, IndexedEffect
<1>3. \A e : Held(e)' <=> Held(e)
  BY DEF Held, Holder, store
<1>4. Held(d)
  BY DEF Held, Holder
<1>5. UNCHANGED <<row, chunks, graph, embedding>>
  BY DEF store
<1>6. ASSUME NEW e \in Contents, Sound(e) PROVE Sound(e)'
  <2>1. ASSUME NEW q \in Indexers PROVE Carries(q, e)'
    <3>1. CASE q = p
      BY <1>1, <1>2, <1>3, <1>4, <3>1 DEF Carries, Minds
    <3>2. CASE q # p
      BY <1>2, <1>3, <1>5, <1>6, <3>2 DEF Sound, Carries, Minds, Only
    <3> QED
      BY <3>1, <3>2
  <2>2. Synced(e)'
    BY <1>1, <1>2, <1>3, <1>4, <1>5, <1>6 DEF Sound, Synced, Only, Minds
  <2> QED
    BY <1>3, <1>5, <1>6, <2>1, <2>2 DEF Sound, Embeds
<1>7. ASSUME NEW f \in Files, row[f] # None, Cared(f, row[f].doc)
      PROVE  Cared(f, row[f].doc)'
  <2>1. ASSUME NEW w \in Workers, proc[w].file = f, Indexes(proc[w]) PROVE Cared(f, row[f].doc)'
    <3>1. CASE w = p
      BY <1>1, <1>2, <1>5, <2>1, <3>1 DEF Cared, Minds
    <3>2. CASE w # p
      BY <1>1, <1>2, <2>1, <3>2 DEF Cared, Due, Indexes, Only
    <3> QED
      BY <3>1, <3>2
  <2>2. CASE \E n \in Jobs : job[n].file = f /\ job[n].state = "queued"
    BY <2>2 DEF Cared, Due
  <2>3. ASSUME NEW w \in Workers, proc[w].file = f, Minds(proc[w], row[f].doc) PROVE Cared(f, row[f].doc)'
    <3>1. w # p
      BY <2>3 DEF Minds
    <3> QED
      BY <1>1, <1>2, <1>5, <2>3, <3>1 DEF Cared, Minds, Only
  <2>4. sync.changed \subseteq sync'.changed
    BY <1>2
  <2> QED
    BY <1>5, <1>7, <2>1, <2>2, <2>3, <2>4 DEF Cared, Due, Embeds
<1> QED
  BY <1>5, <1>6, <1>7 DEF DerivedInv

LEMMA ReadDerived ==
  ASSUME TypeInv, DerivedInv, NEW p \in Workers \union {Syncer},
         ReadBytes(p) \/ ReadText(p) \/ SelectPrevious(p), ~Fails(p)
  PROVE  DerivedInv'
<1>1. p \in Indexers
  BY NoneIsNothing
<1>2. UNCHANGED <<store, job, embedder, owed, dropped, interrupted>>
  BY DEF ReadBytes, ReadText, SelectPrevious
<1>3. ASSUME proc[p].pc \in {"bytes", "text", "select"}, proc'[p].pc \in {"text", "select", "commit"},
             proc'[p].file = proc[p].file, Only(p), UNCHANGED sync
      PROVE  DerivedInv'
  <2>1. \A f \in Files : Due(f) => Due(f)'
    BY <1>1, <1>2, <1>3, DueGoesOn DEF Indexes
  <2>2. \A q \in Indexers : Apart(q)
    BY <1>3 DEF Apart, Only
  <2> QED
    BY <1>2, <1>3, <2>1, <2>2, OutsideDerived DEF store
<1>4. CASE ReadBytes(p)
  <2>1. UNCHANGED sync
    BY <1>4 DEF ReadBytes
  <2> QED
    BY <1>1, <1>3, <1>4, <2>1, ReadBytesEffect
<1>5. CASE ReadText(p)
  <2>1. UNCHANGED sync
    BY <1>5 DEF ReadText
  <2> QED
    BY <1>1, <1>3, <1>5, <2>1, ReadTextEffect
<1>6. CASE SelectPrevious(p)
  BY <1>1, <1>2, <1>3, <1>6, SelectEffect, FoundDerived
<1> QED
  BY <1>4, <1>5, <1>6

\* p has read the chunks of its document, or made its graph of them.
LEMMA GraphDerived ==
  ASSUME TypeInv, WorkInv, DerivedInv, NEW p \in Indexers, ReadChunks(p) \/ WriteGraph(p), ~Fails(p)
  PROVE  DerivedInv'
<1> DEFINE x == proc[p].doc
<1>1. /\ UNCHANGED <<row, chunks, embedding, job, sync, embedder, owed, dropped, interrupted>>
      /\ proc[p].pc \in {"chunks", "graph"} /\ x \in Contents /\ Only(p)
  BY ReadChunksEffect, WriteGraphEffect DEF ReadChunks, WriteGraph, store
<1>2. Syncer \in Indexers /\ Workers \subseteq Indexers /\ Syncer \notin Workers
  BY NoneIsNothing
<1>3. \A d : Held(d)' <=> Held(d)
  BY <1>1 DEF Held, Holder
<1>4. CASE ReadChunks(p)
  <2>1. proc'[p].pc = "graph" /\ proc'[p].doc = x /\ proc'[p].chunks = chunks[x]
    BY <1>4, ReadChunksEffect
  <2>2. UNCHANGED graph
    BY <1>4 DEF ReadChunks, store
  <2> HIDE DEF x
  <2>3. \A q \in Indexers, d \in Contents : Minds(proc'[q], d) <=> Minds(proc[q], d)
    BY <1>1, <2>1 DEF Only, Minds, x
  <2>4. ASSUME NEW d \in Contents, Sound(d) PROVE Sound(d)'
    <3>1. \A q \in Indexers : Carries(q, d)'
      BY <1>1, <1>3, <2>1, <2>2, <2>3, <2>4 DEF Sound, Carries, Only, Minds
    <3>2. Synced(d)'
      BY <1>1, <1>2, <1>3, <2>2, <2>3, <2>4 DEF Sound, Synced
    <3> QED
      BY <1>1, <1>3, <2>4, <3>1, <3>2 DEF Sound, Embeds
  <2>5. ASSUME NEW f \in Files, Cared(f, row[f].doc), row[f].doc \in Contents PROVE Cared(f, row[f].doc)'
    <3>1. proc'[p].file = proc[p].file
      BY <1>4, ReadChunksEffect
    <3>2. Due(f) => Due(f)'
      BY <1>1, DueGoesOn DEF Indexes
    <3>3. \A w \in Workers : proc'[w].file = proc[w].file
      BY <1>1, <1>2, <3>1 DEF Only
    <3> QED
      BY <1>1, <1>2, <2>2, <2>3, <2>5, <3>2, <3>3 DEF Cared, Embeds
  <2>6. \A f \in Files : row[f] # None => row[f].doc \in Contents
    BY Known, NoneIsNothing DEF Row
  <2> QED
    BY <1>1, <2>4, <2>5, <2>6 DEF DerivedInv
<1>5. CASE WriteGraph(p)
  <2>1. /\ proc[p].pc = "graph" /\ graph' = [graph EXCEPT ![x] = proc[p].chunks]
        /\ p \in Workers => /\ proc'[p].pc = "start" /\ proc'[p].doc = x /\ proc'[p].file = proc[p].file
        /\ p \notin Workers => proc'[p].pc \in {"compare", "idle"}
    BY <1>5, WriteGraphEffect
  <2> HIDE DEF x
  <2>2. ASSUME NEW d \in Contents, Sound(d)
        PROVE  /\ graph[d] = chunks[d] => graph'[d] = chunks[d]
               /\ d = x => graph'[d] = chunks[d] /\ Held(d)
    <3>1. Carries(p, d)
      BY <2>2 DEF Sound
    <3> QED
      BY <1>1, <2>1, <2>2, <3>1 DEF TypeInv, StoreOK, Carries, Minds, x
  <2>3. \A q \in Indexers, d \in Contents :
            /\ Minds(proc'[q], d) => Minds(proc[q], d)
            /\ Minds(proc[q], d) => Minds(proc'[q], d) \/ (q = p /\ q \notin Workers /\ d = x)
    BY <1>1, <2>1 DEF Only, Minds, x
  <2>4. ASSUME NEW d \in Contents, Sound(d) PROVE Sound(d)'
    <3>1. ASSUME NEW q \in Indexers PROVE Carries(q, d)'
      <4>1. CASE q = p
        BY <1>1, <1>3, <2>1, <2>2, <2>4, <4>1 DEF Carries, Minds
      <4>2. CASE q # p
        BY <1>1, <1>3, <2>2, <2>4, <4>2 DEF Sound, Carries, Only, Minds
      <4> QED
        BY <4>1, <4>2
    <3>2. Synced(d)'
      BY <1>1, <1>2, <1>3, <2>2, <2>3, <2>4 DEF Sound, Synced
    <3> QED
      BY <1>1, <1>3, <2>4, <3>1, <3>2 DEF Sound, Embeds
  <2>5. ASSUME NEW f \in Files, Cared(f, row[f].doc), Sound(row[f].doc), row[f].doc \in Contents
        PROVE  Cared(f, row[f].doc)'
    <3>1. Due(f) => Due(f)'
      BY <1>1, DueGoesOn DEF Indexes
    <3>2. \A w \in Workers : proc'[w].file = proc[w].file
      BY <1>1, <1>2, <2>1 DEF Only
    <3>3. graph[row[f].doc] = chunks[row[f].doc] => graph'[row[f].doc] = chunks[row[f].doc]
      BY <2>2, <2>5
    <3> QED
      BY <1>1, <1>2, <2>3, <2>5, <3>1, <3>2, <3>3 DEF Cared, Embeds
  <2>6. \A f \in Files : row[f] # None => row[f].doc \in Contents
    BY Known, NoneIsNothing DEF Row
  <2> QED
    BY <1>1, <2>4, <2>5, <2>6 DEF DerivedInv
<1> QED
  BY <1>4, <1>5

\* The documents and the names of the next state, one by one.
LEMMA DerivedNext ==
  ASSUME TypeInv', \A d \in Contents : d \notin dropped' => Sound(d)',
         \A f \in Files, d \in Contents :
             row'[f] # None /\ row'[f].doc = d /\ d \notin dropped' /\ f \notin interrupted' => Cared(f, d)'
  PROVE  DerivedInv'
<1>1. \A f \in Files : row'[f] # None => row'[f].doc \in Contents
  BY DEF TypeInv, StoreOK, Maybe, Row
<1>2. ASSUME NEW f \in Files, row'[f] # None, row'[f].doc \notin dropped', f \notin interrupted'
      PROVE  Cared(f, row[f].doc)'
  <2>1. PICK d \in Contents : d = row'[f].doc
    BY <1>1, <1>2
  <2>2. Cared(f, d)'
    BY <1>2, <2>1
  <2> QED
    BY <2>1, <2>2 DEF Cared, Minds, Embeds
<1> QED
  BY <1>2 DEF DerivedInv

\* p has stored new contents: their graph is p's to make, and of the documents
\* that stay nothing changes.
LEMMA CommitDerived ==
  ASSUME IInv, WorkInv, DerivedInv, NEW p \in Workers \union {Syncer}, Commit(p), ~Fails(p)
  PROVE  DerivedInv'
<1>0. PICK f, doc, prev : f = proc[p].file /\ doc = proc[p].bytes /\ prev = proc[p].prev
  OBVIOUS
<1>1. /\ TypeInv /\ Commits(p) /\ p \in Indexers
      /\ Syncer \in Indexers /\ Workers \subseteq Indexers /\ Syncer \notin Workers
  BY CommitType, NoneIsNothing DEF IInv
<1>2. /\ proc[p].pc = "commit" /\ f \in Files /\ doc \in Contents /\ prev \in Row \union {None}
      /\ Indexed(p, doc) /\ UNCHANGED <<job, embedder, owed, interrupted>>
      /\ dropped' = IF prev = None THEN dropped ELSE dropped \union {prev.doc}
  BY <1>0, <1>1, CommitEffect
<1>3. /\ OneName /\ Versions(f) /\ Stored(f, doc, prev)
      /\ prev # None => /\ prev.version \in DOMAIN history[f]
                        /\ Clean(f) => history[f][prev.version] = prev.doc
  BY <1>0, <1>1, CommitFacts
<1>4. /\ row' = [g \in Files |-> IF g = f THEN [doc |-> doc, version |-> NextVersion(prev)] ELSE Kept(prev)[g]]
      /\ \A g \in Files : Kept(prev)[g] # None => Kept(prev)[g] = row[g] /\ row[g].doc # doc
      /\ \A g \in Files : Kept(prev)[g] # row[g] => prev # None /\ g \in Holder(prev.doc) /\ Kept(prev)[g] = None
      /\ row[f] # None => prev # None /\ f \in Holder(prev.doc) /\ row[f].doc # doc
  BY <1>1, <1>2, <1>3, StoredFacts
<1>5. /\ Only(p)
      /\ p = Syncer => /\ proc'[p].pc = "compare"
                       /\ sync'.changed = sync.changed \union {doc} /\ sync'.graphs = sync.graphs \union {doc}
      /\ p # Syncer => /\ proc'[p].pc = "chunks" /\ proc'[p].doc = doc
                       /\ proc'[p].file = proc[p].file /\ sync' = sync
  BY <1>1, <1>2, IndexedEffect
<1>6. row'[f] # None /\ row'[f].doc = doc
  <2>1. row'[f] = [doc |-> doc, version |-> NextVersion(prev)]
    BY <1>2, <1>4
  <2>2. row'[f] \in Row
    BY <1>2, <2>1, NextVersionType DEF Row
  <2> QED
    BY <2>1, <2>2, NoneIsNothing
<1>7. prev # None => prev.doc # doc /\ prev.doc \in Contents
  BY <1>2, <1>3 DEF Stored, Row
\* A document that stays.
<1>8. ASSUME NEW d \in Contents, d \notin dropped', d # doc
      PROVE  /\ d \notin dropped /\ (Held(d)' <=> Held(d))
             /\ chunks'[d] = chunks[d] /\ graph'[d] = graph[d] /\ embedding'[d] = embedding[d]
  <2>1. d \notin dropped /\ (prev # None => d # prev.doc)
    BY <1>2, <1>8
  <2>2. \A g \in Files : row[g] # None /\ row[g].doc = d => row'[g] = row[g]
    BY <1>2, <1>4, <2>1 DEF Holder
  <2>3. \A g \in Files : row'[g] # None /\ row'[g].doc = d => row[g] = row'[g]
    BY <1>2, <1>4, <1>6, <1>8
  <2>4. Held(d)' <=> Held(d)
    BY <2>2, <2>3 DEF Held, Holder
  <2>5. chunks'[d] = chunks[d] /\ graph'[d] = graph[d] /\ embedding'[d] = embedding[d]
    <3>1. /\ chunks' = [c \in Contents |-> IF c = doc THEN proc[p].text
                                          ELSE IF prev # None /\ c = prev.doc THEN None ELSE chunks[c]]
          /\ graph' = IF prev = None THEN graph ELSE [graph EXCEPT ![prev.doc] = None]
          /\ embedding' = IF prev = None THEN embedding ELSE [embedding EXCEPT ![prev.doc] = None]
      BY <1>0, <1>1, CommitEffect
    <3> QED
      BY <1>8, <2>1, <3>1 DEF TypeInv, StoreOK
  <2> QED
    BY <2>1, <2>4, <2>5
<1>9. ASSUME NEW d \in Contents, d \notin dropped', d # doc PROVE Sound(d)'
  <2>1. Sound(d)
    BY <1>8, <1>9 DEF DerivedInv
  <2>2. \A q \in Indexers : /\ Minds(proc'[q], d) => q # p
                            /\ q # p => proc'[q] = proc[q]
    BY <1>1, <1>5, <1>9 DEF Minds, Only
  <2>3. \A q \in Indexers : Carries(q, d)'
    BY <1>8, <1>9, <2>1, <2>2 DEF Sound, Carries
  <2>4. ~Minds(proc[p], d)
    BY <1>2 DEF Minds
  <2>5. Synced(d)'
    BY <1>1, <1>5, <1>8, <1>9, <2>1, <2>2, <2>4 DEF Sound, Synced
  <2> QED
    BY <1>2, <1>8, <1>9, <2>1, <2>3, <2>5 DEF Sound, Embeds
<1>10. doc \notin dropped' => Sound(doc)'
  <2> SUFFICES ASSUME doc \notin dropped' PROVE Sound(doc)'
    OBVIOUS
  <2>1. Sound(doc)
    BY <1>2 DEF DerivedInv
  <2>2. ~Held(doc)
    <3>1. \A g \in Files : row[g] # None => row[g].doc # doc
      BY <1>4, <1>7 DEF Holder
    <3> QED
      BY <3>1 DEF Held, Holder
  <2>3. Held(doc)'
    BY <1>2, <1>6 DEF Held, Holder
  <2>4. chunks'[doc] # None
    <3>1. chunks'[doc] = proc[p].text /\ proc[p].text \in Contents
      BY <1>0, <1>1, <1>2, CommitEffect
    <3> QED
      BY <3>1, NoneIsNothing
  <2>5. ASSUME NEW q \in Indexers PROVE Carries(q, doc)'
    <3>1. CASE q = p
      BY <1>1, <1>5, <2>3, <3>1 DEF Carries, Minds
    <3>2. CASE q # p
      BY <1>5, <2>1, <2>2, <3>2 DEF Sound, Carries, Only, Minds
    <3> QED
      BY <3>1, <3>2
  <2>6. Synced(doc)'
    BY <1>1, <1>5, <2>1, <2>2, <2>3 DEF Sound, Synced
  <2> QED
    BY <1>2, <2>1, <2>2, <2>3, <2>4, <2>5, <2>6 DEF Sound, Embeds
<1>11. ASSUME NEW g \in Files, NEW d \in Contents, row'[g] # None, row'[g].doc = d, d \notin dropped',
              g \notin interrupted'
       PROVE  Cared(g, d)'
  <2>1. CASE g = f
    <3>1. CASE p = Syncer
      BY <1>5, <1>6, <1>11, <2>1, <3>1 DEF Cared
    <3>2. CASE p # Syncer
      BY <1>0, <1>5, <1>6, <1>11, <2>1, <3>2 DEF Cared, Minds
    <3> QED
      BY <3>1, <3>2
  <2>2. CASE g # f
    <3>1. d = row[g].doc /\ row'[g] = row[g] /\ row[g] # None /\ d # doc
      BY <1>4, <1>11, <2>2
    <3>2. d \notin dropped /\ d \notin dropped' /\ chunks'[d] = chunks[d] /\ graph'[d] = graph[d] /\ embedding'[d] = embedding[d]
      BY <1>8, <1>11, <3>1
    <3>3. Cared(g, d)
      BY <1>2, <1>11, <3>1, <3>2 DEF DerivedInv
    <3>4. Due(g) => Due(g)'
      BY <1>0, <1>1, <1>2, <1>5, <2>2, DueGoesOn
    <3>5. (\E w \in Workers : proc[w].file = g /\ Minds(proc[w], d)) =>
          \E w \in Workers : proc'[w].file = g /\ Minds(proc'[w], d)
      BY <1>0, <1>1, <1>5, <2>2 DEF Only
    <3>6. sync.changed \subseteq sync'.changed
      BY <1>5
    <3> QED
      BY <1>2, <3>2, <3>3, <3>4, <3>5, <3>6 DEF Cared, Embeds
  <2> QED
    BY <2>1, <2>2
<1>12. TypeInv'
  BY <1>1, CommitType
<1> QED
  BY <1>9, <1>10, <1>11, <1>12, DerivedNext

\* A document is deleted: of the others nothing changes.
LEMMA DeleteDerived ==
  ASSUME TypeInv, DerivedInv, NEW h, NEW x \in Contents, DeleteRow(h, x),
         UNCHANGED <<job, proc, embedder, owed, interrupted>>, TypeInv',
         sync'.changed = sync.changed, sync'.graphs = sync.graphs
  PROVE  DerivedInv'
<1>1. /\ \A f \in Files : row'[f] = IF f \in Holder(x) THEN None ELSE row[f]
      /\ dropped' = dropped \union {x}
  BY DEF DeleteRow, Without
<1>2. \A d \in Contents \ {x} : chunks'[d] = chunks[d] /\ graph'[d] = graph[d] /\ embedding'[d] = embedding[d]
  BY DEF DeleteRow, Cascade, TypeInv, StoreOK
<1>3. \A d \in Contents \ {x} : Held(d)' <=> Held(d)
  BY <1>1 DEF Held, Holder
<1>4. ASSUME NEW d \in Contents \ {x}, Sound(d) PROVE Sound(d)'
  <2>1. \A p \in Indexers : Carries(p, d)'
    BY <1>2, <1>3, <1>4 DEF Sound, Carries
  <2>2. Synced(d)'
    BY <1>2, <1>3, <1>4 DEF Sound, Synced
  <2> QED
    BY <1>2, <1>3, <1>4, <2>1, <2>2 DEF Sound, Embeds
<1>5. ASSUME NEW f \in Files, NEW d \in Contents \ {x}, Cared(f, d) PROVE Cared(f, d)'
  <2>1. Due(f) => Due(f)'
    BY DEF Due
  <2> QED
    BY <1>2, <1>5, <2>1 DEF Cared, Embeds
<1>6. ASSUME NEW f \in Files, NEW d \in Contents, row'[f] # None, row'[f].doc = d, d \notin dropped',
             f \notin interrupted'
      PROVE  Cared(f, d)'
  <2>1. d = row[f].doc /\ d \in Contents \ {x} /\ row[f] # None /\ d \notin dropped
    BY <1>1, <1>6
  <2>2. Cared(f, d)
    BY <1>6, <2>1 DEF DerivedInv
  <2> QED
    BY <1>5, <2>1, <2>2
<1>7. ASSUME NEW d \in Contents, d \notin dropped' PROVE Sound(d)'
  BY <1>1, <1>4, <1>7 DEF DerivedInv
<1> QED
  BY <1>6, <1>7, DerivedNext

\* References come and go; rows, chunks and graphs stay.
LEMMA ReferencesDerived ==
  ASSUME TypeInv, DerivedInv, UNCHANGED <<row, chunks, graph, dropped, interrupted>>,
         \A d \in Contents \ dropped : Sound(d) =>
             /\ \A p \in Indexers : Carries(p, d)'
             /\ d \in owed' => Held(d)
             /\ Embeds(d)' => Held(d) /\ embedder'.chunks = chunks[d]
             /\ Synced(d)',
         \A f \in Files, d \in Contents \ dropped :
             row[f] # None /\ row[f].doc = d /\ f \notin interrupted /\ Sound(d) /\ Cared(f, d) => Cared(f, d)'
  PROVE  DerivedInv'
<1>1. \A d : Held(d)' <=> Held(d)
  BY DEF Held, Holder
<1>2. ASSUME NEW d \in Contents \ dropped, Sound(d) PROVE Sound(d)'
  BY <1>1, <1>2 DEF Sound
<1>3. \A f \in Files : row[f] # None => row[f].doc \in Contents
  BY Known, NoneIsNothing DEF Row
<1>4. ASSUME NEW f \in Files, row[f] # None, row[f].doc \notin dropped, f \notin interrupted
      PROVE  Cared(f, row[f].doc)'
  <2>1. PICK d \in Contents \ dropped : d = row[f].doc
    BY <1>3, <1>4
  <2>2. Sound(d) /\ Cared(f, d)
    BY <1>4, <2>1 DEF DerivedInv
  <2>3. Cared(f, d)'
    BY <1>4, <2>1, <2>2
  <2> QED
    BY <2>1, <2>3 DEF Cared, Minds, Embeds
<1> QED
  BY <1>2, <1>4 DEF DerivedInv

LEMMA FinishDerived ==
  ASSUME TypeInv, WorkInv, DerivedInv, NEW w \in Workers, Finish(w)
  PROVE  DerivedInv'
<1>1. /\ proc[w].pc = "start" /\ proc[w].doc \in Contents
      /\ proc'[w] = Idle /\ Only(w) /\ w \in Indexers /\ Workers \subseteq Indexers /\ Syncer # w /\ Syncer \in Indexers
      /\ \A n \in Jobs \ {proc[w].job} : job'[n] = job[n]
  BY FinishEffect, NoneIsNothing
<1>2. /\ UNCHANGED <<row, chunks, graph, embedding, dropped, interrupted, sync, embedder>>
      /\ owed' = owed \union {proc[w].doc}
  BY DEF Finish, store
<1>3. proc[w].job \in Jobs /\ job[proc[w].job].state = "busy"
  BY <1>1 DEF WorkInv, Works
<1>4. \A d : ~Minds(proc'[w], d)
  BY <1>1, IdleFields DEF Minds
<1>5. \A d : Held(d)' <=> Held(d)
  BY <1>2 DEF Held, Holder
<1>6. ASSUME NEW d \in Contents \ dropped, Sound(d)
      PROVE  /\ \A p \in Indexers : Carries(p, d)'
             /\ d \in owed' => Held(d)
             /\ Embeds(d)' => Held(d) /\ embedder'.chunks = chunks[d]
             /\ Synced(d)'
  <2>1. \A p \in Indexers : Carries(p, d)'
    BY <1>1, <1>2, <1>4, <1>5, <1>6 DEF Sound, Carries, Only, Minds
  <2>2. d \in owed' => Held(d)
    BY <1>1, <1>2, <1>6 DEF Sound, Carries, Minds
  <2>3. Synced(d)'
    BY <1>1, <1>2, <1>5, <1>6 DEF Sound, Synced, Only, Minds
  <2> QED
    BY <1>2, <1>6, <2>1, <2>2, <2>3 DEF Sound, Embeds
<1>7. ASSUME NEW f \in Files, NEW d \in Contents \ dropped, Sound(d), Cared(f, d) PROVE Cared(f, d)'
  <2>1. Due(f) => Due(f)'
    BY <1>1, <1>3 DEF Due, Indexes, Only
  <2>2. ASSUME NEW v \in Workers, proc[v].file = f, Minds(proc[v], d) PROVE Cared(f, d)'
    <3>1. CASE v = w
      BY <1>1, <1>2, <1>7, <2>2, <3>1 DEF Cared, Sound, Carries, Minds
    <3>2. CASE v # w
      BY <1>1, <2>2, <3>2 DEF Cared, Only, Minds
    <3> QED
      BY <3>1, <3>2
  <2> QED
    BY <1>2, <1>7, <2>1, <2>2 DEF Cared, Embeds
<1> QED
  BY <1>2, <1>6, <1>7, ReferencesDerived

LEMMA ReindexDerived ==
  ASSUME TypeInv, WorkInv, DerivedInv, ReindexStep
  PROVE  DerivedInv'
<1>0. Manager \in Indexers /\ Manager # Syncer /\ Manager \notin Workers /\ Syncer \in Indexers /\ Workers \subseteq Indexers
  BY NoneIsNothing
<1>1. CASE Fails(Manager) /\ (ReadChunks(Manager) \/ WriteGraph(Manager))
  BY <1>0, <1>1, FailsDerived DEF ReadChunks, WriteGraph
<1>2. ASSUME NEW x \in Contents, Sound(x) \/ x \in dropped \/ Held(x), Only(Manager),
             ~\E d : Minds(proc'[Manager], d) /\ d # x,
             Minds(proc'[Manager], x) => proc'[Manager].pc # "graph" /\ Held(x),
             owed' = owed \/ (owed' = owed \union {x} /\ (x \notin dropped => Held(x))),
             UNCHANGED <<store, job, sync, embedder, dropped, interrupted>>
      PROVE  DerivedInv'
  <2>0. UNCHANGED <<row, chunks, graph, embedding>>
    BY <1>2 DEF store
  <2>1. \A d : Held(d)' <=> Held(d)
    BY <2>0 DEF Held, Holder
  <2>2. \A p \in Indexers \ {Manager} : proc'[p] = proc[p]
    BY <1>2 DEF Only
  <2>3. ASSUME NEW d \in Contents \ dropped, Sound(d)
        PROVE  /\ \A p \in Indexers : Carries(p, d)'
               /\ d \in owed' => Held(d)
               /\ Embeds(d)' => Held(d) /\ embedder'.chunks = chunks[d]
               /\ Synced(d)'
    <3>1. ASSUME NEW p \in Indexers PROVE Carries(p, d)'
      <4>1. CASE p = Manager
        BY <1>0, <1>2, <2>1, <4>1 DEF Carries
      <4>2. CASE p # Manager
        BY <2>0, <2>1, <2>2, <2>3, <4>2 DEF Sound, Carries, Minds
      <4> QED
        BY <4>1, <4>2
    <3>2. Synced(d)'
      BY <1>0, <1>2, <2>0, <2>1, <2>2, <2>3 DEF Sound, Synced, Minds
    <3> QED
      BY <1>2, <2>0, <2>3, <3>1, <3>2 DEF Sound, Embeds
  <2>4. ASSUME NEW f \in Files, NEW d \in Contents \ dropped, Cared(f, d) PROVE Cared(f, d)'
    <3>1. \A w \in Workers : proc'[w] = proc[w]
      BY <1>0, <2>2
    <3>2. Due(f) => Due(f)'
      BY <1>2, <3>1 DEF Due, Indexes
    <3> QED
      BY <1>2, <2>0, <2>4, <3>1, <3>2 DEF Cared, Embeds, Minds
  <2> QED
    BY <1>2, <2>0, <2>3, <2>4, ReferencesDerived
<1>3. ASSUME NEW d \in Contents, ReindexGraph(d) \/ ReindexEmbedding(d) PROVE DerivedInv'
  <2>1. UNCHANGED <<store, job, sync, embedder, owed, dropped, interrupted>>
    BY <1>3 DEF ReindexGraph, ReindexEmbedding
  <2>2. /\ Held(d) /\ proc'[Manager].pc \in {"chunks", "start"} /\ proc'[Manager].doc = d /\ Only(Manager)
    BY <1>3, ReindexEffect DEF Held
  <2> QED
    BY <1>2, <2>1, <2>2 DEF Minds
<1>4. CASE StartEmbedding
  <2>1. /\ UNCHANGED <<store, job, sync, embedder, dropped, interrupted>>
        /\ owed' = owed \union {proc[Manager].doc}
    BY <1>4 DEF StartEmbedding
  <2>2. /\ proc[Manager].pc = "start" /\ proc[Manager].doc \in Contents
        /\ proc'[Manager] = Idle /\ Only(Manager)
    BY <1>4, StartEmbeddingEffect
  <2>3. PICK x \in Contents : x = proc[Manager].doc
    BY <2>2
  <2>4. x \notin dropped => Sound(x) /\ Held(x)
    BY <1>0, <2>2, <2>3 DEF DerivedInv, Sound, Carries, Minds
  <2>5. \A d : ~Minds(proc'[Manager], d)
    BY <2>2, IdleFields DEF Minds
  <2> QED
    BY <1>2, <2>1, <2>2, <2>3, <2>4, <2>5
<1> QED
  BY <1>0, <1>1, <1>3, <1>4, GraphDerived DEF ReindexStep

LEMMA EmbedDerived ==
  ASSUME TypeInv, DerivedInv, EmbedStep \/ EmbedRaises
  PROVE  DerivedInv'
<1>0. UNCHANGED <<row, chunks, graph, job, proc, sync, dropped, interrupted>>
  BY DEF EmbedStep, EmbedTake, EmbedWrite, EmbedFails, EmbedRaises, store
<1>1. ASSUME NEW d \in Contents, Sound(d)
      PROVE  (\A p \in Indexers : Carries(p, d)') /\ Synced(d)'
  BY <1>0, <1>1 DEF Sound, Carries, Synced, Minds, Held, Holder
<1>3. ASSUME \A d \in Contents \ dropped : Sound(d) =>
                 /\ d \in owed' => Held(d)
                 /\ Embeds(d)' => Held(d) /\ embedder'.chunks = chunks[d],
             \A d \in Contents \ dropped :
                 Sound(d) /\ (embedding[d] = chunks[d] \/ d \in owed \/ Embeds(d))
                     => embedding'[d] = chunks[d] \/ d \in owed' \/ Embeds(d)'
      PROVE  DerivedInv'
  <2>1. ASSUME NEW f \in Files, NEW d \in Contents \ dropped, Sound(d), Cared(f, d) PROVE Cared(f, d)'
    <3>1. Sound(d) /\ (embedding[d] = chunks[d] \/ d \in owed \/ Embeds(d))
              => embedding'[d] = chunks[d] \/ d \in owed' \/ Embeds(d)'
      BY <1>3
    <3> QED
      BY <1>0, <2>1, <3>1 DEF Cared, Due, Indexes, Minds
  <2>2. \A f \in Files, d \in Contents \ dropped :
            row[f] # None /\ row[f].doc = d /\ f \notin interrupted /\ Sound(d) /\ Cared(f, d) => Cared(f, d)'
    BY <2>1
  <2>3. \A d \in Contents \ dropped : Sound(d) =>
            /\ \A p \in Indexers : Carries(p, d)'
            /\ d \in owed' => Held(d)
            /\ Embeds(d)' => Held(d) /\ embedder'.chunks = chunks[d]
            /\ Synced(d)'
    <3>1. ASSUME NEW d \in Contents \ dropped, Sound(d)
          PROVE  /\ \A p \in Indexers : Carries(p, d)'
                 /\ d \in owed' => Held(d)
                 /\ Embeds(d)' => Held(d) /\ embedder'.chunks = chunks[d]
                 /\ Synced(d)'
      <4>1. /\ d \in owed' => Held(d)
            /\ Embeds(d)' => Held(d) /\ embedder'.chunks = chunks[d]
        BY <1>3, <3>1
      <4> QED
        BY <1>1, <3>1, <4>1
    <3> QED
      BY <3>1
  <2> QED
    BY <1>0, <2>2, <2>3, ReferencesDerived
<1>4. ASSUME NEW x \in Contents, EmbedTake(x) PROVE DerivedInv'
  <2>1. /\ embedder = None /\ x \in owed /\ owed' = owed \ {x} /\ UNCHANGED embedding
        /\ embedder'.doc = x /\ embedder'.chunks = chunks[x]
        /\ embedder' # None
    <3>1. embedder = None /\ x \in owed /\ owed' = owed \ {x} /\ UNCHANGED embedding /\ chunks[x] # None
          /\ embedder' = [doc |-> x, chunks |-> chunks[x]]
      BY <1>4 DEF EmbedTake, store
    <3>2. embedder' \in Reading
      BY <3>1, Known DEF Reading, TypeInv, StoreOK, Maybe
    <3> QED
      BY <3>1, <3>2, NoneIsNothing
  <2> QED
    BY <1>3, <2>1 DEF Sound, Embeds
<1>5. ASSUME EmbedFails, embedder # None, UNCHANGED embedding PROVE DerivedInv'
  <2>1. embedder' = None /\ owed' = owed \union {embedder.doc}
    BY <1>5 DEF EmbedFails
  <2> QED
    BY <1>3, <1>5, <2>1 DEF Sound, Embeds
<1>6. CASE /\ embedder # None /\ chunks[embedder.doc] # None
           /\ embedding' = [embedding EXCEPT ![embedder.doc] = embedder.chunks]
           /\ embedder' = None /\ UNCHANGED owed
  <2>1. \A d \in Contents : embedding'[d] = IF d = embedder.doc THEN embedder.chunks ELSE embedding[d]
    BY <1>6 DEF TypeInv, StoreOK
  <2> QED
    BY <1>3, <1>6, <2>1 DEF Sound, Embeds
<1> QED
  BY <1>4, <1>5, <1>6 DEF EmbedStep, EmbedWrite, EmbedRaises, EmbedFails, store

LEMMA IndexDerived ==
  ASSUME IInv, WorkInv, DerivedInv, NEW p \in Workers \union {Syncer}, IndexStep(p)
  PROVE  DerivedInv'
<1>0. TypeInv /\ p \in Indexers
  BY NoneIsNothing DEF IInv
<1>1. CASE Fails(p)
  <2>1. proc[p].pc # "idle"
    BY DEF IndexStep, ReadBytes, ReadText, SelectPrevious, Commit, ReadChunks, WriteGraph
  <2> QED
    BY <1>0, <1>1, <2>1, FailsDerived
<1> QED
  BY <1>0, <1>1, ReadDerived, CommitDerived, GraphDerived DEF IndexStep

LEMMA SyncDerived ==
  ASSUME IInv, WorkInv, DerivedInv, SyncStep
  PROVE  DerivedInv'
<1>0. TypeInv /\ TypeInv' /\ Syncer \in Indexers /\ Syncer \notin Workers /\ Workers \subseteq Indexers
  <2>1. [Next]_vars
    BY DEF Next
  <2> QED
    BY <2>1, StepType, NoneIsNothing DEF IInv
<1>1. ASSUME UNCHANGED <<row, chunks, graph, embedding, embedder, owed, dropped, interrupted, job>>,
             sync'.changed = sync.changed, sync'.graphs = sync.graphs, Only(Syncer), Apart(Syncer)
      PROVE  DerivedInv'
  <2>1. \A f \in Files : Due(f) => Due(f)'
    BY <1>0, <1>1, DueGoesOn
  <2>2. \A p \in Indexers : Apart(p)
    BY <1>1 DEF Apart, Only
  <2> QED
    BY <1>0, <1>1, <2>1, <2>2, OutsideDerived
<1>2. CASE SyncList
  <2>1. UNCHANGED <<row, chunks, graph, embedding, embedder, owed, dropped, interrupted, job, proc>>
    BY <1>2 DEF SyncList, store
  <2> QED
    BY <1>0, <1>1, <1>2, <2>1, SyncListEffect DEF Only, Apart
<1>3. CASE SyncScan
  <2>1. UNCHANGED <<row, chunks, graph, embedding, embedder, owed, dropped, interrupted, job>>
    BY <1>3 DEF SyncScan, store
  <2>2. /\ sync.state = "listed" /\ sync'.changed = sync.changed /\ sync'.graphs = sync.graphs
        /\ proc'[Syncer].pc = "compare" /\ Only(Syncer)
    BY <1>0, <1>3, SyncScanEffect
  <2>3. Apart(Syncer)
    BY <2>2 DEF Apart, WorkInv
  <2> QED
    BY <1>1, <2>1, <2>2, <2>3
<1>4. ASSUME NEW f \in Files, SyncCompare(f) PROVE DerivedInv'
  <2>1. CASE Fails(Syncer)
    BY <1>0, <1>4, <2>1, FailsDerived DEF SyncCompare
  <2>2. CASE ~Fails(Syncer)
    BY <1>0, <1>1, <1>4, <2>2, SyncCompareEffect DEF Apart, store
  <2> QED
    BY <2>1, <2>2
<1>5. ASSUME NEW f \in Files, SyncDelete(f) PROVE DerivedInv'
  <2>1. UNCHANGED <<job, proc, embedder, owed, interrupted>>
    BY <1>5 DEF SyncDelete
  <2> QED
    BY <1>0, <1>5, <2>1, SyncDeleteEffect, DeleteDerived
<1>6. ASSUME NEW x \in Contents, SyncGraph(x) PROVE DerivedInv'
  <2>1. UNCHANGED <<row, chunks, graph, embedding, embedder, owed, dropped, interrupted, job>>
    BY <1>6 DEF SyncGraph, store
  <2>2. /\ proc[Syncer].pc = "compare" /\ x \in sync.graphs /\ Only(Syncer)
        /\ sync'.changed = sync.changed /\ sync'.graphs = sync.graphs \ {x}
        /\ proc'[Syncer].pc = "chunks" /\ proc'[Syncer].doc = x
    BY <1>0, <1>6, SyncGraphEffect
  <2>3. \A d : Held(d)' <=> Held(d)
    BY <2>1 DEF Held, Holder
  <2>4. ASSUME NEW d \in Contents \ dropped, Sound(d)
        PROVE  /\ \A p \in Indexers : Carries(p, d)'
               /\ d \in owed' => Held(d)
               /\ Embeds(d)' => Held(d) /\ embedder'.chunks = chunks[d]
               /\ Synced(d)'
    <3>1. ASSUME NEW p \in Indexers PROVE Carries(p, d)'
      <4>1. CASE p = Syncer
        BY <1>0, <2>2, <2>3, <2>4, <4>1 DEF Carries, Minds, Sound, Synced
      <4>2. CASE p # Syncer
        BY <2>1, <2>2, <2>3, <2>4, <4>2 DEF Carries, Minds, Sound, Only
      <4> QED
        BY <4>1, <4>2
    <3>2. Synced(d)'
      BY <1>0, <2>1, <2>2, <2>3, <2>4 DEF Sound, Synced, Minds
    <3> QED
      BY <2>1, <2>4, <3>1, <3>2 DEF Sound, Embeds
  <2>5. ASSUME NEW f \in Files, NEW d \in Contents \ dropped, Cared(f, d) PROVE Cared(f, d)'
    <3>1. \A w \in Workers : proc'[w] = proc[w]
      BY <1>0, <2>2 DEF Only
    <3>2. Due(f) => Due(f)'
      BY <2>1, <3>1 DEF Due, Indexes
    <3> QED
      BY <2>1, <2>2, <2>5, <3>1, <3>2 DEF Cared, Embeds, Minds
  <2> QED
    BY <1>0, <2>1, <2>4, <2>5, ReferencesDerived
<1>7. CASE SyncFinish
  <2>1. /\ UNCHANGED <<row, chunks, graph, embedding, embedder, dropped, interrupted, job>>
        /\ owed' = owed \union sync.changed
    BY <1>7 DEF SyncFinish, store
  <2>2. /\ proc[Syncer].pc = "compare" /\ sync.graphs = {} /\ Only(Syncer)
        /\ sync'.changed = {} /\ sync'.graphs = {} /\ proc'[Syncer] = Idle
    BY <1>0, <1>7, SyncFinishEffect
  <2>3. \A d : Held(d)' <=> Held(d)
    BY <2>1 DEF Held, Holder
  <2>4. ASSUME NEW d \in Contents \ dropped, Sound(d)
        PROVE  /\ \A p \in Indexers : Carries(p, d)'
               /\ d \in owed' => Held(d)
               /\ Embeds(d)' => Held(d) /\ embedder'.chunks = chunks[d]
               /\ Synced(d)'
    <3>1. ASSUME NEW p \in Indexers PROVE Carries(p, d)'
      <4>1. CASE p = Syncer
        BY <2>2, <4>1, IdleFields DEF Carries, Minds
      <4>2. CASE p # Syncer
        BY <2>1, <2>2, <2>3, <2>4, <4>2 DEF Carries, Minds, Sound, Only
      <4> QED
        BY <4>1, <4>2
    <3>2. d \in owed' => Held(d)
      BY <2>1, <2>4 DEF Sound, Synced
    <3>3. Synced(d)'
      BY <2>2 DEF Synced
    <3> QED
      BY <2>1, <2>4, <3>1, <3>2, <3>3 DEF Sound, Embeds
  <2>5. ASSUME NEW f \in Files, NEW d \in Contents \ dropped, Sound(d), Cared(f, d) PROVE Cared(f, d)'
    <3>1. \A w \in Workers : proc'[w] = proc[w]
      BY <1>0, <2>2 DEF Only
    <3>2. Due(f) => Due(f)'
      BY <2>1, <3>1 DEF Due, Indexes
    <3>3. d \in sync.changed => graph[d] = chunks[d] /\ d \in owed'
      BY <2>1, <2>2, <2>5 DEF Sound, Synced, Minds
    <3> QED
      BY <2>1, <2>2, <2>5, <3>1, <3>2, <3>3 DEF Cared, Embeds, Minds
  <2> QED
    BY <1>0, <2>1, <2>4, <2>5, ReferencesDerived
<1> QED
  BY <1>2, <1>3, <1>4, <1>5, <1>6, <1>7, IndexDerived DEF SyncStep

LEMMA StepDerived ==
  ASSUME IInv, WorkInv, DerivedInv, [Next]_vars
  PROVE  DerivedInv'
<1>0. TypeInv /\ TypeInv' /\ Workers \subseteq Indexers
  BY StepType, NoneIsNothing DEF IInv
<1>1. ASSUME UNCHANGED <<row, chunks, graph, embedding, embedder, owed, dropped, interrupted, proc, sync>>,
             \A n \in Jobs : job[n].state = "queued" => job'[n] = job[n]
      PROVE  DerivedInv'
  <2>1. \A f \in Files : Due(f) => Due(f)'
    BY <1>1 DEF Due, Indexes
  <2>2. \A p \in Indexers : Apart(p)
    BY <1>1 DEF Apart
  <2> QED
    BY <1>0, <1>1, <2>1, <2>2, OutsideDerived
<1>2. CASE ApiStep
  <2>1. ASSUME NEW h \in ApiHosts, NEW f \in Files, NEW c \in Contents, Upload(h, f, c) PROVE DerivedInv'
    <3>1. UNCHANGED <<row, chunks, graph, embedding, embedder, owed, dropped, interrupted, proc, sync>>
      BY <2>1 DEF Upload
    <3>2. \A n \in Jobs : job[n].state = "queued" => job'[n] = job[n]
      BY <1>0, <2>1, UploadEffect
    <3> QED
      BY <1>1, <3>1, <3>2
  <2>2. ASSUME NEW h \in ApiHosts, NEW d \in Contents, Delete(h, d) PROVE DerivedInv'
    <3>1. DeleteRow(h, d) /\ UNCHANGED <<job, proc, embedder, owed, interrupted, sync>>
      BY <2>2 DEF Delete
    <3> QED
      BY <1>0, <3>1, DeleteDerived
  <2>3. ASSUME NEW h \in Hosts, NEW f \in Files, NEW c \in Foreign, ChangeFile(h, f, c) PROVE DerivedInv'
    <3>1. UNCHANGED <<row, chunks, graph, embedding, embedder, owed, dropped, interrupted, proc, sync, job>>
      BY <2>3 DEF ChangeFile
    <3> QED
      BY <1>1, <3>1
  <2>4. ASSUME NEW h \in Hosts, NEW f \in Files, Unlink(h, f) \/ UnlinkLost(h, f) PROVE DerivedInv'
    <3>1. UNCHANGED <<row, chunks, graph, embedding, embedder, owed, dropped, interrupted, proc, sync, job>>
      BY <2>4 DEF Unlink, UnlinkLost, store
    <3> QED
      BY <1>1, <3>1
  <2> QED
    BY <1>2, <2>1, <2>2, <2>3, <2>4 DEF ApiStep
<1>3. ASSUME NEW w \in Workers, IngestStep(w) PROVE DerivedInv'
  <2>1. ASSUME NEW n \in Jobs, Take(w, n) PROVE DerivedInv'
    <3>1. UNCHANGED <<row, chunks, graph, embedding, embedder, owed, dropped, interrupted, sync>>
      BY <2>1 DEF Take, store
    <3>2. /\ proc[w].pc = "idle" /\ proc'[w].pc \in {"fetch", "bytes"} /\ proc'[w].file = job[n].file /\ Only(w)
          /\ job'[n].file = job[n].file /\ \A k \in Jobs \ {n} : job'[k] = job[k]
      BY <1>0, <2>1, TakeEffect
    <3>3. \A p \in Indexers : Apart(p)
      BY <3>2 DEF Apart, Only
    <3>4. ASSUME NEW f \in Files, Due(f) PROVE Due(f)'
      <4>1. CASE f = job[n].file
        BY <3>2, <4>1 DEF Due, Indexes
      <4>2. CASE f # job[n].file
        BY <1>0, <3>2, <3>4, <4>2 DEF Due, Indexes, Only
      <4> QED
        BY <4>1, <4>2
    <3> QED
      BY <1>0, <3>1, <3>3, <3>4, OutsideDerived
  <2>2. CASE Fetch(w)
    <3>1. UNCHANGED <<row, chunks, graph, embedding, embedder, owed, dropped, interrupted, sync, job>>
      BY <2>2 DEF Fetch
    <3>2. /\ proc[w].pc = "fetch" /\ proc'[w].pc = "bytes" /\ proc'[w].file = proc[w].file /\ Only(w)
      BY <1>0, <2>2, FetchEffect
    <3>3. \A p \in Indexers : Apart(p)
      BY <3>2 DEF Apart, Only
    <3>4. ASSUME NEW f \in Files, Due(f) PROVE Due(f)'
      BY <1>0, <3>1, <3>2, <3>4, DueGoesOn DEF Indexes
    <3> QED
      BY <1>0, <3>1, <3>3, <3>4, OutsideDerived
  <2> QED
    BY <1>0, <1>3, <2>1, <2>2, FinishDerived, IndexDerived DEF IngestStep
<1>4. ASSUME NEW p \in Indexers, Raises(p) PROVE DerivedInv'
  BY <1>0, <1>4, FailsDerived DEF Raises
<1>5. CASE UNCHANGED vars
  BY <1>1, <1>5 DEF vars, store
<1> QED
  BY <1>0, <1>2, <1>3, <1>4, <1>5, SyncDerived, ReindexDerived, EmbedDerived DEF Next

-----------------------------------------------------------------------------
(***************************************************************************)
(* The theorems.                                                            *)
(***************************************************************************)
\* In every reachable state an indexer holds what it has read, the versions of
\* a name follow one another, and a transaction's row was the name's once.
THEOREM Invariance == Spec => []IInv
<1>1. ASSUME Init PROVE IInv
  <2>1. /\ \A f \in Files : row[f] = None /\ history[f] = <<>> /\ DOMAIN history[f] = {}
        /\ \A p \in Indexers : proc[p].pc = "idle"
    BY <1>1, IdleIsOK DEF Init
  <2>2. CatalogInv
    BY <2>1 DEF CatalogInv, OneName, Versions, WasRow
  <2> QED
    BY <1>1, <2>2, InitType DEF IInv
<1>2. ASSUME IInv, [Next]_vars PROVE IInv'
  <2>1. TypeInv /\ TypeInv'
    BY <1>2, StepType DEF IInv
  <2>2. CatalogInv'
    BY <1>2, <2>1, StepKinds, QuietCatalog, DeletesCatalog, CommitsCatalog
  <2> QED
    BY <2>1, <2>2 DEF IInv
<1> QED
  BY <1>1, <1>2, PTL DEF Spec

\* Every variable has its type (TypeOK).
THEOREM TypeCorrect == Spec => []TypeOK
<1>1. IInv => TypeOK
  BY DEF IInv, TypeInv, StoreOK, HistoryOK, ProcsOK, JobsOK, SyncOK, RestOK, TypeOK
<1> QED
  BY <1>1, Invariance, PTL

\* document_versions has an entry for every version a name came to, and of a
\* clean name the entry of its version is the document it holds.
THEOREM HistoryComplete == Spec => []HistoryIsComplete
<1>1. ASSUME IInv PROVE HistoryIsComplete
  <2> SUFFICES ASSUME NEW f \in Files, row[f] # None
               PROVE  /\ 1..row[f].version \subseteq DOMAIN history[f]
                      /\ (f \notin removed /\ IsInjective(history[f])) => history[f][row[f].version] = row[f].doc
    BY DEF HistoryIsComplete
  <2>1. Versions(f)
    BY <1>1 DEF IInv, CatalogInv
  <2> QED
    BY <2>1 DEF Versions, Clean
<1> QED
  BY <1>1, Invariance, PTL

\* Whatever runs side by side, the rows change as DocumentCatalog says: a commit
\* is its Store, the delete of a held document its Remove, and all else changes
\* no row.
THEOREM ImplementsCatalog == Spec => CatalogSpec
<1>1. ASSUME Init PROVE Catalog!Init
  BY <1>1 DEF Init, Catalog!Init
<1>2. ASSUME IInv, NEW d \in Contents, Deletes(d), Holder(d) # {} PROVE Catalog!Next
  <2>1. PICK f \in Files : f \in Holder(d)
    BY <1>2, HolderFiles
  <2>2. Holder(d) = {f}
    <3>1. ASSUME NEW g \in Holder(d) PROVE g = f
      BY <1>2, <2>1, <3>1 DEF IInv, CatalogInv, OneName, Holder
    <3> QED
      BY <2>1, <3>1
  <2>3. row \in [Files -> Maybe(Row)]
    BY <1>2 DEF IInv, TypeInv, StoreOK
  <2>4. row' = [row EXCEPT ![f] = None]
    BY <1>2, <2>2, <2>3 DEF Deletes, Without
  <2>5. Catalog!Remove(f)
    BY <1>2, <2>1, <2>2, <2>4 DEF Catalog!Remove, Deletes, Holder
  <2> QED
    BY <2>5 DEF Catalog!Next
<1>3. ASSUME IInv, NEW p \in Indexers, Commits(p) PROVE Catalog!Next
  <2> DEFINE f == proc[p].file
             doc == proc[p].bytes
             prev == proc[p].prev
             kept == Kept(prev)
             version == NextVersion(prev)
             losers == {g \in Files \ {f} : kept[g] # row[g]}
  <2>1. /\ f \in Files /\ doc \in Contents /\ prev \in Row \union {None}
        /\ TypeInv /\ OneName /\ Versions(f) /\ Stored(f, doc, prev)
        /\ prev # None => /\ prev.version \in DOMAIN history[f]
                          /\ Clean(f) => history[f][prev.version] = prev.doc
    BY <1>3, CommitFacts
  <2>2. /\ row' = [g \in Files |-> IF g = f THEN [doc |-> doc, version |-> version] ELSE kept[g]]
        /\ \A g \in Files : kept[g] # None => kept[g] = row[g] /\ row[g].doc # doc
        /\ \A g \in Files : kept[g] # row[g] => prev # None /\ g \in Holder(prev.doc) /\ kept[g] = None
        /\ row[f] # None => prev # None /\ f \in Holder(prev.doc) /\ row[f].doc # doc
        /\ Clean(f) => IF row[f] = None THEN prev = None ELSE version = row[f].version + 1
    BY <2>1, StoredFacts
  <2>3. /\ history' = [history EXCEPT ![f] = Recorded(@, version, doc)]
        /\ removed' = removed \union losers
    BY <2>1 DEF Stored
  <2>4. version \in Nat \ {0} /\ (prev # None => version = prev.version + 1) /\ (prev = None => version = 1)
    BY <2>1, NextVersionType DEF NextVersion
  <2> HIDE DEF f, doc, prev, kept, version
  <2>5. version \in Catalog!NextVersions(f)
    <3>1. prev # None => version \in Catalog!Following(f)
      BY <2>1, <2>4 DEF Catalog!Following
    <3>2. Catalog!Straight(f) => Clean(f)
      BY DEF Catalog!Straight, Clean, IsInjective
    <3> QED
      BY <2>2, <2>4, <3>1, <3>2 DEF Catalog!NextVersions
  <2>6. \A g \in Files \ (losers \union {f}) : row[g] # None => row[g].doc # doc
    BY <2>2
  <2>7. \A g, h \in losers : g = h /\ row[g] # None
    BY <2>1, <2>2 DEF OneName, Holder
  <2>8. losers # {} => row[f] = None
    BY <2>1, <2>2 DEF OneName, Holder
  <2>9. row' = [g \in Files |-> IF g = f THEN [doc |-> doc, version |-> version]
                                ELSE IF g \in losers THEN None ELSE row[g]]
    BY <2>2
  <2>10. history' = [history EXCEPT ![f] = Catalog!Recorded(@, version, doc)]
    BY <2>3 DEF Recorded, Catalog!Recorded
  <2>11. losers \in SUBSET (Files \ {f})
    OBVIOUS
  <2> HIDE DEF losers
  <2>12. Catalog!Store(f, doc)
    BY <2>2, <2>3, <2>5, <2>6, <2>7, <2>8, <2>9, <2>10, <2>11 DEF Catalog!Store
  <2> QED
    BY <2>1, <2>12 DEF Catalog!Next
<1>4. ASSUME IInv, [Next]_vars PROVE [Catalog!Next]_(Catalog!vars)
  <2>1. CASE Quiet
    BY <2>1 DEF Quiet, Catalog!vars
  <2>2. ASSUME NEW d \in Contents, Deletes(d), Holder(d) = {} PROVE UNCHANGED Catalog!vars
    <3>1. row' = row
      BY <1>4, <2>2 DEF Deletes, Without, IInv, TypeInv, StoreOK
    <3> QED
      BY <2>2, <3>1 DEF Deletes, Catalog!vars
  <2> QED
    BY <1>2, <1>3, <1>4, <2>1, <2>2, StepKinds DEF IInv
<1> QED
  BY <1>1, <1>4, Invariance, PTL DEF Spec, CatalogSpec, Catalog!Spec

\* Indexers hold what they work on: a busy worker a busy job that is its own, and
\* an indexer bytes only between the read of its file and its transaction.
THEOREM WorkInvariance == Spec => []WorkInv
<1>1. ASSUME Init PROVE WorkInv
  <2>1. \A p \in Indexers : proc[p] = Idle
    BY <1>1 DEF Init
  <2>2. Syncer \in Indexers /\ Workers \subseteq Indexers
    BY NoneIsNothing
  <2> QED
    BY <2>1, <2>2, IdleFields DEF WorkInv, Works
<1>2. ASSUME IInv, WorkInv, [Next]_vars PROVE WorkInv'
  BY <1>2, StepWork DEF IInv
<1> QED
  BY <1>1, <1>2, Invariance, PTL DEF Spec

\* Of a document that was never deleted or replaced, whoever writes a graph or
\* vectors writes those of its chunks, and somebody is left who will.
THEOREM DerivedInvariance == Spec => []DerivedInv
<1>1. ASSUME Init PROVE DerivedInv
  <2>1. /\ \A p \in Indexers : proc[p] = Idle
        /\ \A f \in Files : row[f] = None
        /\ embedder = None /\ owed = {} /\ sync.graphs = {} /\ sync.changed = {}
    BY <1>1 DEF Init, NoSync
  <2>2. ASSUME NEW d \in Contents PROVE Sound(d)
    BY <2>1, IdleFields DEF Sound, Carries, Synced, Embeds, Minds, Held, Holder
  <2> QED
    BY <2>1, <2>2 DEF DerivedInv
<1>2. ASSUME IInv, WorkInv, DerivedInv, [Next]_vars PROVE DerivedInv'
  BY <1>2, StepDerived
<1> QED
  BY <1>1, <1>2, Invariance, WorkInvariance, PTL DEF Spec

\* A document has the graph and the vectors of its chunks, or they are owed: by a
\* job, the sync, or the queue of embeddings.
THEOREM GraphsAndVectorsFollow == Spec => []DerivedOrOwed
<1>1. ASSUME IInv, WorkInv, DerivedInv PROVE DerivedOrOwed
  <2> SUFFICES ASSUME NEW f \in Files, row[f] # None,
                      f \notin interrupted, row[f].doc \notin dropped,
                      ~(row[f].doc \in sync.changed),
                      \A n \in Jobs : job[n].file = f => job[n].state = "done"
               PROVE  /\ graph[row[f].doc] = chunks[row[f].doc]
                      /\ \/ embedding[row[f].doc] = chunks[row[f].doc]
                         \/ row[f].doc \in owed
                         \/ embedder # None /\ embedder.doc = row[f].doc
    BY DEF DerivedOrOwed
  <2>1. Cared(f, row[f].doc)
    BY <1>1 DEF DerivedInv
  <2>2. ASSUME NEW w \in Workers, proc[w].pc # "idle", proc[w].file = f PROVE FALSE
    BY <1>1, <2>2 DEF WorkInv, Works
  <2>3. ~Due(f)
    BY <2>2 DEF Due, Indexes
  <2>4. ~\E w \in Workers : proc[w].file = f /\ Minds(proc[w], row[f].doc)
    BY <2>2 DEF Minds
  <2> QED
    BY <2>1, <2>3, <2>4 DEF Cared, Embeds
<1> QED
  BY <1>1, Invariance, WorkInvariance, DerivedInvariance, PTL

\* While nothing on one directory is changed, deleted or fails, no file goes, what a
\* file holds will be read, is being stored, or is in its row, and a torn text belongs
\* to contents that the file has left.
THEOREM FollowInvariance == Spec => []FollowInv
<1>1. ASSUME Init PROVE FollowInv
  <2>1. /\ \A p \in Indexers : proc[p] = Idle
        /\ \A f \in Files : row[f] = None /\ sync.known[f] = None
        /\ unlink = {} /\ sync.gone = {} /\ sync.todo = {}
        /\ \A n \in Jobs : job[n].state = "none" /\ job[n].file = None
    BY <1>1 DEF Init, NoSync
  <2>2. Calm
    BY <2>1, IdleFields DEF Calm, Indexes
  <2>3. ASSUME OneDirectory PROVE \A f \in Files : files[f] = None
    BY <1>1, <2>3, OneDirectoryFiles DEF Init, files
  <2>4. ASSUME OneDirectory PROVE Following /\ TextInv
    BY <2>1, <2>3, <2>4, IdleFields DEF Following, TextInv, Untorn, Reads
  <2> QED
    BY <2>2, <2>4 DEF FollowInv
<1>2. ASSUME IInv, WorkInv, FollowInv, [Next]_vars PROVE FollowInv'
  BY <1>2, StepFollows
<1> QED
  BY <1>1, <1>2, Invariance, WorkInvariance, PTL DEF Spec

\* When the jobs of a name are done, its row holds what its file holds, with the
\* text of it (IndexFollowsFile).
THEOREM RowsFollowFiles == Spec => []IndexFollowsFile
<1>1. ASSUME IInv, WorkInv, FollowInv PROVE IndexFollowsFile
  <2> SUFFICES ASSUME OneDirectory, events = 0, NEW h \in Hosts, NEW f \in Files \ raced, JobsDone(f)
               PROVE  IF row[f] = None THEN files[f] = None
                      ELSE row[f].doc = files[f] /\ (NeverReturned(f) => chunks[row[f].doc] = row[f].doc)
    BY OneDirectoryFiles DEF IndexFollowsFile, files
  <2>1. Calm /\ (files[f] # None => Followed(f)) /\ TextInv
    BY <1>1 DEF FollowInv, Following
  <2>2. ASSUME NEW w \in Workers, proc[w].pc # "idle", proc[w].file = f PROVE FALSE
    BY <1>1, <2>2 DEF WorkInv, Works, JobsDone
  <2>3. ASSUME NEW w \in Workers, Reads(proc[w], f) PROVE FALSE
    BY <1>1, <2>2, <2>3, NoneIsNothing DEF WorkInv, Reads
  <2>4. CASE files[f] = None
    BY <2>1, <2>4 DEF Calm
  <2>5. CASE files[f] # None
    <3>1. ASSUME NEW n \in Jobs, job[n].file = f, NEW w \in Workers, proc[w].pc = "bytes", proc[w].job = n
          PROVE  FALSE
      BY <1>1, <2>2, <3>1 DEF WorkInv, Works
    <3>2. ~\E n \in Jobs : /\ job[n].file = f
                         /\ \/ job[n].state = "queued"
                            \/ \E w \in Workers : proc[w].pc = "bytes" /\ proc[w].job = n
      BY <3>1 DEF JobsDone
    <3>3. row[f] # None /\ row[f].doc = files[f]
      BY <2>1, <2>3, <2>5, <3>2 DEF Followed
    <3>4. NeverReturned(f) => chunks[row[f].doc] = row[f].doc
      BY <2>1, <3>3 DEF TextInv, Untorn
    <3> QED
      BY <3>3, <3>4
  <2> QED
    BY <2>4, <2>5
<1> QED
  BY <1>1, Invariance, WorkInvariance, FollowInvariance, PTL
=============================================================================
