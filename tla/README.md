# TiberoDoc: a TLA+ model of the document platform

TiberoDoc is a document search service: an HTTP API and an MCP server over an
OpenSQL (PostgreSQL) database, an object store in three temperature tiers, a
RabbitMQ pipeline that indexes and embeds uploaded files, and a cache. This
directory holds TLA+ modules of the parts whose correctness depends on the
order of steps of several processes, the TLC configurations that check them on
small instances, and theorems about them checked by TLAPS. Source paths below
are relative to the repository; line numbers are those of the modelled commit.

Run a check with `tlc -workers 2 -config Outbox.cfg MCOutbox`, a proof with
`tlapm Outbox_proofs.tla`. `PROJECT.json` lists the runs, the code lines each
definition stands for, and for each property a plausible bug of the code that
breaks it (the operators marked "Fault for checking" in the modules).

## The system and its parts

| Part | State | Operations | Talks to |
|---|---|---|---|
| Transactional outbox (`packages/core/pipeline/outbox.py`, `workers/outbox.py`) | rows of `outbox_events`: `published_at`, `locked_at`; each publisher's batch in memory | claim a batch, publish, mark published, mark failed | database, RabbitMQ |
| Job records (`packages/core/pipeline/models.py`, `service.py`) | rows of `pipeline_jobs`: status, inputs | start, running, complete, fail, retry | database, outbox |
| Queues and consumer loop (`workers/common.py`, `publisher.py`, `routing.py`) | per job type a main, a retry (TTL) and a dead-letter queue | publish, deliver, acknowledge, reroute | RabbitMQ, job processors |
| Ingest, embedding, sync workers (`workers/*/main.py`) | the message and job in hand | process one job, start the next stage | job records, document store, embeddings |
| Document store (`services/api/store.py`) | documents, versions, chunks, lifecycle rows, uploaded files; without a database one JSON file | upload, index, sync, delete, search | object store, knowledge graph, embeddings |
| Embeddings, knowledge graph (`embedding_service.py`, `knowledge_graph.py`) | `chunk_embeddings`, graph rows | replace the rows of a document | database, model |
| Object storage and tiering (`object_storage.py`, `lifecycle.py`) | hot, warm, cold buckets; `storage_tier` | put, get, delete, move when due | MinIO, database |
| Document cache (`services/api/cache.py`) | Redis entries with a TTL | get, set, invalidate | API |
| Accounts, tokens, access (`services/api/auth.py`) | users, tokens, workspaces, groups, ACLs, invitations | login, refresh, invite, accept, decide access | database |
| HTTP API (`services/api/main.py`) | none of its own | one handler per route; each makes several transactions | all of the above |
| Rate limiter (`services/api/rate_limit.py`) | counters per client and window | consume | Redis or memory |
| Schema and migrations (`infra/opensql/init.sql`, `scripts/migrate.py`) | the tables, the outbox trigger, foreign keys | capture document changes | all of the above |
| Agent, dashboard, metrics, mail, observability, lineage | read-only views | report | database |
| MCP server (`services/mcp_server`) | the user and the role it started with | search, list, get a document or its graph | document store |
| Command line (`cli/src/tibero_doc`), web client (`services/web/app.js`) | the tokens of a session | log in, renew, send requests | API |
| Deployment | configuration | | |

How a document travels. `POST /v1/documents` stores the file and creates an
`index_document` job: in one transaction the job's row and an outbox row
(`service.py` 100-124). An outbox publisher claims the row, publishes the job to
the ingest queue, marks the row published. An ingest worker gets the message,
declares the job running, indexes the file, creates an `embed_document` job
(again with an outbox row), declares its own job completed and acknowledges.
The embedding worker does the same with the embedding job, without a next
stage. An exception makes the consumer publish a copy of the message to the
retry queue, whose TTL returns it, and after `RABBITMQ_MAX_RETRIES` retries to
the dead-letter queue.

What is hard. Everything between two statements: there is no transaction over
the database and the broker, none over two calls of the job service, and none
over the document store and its object store. A publisher can die or be
overtaken between publish and mark; a worker can die, lose its connection or
see the database fail over at any of its statements and its message comes
back, perhaps while it is still working; a job is checked and written in
separate transactions; a document can be reindexed, deleted, cached and moved
to another tier by processes that know nothing of each other. `PROJECT.json`
lists these hazards at the lines where they bite, with the properties that
cover them.

What makes each part correct:

- Outbox: no committed job is left without its message; duplicates only after
  faults; several publishers share the work.
- Jobs: status follows the table of transitions; a final status is decided by
  someone who did the work; a running job is decided.
- Queues: a message is lost at no step; retries are bounded and counted; what
  is given up is in the dead-letter queue and recorded as failed.
- Workers: an indexed document gets its embedding job; an undisturbed job is
  executed once.
- Document store, embeddings, graph: a name holds one document and a document has
  one name; versions and history go on whoever indexes; a document has the graph
  and the vectors of its chunks or somebody still owes them; the index follows
  the files. Without a database, no update of the JSON index is lost.
- Tiering: no object is lost, no read misses it, what is due is moved.
- Reads, cache and ACL: an answer holds only what its user could read; a stale
  cached value has a known cause; access grows by a grant, a group, a role or a new
  index only.
- Accounts: a refresh token and an invitation are used once; a session ends for a
  cause.
- Rate limiter: no client passes more than its limit in a window.

## Modules

| Module | Models | Kind |
|---|---|---|
| `Outbox.tla` | outbox rows and publisher processes | component |
| `AtLeastOnce.tla` | what the outbox promises: record, deliver (perhaps again), then confirm | abstract specification |
| `JobStates.tla` | statuses and the table of transitions | definitions |
| `JobLifecycle.tla` | what the job service promises of a status | abstract specification |
| `JobQueue.tla` | job rows, queues, consumer loop, ingest and embedding processors | component |
| `Pipeline.tla` | `Outbox` and `JobQueue` side by side | composition |
| `DocumentCatalog.tla` | what the document store promises of names, documents, versions and history | abstract specification |
| `Documents.tla` | uploads, index, delete, sync, reindexing, graph and embeddings with OpenSQL | component, with three workers |
| `Chunking.tla` | `split_text` as a recursive function | pure algorithm |
| `LocalStore.tla` | the JSON store, JSON vectors and JSON jobs, inline or published without an outbox | component |
| `DocumentReads.tla` | read and ACL handlers, roles, the MCP server, cache, search | component |
| `ObjectTiers.tla` | buckets, lifecycle rows, moves, reads | component |
| `Accounts.tla` | users, roles, invitations, tokens, a web tab and a keyring | component and its clients |
| `MC*.tla` | instances for TLC | model checking |
| `*_proofs.tla` | theorems about each component, the pipeline and the refinements | proofs |

### Outbox

`event[e]` is `absent`, `pending` (`published_at IS NULL`) or `published`;
`lock[e]` is the age class of `locked_at`: `free` (NULL), `fresh`, or `stale`
(older than the five minutes `claim_batch` compares with). A publisher's `pc`
says where `publish_once` (outbox.py 86-105) is: `poll`, `route` (at the top of
the loop), `mark` (published, not yet marked), `fail` (in the except branch).
`Claim`, `MarkPublished` and `MarkFailed` are the three database transactions,
`Send` is the publish between them; `RetainChange` is the branch for events of
the document trigger, which are marked published without a message. `attempts`,
`last_error` and `locked_by` are left out: no statement reads them. The branch
for an unsupported event type is left out too: the program produces only
`pipeline.job.created` and `document.*` events.

Faults, drawn from one budget `MaxOutages`: the publish raises before or after
the broker has the message; marking raises before or after its commit; the
process dies; the lock of a live publisher's batch goes stale. That the lock
of a vanished publisher goes stale is no fault but the passing of time. A dead
publisher is restarted and polls.

### JobQueue

`status` is the `pipeline_jobs` row, `parent` the `source_job_id` that an
embedding job's inputs carry. Queues are bags of messages, a message being its job and
its `x-retry-count`. A worker's `pc` walks through the consumer callback and
the processor: `get` (process looks the job up), `read` and `write` (the two
transactions of `_transition`, service.py 220-243, with the status aimed at in
`goal`), `work` (inside the try block), `ack`, `reroute` (an exception reached the
consumer), `ackRouted` (the copy is published, the original not acknowledged).
`held` says whether the broker still counts the message as unacknowledged on
this worker's channel: after a lost connection it does not, although the worker
goes on until it next uses the channel.

What a processor does to documents and vectors is "the work succeeds or
raises"; for an ingest job, success inserts the embedding job. The broker keeps
what it accepted (`delivery_mode=2`, durable queues) and delivers one message
at a time to a worker (`prefetch_count=1`).

`JobLifecycle` is the promise of the transition table. With one worker per
queue the two transactions of `_transition` are never interleaved with
another's and `JobQueue` implements it; with two it does not (`FinalStatus.cfg`).

### Pipeline

The composition shares `sent`. `SubmitJob` and `StartEmbedding` are joint steps
since `OpenSQLJobRepository.create` inserts the job's row and the outbox row in
one transaction; `Publish` is a joint step since it puts the message into the
queue. All other steps belong to one component. Document-change events never
reach a queue and are left to `Outbox`. `MaxSends` is `MaxOutages + 1`, which
never holds a publisher back: `BoundNeverBinds`, proved from the argument for
`ResendsAreFaults`.

### Documents and DocumentCatalog

A member of `Contents` stands for bytes, for their checksum, for the document id
made from it (store.py 376) and for the chunks cut from them. `file[h]` is the upload
directory of host `h`, `row` the `documents` row of a name (document and version; the unique
index of init.sql 141 makes it a function of the name), `history`
`document_versions`, `chunks`, `graph` and `embedding` what each was made from.
`proc[p]` walks an ingest worker, the sync worker or a manager's reindexing
through the steps of `_index_file_unlocked` (`bytes`, `text`, `select`, `commit`) and
of `KnowledgeGraphService.index_document` (`chunks`, `graph`). The bytes and the text
are two reads of the file; the previous row is read by a statement before those that
replace it, with nothing to lock it in between. A sync holds `index.lock`, but `index_upload` (363-371) takes no lock, so nothing
orders a worker and a sync on one name but the database.

Four history variables carry the exceptions of the properties: `removed` has the
names that lost a document to a delete or to another name, `dropped` the documents
that were deleted or replaced, `raced` the names whose file one indexer read while
another one had read it, `interrupted` the names whose sync failed half-way.

A host is what has an upload directory of its own, and `Home` says on which one an
indexer runs. `docker-compose.production.yml` gives API, ingest and sync containers no
common volume, so there each is a host. `Take` looks whether the worker's directory
has a file of the name, whatever it holds, and only without one `Fetch` gets the
object and writes it there. A sync works on the directory of its host. All workspaces
of a host share its directory (store.py 163), so another workspace may write or delete a file of the
same name; so may a person; and an upload that fails after it wrote its file leaves
it there. `ChangeFile` is what these three do, with `Foreign` for what they may make of a
file. `SyncList` leaves out rows that the ACL hides from the user of the job or that
lie beyond the limit, which counts as an event.

`DocumentCatalog` promises: new contents of a name get the version after that of
the document they replace; a document has one name. `Documents` implements it
with `held <- row`, `lost <- removed`. Writing it down showed where the promise has to
be weak:

- The previous row is deleted by document id (388), so the version may follow
  that of the document as the worker read it, and after a loss or a return
  to earlier contents a version is given twice; the history keeps the first. Only a
  name that lost nothing and returned to nothing (`Straight`) goes on version by
  version. An earlier form of the promise, in which a name without a document starts
  again or goes on from the last version, is refuted with five uploads and a delete,
  which the proof of the refinement asked for.
- Two workers on uploads of one name: the one that read the older contents may store
  them after the other one found the newer contents indexed already and did nothing.
  The row then holds what the file no longer holds until the next sync. This needs
  three uploads and two workers; `IndexFollowsFile` excepts `raced` names for it.
- The same contents under a second name take the row of the first name with them.
- A reindexed document loses its ACL and its visibility, and becomes open.
- A slower worker may write the graph of chunks it read before over that of a
  document that was deleted and came back.
- A sync that fails after it reindexed a document leaves it without graph and
  vectors; its retry finds the checksum unchanged. A manager's reindexing
  (`ReindexGraph`, `ReindexEmbedding`) is the only cure.
- A delete that dies before its unlink leaves a file from which the next sync
  makes the document again. A file renamed on disk makes every sync fail on the
  primary key. A sync lists documents through the ACL of the user who asked, and
  may then index a file whose document it does not see, or delete nothing of it.
- With a directory for each process a worker that has fetched a name once never fetches
  it again, and a sync deletes all documents (`LastUpload.cfg`). If
  the directories hold different contents, worker and sync replace the document of a
  name by turns for ever.
- Two reads of a file that is being replaced give the checksum of one and the text
  of the other; later syncs go by the checksum and leave it so.

### LocalStore and Chunking

Each request of the API process is walked through its handler: `write` (save_upload
truncates, then writes), `create`, `publish` or `run`, the steps under `index.lock`,
`chunks` and `embed`. `index` is the list in `index.json`, read (`Load`) and
written (`Save`) as a whole. A crash ends all requests and frees the file locks.
The pages of the instance are texts of which only the places of blanks are kept;
`Chunks` cuts them with `SplitText`, translated from `split_text`, and
`ChunksCoverText` states what a reader expects of it. A list comprehension over the
entries is `Picked`: the entries at the kept positions, in their order. Found on the way: a local
sync embeds nothing through the queue and no deletion removes vectors; a delete drops
all names of a document but only the first file; an upload that raises in an
inline job fails it, a sync leaves it `running`; a publish that fails after the
message is out answers 503 although the job will be executed.

### DocumentReads

A request's `pc` is the statement it is at: `admit` (`can_access_document`), `cache`,
`row`, `chunks`, `fill` for a document, `row`, `admit`, `versions` for its versions (which
alone reads before it asks for access), `keyword`, `vector`, `graph` for the three queries
of a search, each with a snapshot of its own (READ COMMITTED), `change` and `invalidate`
for the handlers that change. Which document is popular, and any failure of Redis, is a
free choice. A list is a search with one query.

`managing` has the users whose role is manager or owner now; `ChangeRole` is
`change_user_role` and the role that `accept_invitation` writes. A request of the API
carries the role that `authenticate` read at its beginning; a tool of the MCP server
carries the one in `server`, read when its process started (mcp_server/main.py 16).
`open`, `shown` and `excused` are history variables the properties need: what the user of
a request could read since it began, what the user of the MCP server could read since
its start, and documents whose cached value has a cause to be stale, until
the value is dropped with no reader left who could bring it back. A worker that
replaces a document invalidates nothing: that is the fourth cause of
`StaleCacheHasCause`; a deletion that dies before it invalidates counts with the failures of Redis.

### ObjectTiers

`held[k]` is the set of buckets that have the object, `tier[k]` the recorded
`storage_tier`. A run locks its rows (`FOR UPDATE SKIP LOCKED`), copies, looks, deletes
the source object by object, and commits at the end: when one of them raises, all tiers
roll back and the objects stay moved. From then on every run that reaches such a
row raises (`NoSuchKey`): `DueIsMoved` has this exception. An upload of an object that
went cold puts a hot copy and leaves the tier.

`last_accessed_at` is renewed by uploads only (store.py 355-361); no read is recorded anywhere.
What the documents say of the tiers holds one way: what from some time on is neither
uploaded nor read goes cold (`DueIsMoved`, over the steps `Accessed` that a behaviour
takes). The other way, that what was read recently stays hot, it does not: see below.

### Accounts

One record per token row, kept where somebody holds it: `profile[p]` (a browser tab's
session storage or a keyring) or a call under way. `live` holds the refresh tokens
whose rows are neither revoked nor expired. `refresh_access_token` makes three
transactions (revoke, issue, insert), `accept_invitation` and `login` two. `Die` may
end a call anywhere without an answer; `RenewalError` is an answer to a renewal that is an error
(500, 502, 429), upon which `api()` logs the tab out whatever became of the token (app.js 5). The model has what the code does and nobody may expect: only
setup gives a password, so an invited user lives by the token of his join; disabling a user
revokes access tokens and leaves refresh tokens, and nothing enables him again; an
invitation overwrites the role of a member, an owner's too; an owner may demote
himself; a renewal that ends after a logout stores its tokens again.

## Runs

| Run | Instance | What it shows |
|---|---|---|
| `Outbox.cfg` | 2 publishers, 2 job events, 1 change event, batch 2, 2 outages | No event is marked published unsent; each repeated message is paid for by a fault; without faults no event is in two hands; the outbox implements `AtLeastOnce`, liveness included. |
| `Workers.cfg` | 2 ingest workers, 1 ingest job, 2 embedding jobs, 2 sends, 1 retry, 2 faults | No published job is lost before it was completed; copies are due to sends and faults only; completed ingest jobs have embedding jobs; undisturbed jobs run once and dead letters are recorded failed. |
| `OneWorker.cfg` | 1 worker per queue, 1 job each, 2 sends, 1 retry, 1 fault | The status follows the table; an unfinished job always has a message; every published job ends completed or dead-lettered. |
| `FinalStatus.cfg` (violation) | 2 ingest workers, 1 fault | A completed job is written running again: read and write of a transition are separate transactions and the write does not compare the status. |
| `StuckRunning.cfg` (violation) | 1 worker per queue, 1 fault | A worker that dies after declaring a job running leaves the row running for ever; every redelivery is refused and the message goes to the dead-letter queue. |
| `Documents.cfg` | one directory, 2 names, 2 contents, 2 uploads, an ingest, a sync and an embedding worker, 1 event (file taken out, delete, hidden list, reindexing or fault) | Versions and history are those of the catalog; a document without its graph or vectors is owed them, but for two named exceptions; without events the index ends at what the files hold, with their text. |
| `LastUpload.cfg` (violation) | API, ingest and sync worker with a directory each, 1 name, 2 uploads, no event | A name does not keep its last upload: a sync deletes the documents that were uploaded elsewhere. |
| `LocalStore.cfg` | 2 names, 3 contents (one without text), 3 requests, crashes anywhere | No lost update of the JSON index; chunks cover the text; no job is left to nobody but by an inline sync; who had the store to himself leaves it consistent. |
| `DocumentReads.cfg` | a user who becomes a manager and ceases to be, another owner, a group, 1 document indexed twice, 2 requests | Answers hold what their users could read at some moment of the request; stale cached values have one of four causes; access grows by grants, groups, roles and reindexing only. |
| `ObjectTiers.cfg` | 2 objects, 2 overlapping runs, an uploader, a reader, 1 fault, warm after 1 day, cold after 2 | No object is lost and no read misses one; the tier is wrong for named causes only; what is no longer uploaded or read is cold in the end. |
| `Accounts.cfg` | a founder with a tab, a keyring of him and a guest, 2 calls at once | Refresh tokens and invitations are used once; a session ends for one of six causes only. |
| `Pipeline.cfg` | 1 publisher, 1 worker per queue, 1 job each, 1 outage, 1 fault | From its commit on every job is carried by a row, a message or a worker until completed, and one not recorded completed by somebody who can finish it; undisturbed it is done exactly once; it settles. |

Bounds and why they are enough. Hazards here need two publishers or two
workers on one job, and one fault, or a fault on either of them; a third adds no
new relation. A batch of two of three events has a fault between two events
of a batch, and rows left for the other publisher. One retry has both outcomes
of the limit test (retry, dead letter). Two embedding jobs let an ingest job
start its next stage twice. Two sends make a duplicate without a fault of the
worker. `MaxOutages` and `MaxFaults` bound the adversary, not the program;
`MaxSends` stands for the outbox in `JobQueue` and is derived in `Pipeline`. An
ingest worker starts no next stage once all embedding jobs of the instance are
used, and only has the failing outcome left: a bound as well.

In `Documents.cfg` two names that can come by two contents have every collision of
ids; the third process that could meet on a name is the manager. A reindexing counts
as the one event, so it does not meet a fault: the cure is seen after the fact
only as a part of `DerivedOrOwed`. One document is enough for reads, as no step of a
request looks at another one; two requests have every race of a read with a
change. One reading user is enough: of another one a request sees what he has left in the
cache, and that the same user may have left there while he was a manager.
`Documents.cfg` has one directory, in which names collide, and others who take files out
of it. That others write contents, and that directories are apart, is in the theorems,
which hold for any `Home` and `Foreign`, and the second in `LastUpload.cfg`, where one name
has all that can differ between the directories. In `Accounts.cfg` roles given are the lowest and the highest, and invitations
are for any guest.

The runs of outbox, queues, documents and local store set `CHECK_DEADLOCK FALSE`: once
all jobs are settled, or all requests made, processes only poll, which is no step
of the model. Symmetry is used where no liveness is checked.

Fairness. Publishers and consumers loop for ever and are restarted by their
supervisor (`restart: unless-stopped` in `infra/docker-compose.production.yml`), so each has weak fairness on its steps; time passes,
so abandoned locks expire and retry TTLs end. In `JobQueue` alone the first
send of a job is fair because the outbox promises it (`DeliversAtLeastOnce`);
`Pipeline` has the outbox itself instead. Clients and faults have none. In
`ObjectTiers` days pass, lifecycle runs start every day (`infra/airflow/dags`) and go on until they
commit or raise: weak fairness on `Day`, and on `Begin` and the steps of runs together, as it is enough that some run goes on; reads and uploads have none. The other
modules state safety only: their requests may die, and what must be done again
later is the queue's promise.

## Where code and documents disagree

Shown by a run:

- `docs/code-review-guide.md:301` says a final status does not change to running
  or completed: `FinalStatus.cfg`.
- `docs/data-platform-operations.md:252` says of a failover that the job becomes
  completed: `StuckRunning.cfg` has a job that stays running.
- `docs/development-guide.md:9-10` calls OpenSQL the source of truth of the documents and
  keeps their originals in the object storage: `LastUpload.cfg` has a sync that deletes
  them for want of a local file (store.py 665).

Seen in the models, without a run of their own:

- `docs/code-review-guide.md:244` says another checksum under a name raises its version.
  Where the ingest worker has a directory of its own, as in production, `Take` finds the
  file it fetched for the upload before (store.py 365), and the job ends at the equal
  checksum; `LastUploadIsHeld` is about this as well.
- `docs/development-guide.md:115` says SKIP LOCKED keeps publishers from claiming one event
  at the same time: a batch that outlasts five minutes is claimable again (outbox.py
  43-44, `Claimable`). `ClaimsDisjointWithoutFaults` is what holds.
- `docs/development-guide.md:14` says access is checked alike on all paths, MCP included. The
  tools of an MCP server go on with the role of its start (mcp_server/main.py 16), so a
  demoted manager is answered until it ends: the second half of `AnswersAreOpen`.
- `docs/data-platform-operations.md:208-210` and `docs/unstructured-data-lifecycle.md:10-12` keep
  hot what was accessed or viewed recently. The code renews `last_accessed_at` on uploads only
  (store.py 357-358), so a run moves what was read the same day: in `ObjectTiers` no read touches `age`.
- `docs/development-guide.md:167` says the web UI renews an expired access token. Of two
  requests of a tab that renew at once the loser logs the tab out, after the winner
  has renewed the session (app.js 5): a cause of `SessionsEndWithCause`.
- `docs/data-platform-operations.md:165` says three failures lead to the
  dead-letter queue; `workers/common.py:57` and `docs/development-guide.md:111` retry
  three times, so that it is the fourth failure. The model follows the code. No
  run: it is a matter of wording.

## Proofs

Every invariant, action property and refinement of safety the passing runs check is a theorem,
with the safety half of `DeliversAtLeastOnce`; those of `Documents_proofs` hold for any
directories and whatever others make of the files in them. The theorems hold for any constants that satisfy the assumption of the component
(`OutboxAssumption`, `DocumentsAssumption`, ...): any number of workers, publishers,
requests, runs, names, contents and faults, not the two or three of an instance.
The assumptions are what the instances' model values satisfy anyway: sets that are disjoint, `None`
apart from what it stands beside, naturals for bounds. Finite are the publishers
(`ResendsAreFaults` counts them) and the calls and profiles of `Accounts` (a token gets a
serial nobody holds). Each module proves an inductive invariant in two lemmas,
initially and for each step, one step per action, and derives its properties from it.

`Outbox_proofs`

- `TypeCorrect`: `Spec => []TypeOK`, which includes that a publisher polls exactly
  when its batch is empty.
- `NoUnsentPublished`: `Spec => []PublishedWasSent`. The property is not inductive:
  `MarkPublished` marks whatever the publisher holds. The inductive invariant
  adds `InHand`: what is in a batch was recorded, and what is at `mark` was sent.
  Other publishers cannot break it since rows never become absent again and
  `sent` only grows.
- `ImplementsAtLeastOnce`: the safety half of the refinement. Each action maps to
  a step of `AtLeastOnce` or to a stutter, under the same invariant.
- `ResendsNeedFaults`: `Spec => []ResendsAreFaults`. The argument counts what a row
  can still cause: one message per publisher that has it in hand and did not
  send it yet (`Carriers`), one more if it is `Open` to the next claim. Messages
  sent plus this debt never exceed one plus the faults (`DebtBounded`): a claim
  turns an open row into a carrier, a send a carrier into a message, a failure
  a carrier into an open row, and what adds to the debt is a fault.
- `DisjointClaims`: `Spec => []ClaimsDisjointWithoutFaults`. Needed besides: without
  faults every row in hand is freshly locked and nobody is in the except branch
  (`CleanBatches`).

`JobQueue_proofs`

- `TypeCorrect`: `Spec => []TypeOK`: retry counts stay within the limit, a worker only
  has jobs of its own queue in hand.
- `NoPublishedJobLost`: `Spec => []NoJobLost`. Needed besides: a row that is
  `completed` was counted (`CompletedWasCounted`), since `GetJob` acknowledges on that
  evidence; a worker at `ack` has a job that was completed
  (`AckAfterCompletion`); a worker at `ackRouted` is not the only carrier of its
  job (`Carried` speaks of the copies and of the workers that are not about to
  acknowledge), since otherwise its acknowledgement would lose the job.
- `CompletedIsEmbedded`: `Spec => []EmbeddingFollows`. Needed besides: a worker of
  the ingest queue that aims at `completed` has a job with a child
  (`AimedAfterEmbedding`), and a child's row exists (`ChildrenExist`), so that it is not
  created for another parent later.
- `CopiesAccounted`: `Spec => []CopiesAreAccountedFor`. The copies of a job are counted
  as the elements of finite sets, so that moving one between a queue and a worker
  leaves the sum; only a send and a fault add one.
- `CleanRunsExecuteOnce`, `DeadLettersAreFailed`: `Spec => []CleanRunExecutesOnce` and
  `Spec => []CleanDeadLettersAreFailed`. The invariant says of a job sent at most
  once, while nothing failed, where it is: in one queue or in one worker's hands
  (`OnePlace`), with the status that the worker's step requires (`StatusFits`), and
  with a child only from the moment its worker aims at `completed` (`ChildrenFit`).
- `UnfinishedJobsAreCarried`, `ImplementsLifecycle`, `CompletedStaysCompleted` assume
  `OneEach`, at most one worker per queue, which is how the compose files deploy
  them; `FinalStatus.cfg` shows that two break it. Then nobody writes a job's row
  between the check and the write of a transition (`WritesAllowed`), so the
  refinement of `JobLifecycle` holds, and a job that was ever completed is recorded
  so (`CompletedStays`), so that one that is not still has its message.

`Pipeline_proofs`

- `NoJobWithoutCarrier`: `Spec => []EveryJobIsCarried`. Each step of the composition is a
  step of each component or leaves it alone (`OutboxStep`, `QueueStep`), so the
  invariants of both carry over. What joins them is `RowsTogether`: a job's row
  appears only with its outbox row, and for that a worker at its UPDATE must
  have a row to update (`KnownJobs`). A job whose row is published was sent, and
  what was sent is in a queue or in hand.
- `BoundNeverBinds`: a publisher about to publish is a carrier of the debt
  argument, so its message is within `MaxSends`: the composition restricts nothing.
- `ImplementsComponents`: the pipeline is an outbox in the variables of the one and
  queues in those of the other, so that their theorems are the pipeline's as well.
- `ExactlyOnce`: `Spec => []ExactlyOnceWithoutFaults`: without faults the debt argument
  leaves one message for a job, and for such a job the queues complete once.
- `OneWorkerTellsTheTruth`, for one worker per queue: a job recorded as completed stays
  so, and one that is not is carried by its row, a message or a worker
  (`NoneIsForgotten`, which is stronger than `EveryJobIsCarried`). `PInv` and the `OInv` of
  `JobQueue_proofs` together are inductive.

`ObjectTiers_proofs`

- `ReadsAlwaysFind`: `Spec => []ReadsFind`. A read looks into the hot, the warm and the
  cold bucket in turn while runs move the object. The invariant says that the object is
  in the bucket the read looks into next or beyond it (`ReadsReach`). It is kept because a
  move goes away from hot only (`Beyond`) and the copy comes before the delete. For that the
  invariant knows where each object is by its row and the runs: in both buckets while
  it is copied, in the target after that, else in the bucket of its tier (`Where`).
- `TiersTellBuckets`: `Spec => []TierTellsBucket`, from the same invariant, and
  `ObjectsAreKept`: `Spec => ObjectsKept`, from the types: a run deletes a source only
  after it saw the target.
- `TypeCorrect`: runs hold disjoint locks, which all of this rests on.

`Accounts_proofs`

- `TokensUsedOnce`: `Spec => UsedOnce`, from `RowsLocked`: the token or invitation a
  transaction has read `FOR UPDATE` is unused until it commits, and nobody else has
  read it.
- `SessionsEndWithCauses`: `Spec => []SessionsEndWithCause`. For a tab that nothing
  endangered the invariant follows the token through a renewal (`SessionOK`): there is one
  renewal at a time, it was not answered with an error, it holds the token of the profile or its successor, and the
  user is active. `TokensApart` keeps others off: a refresh token belongs to one profile or
  to the one call that will store it.
- `TypeCorrect`: with it the foreign keys between users, members and tokens.

`DocumentReads_proofs`

- `AnswersWereOpen`: `Spec => []AnswersAreOpen`. What a request has passed the check for
  was open to its user since it began (`Opened`), at each later statement, whatever
  is revoked or deleted meanwhile. A request that goes on as a manager belongs to one
  who was it when it authenticated, so that the document it checks was open then or is gone or
  came since; a tool's answers are those of the server's start.
- `StaleCacheHasCauses`: `Spec => []StaleCacheHasCause`. Needed besides: what a reader holds on its
  way to the cache is current unless its document is excused (`IsHeld`), since it
  will cache it later.
- `AccessGrowsByGrants`: `Spec => AccessGrowsByGrant`, with roles as one of the four ways
  in. `TypeCorrect`: a document that is gone has no ACL, so that a name indexed again
  starts without one.

`Documents_proofs`

- `HistoryComplete`: `Spec => []HistoryIsComplete`. The inductive invariant `CatalogInv` says that a
  name's versions go up to that of its row, that a document has one name, and that a
  row in the hands of a transaction was a row of that name once (`WasRow`): it may be
  out of date, and the next version is computed from it.
- `ImplementsCatalog`: `Spec => CatalogSpec`. Every step leaves rows and history alone
  (`Quiet`), deletes a document, or commits one (`StepKinds`); a delete of a held document is
  the catalog's `Remove`, a commit its `Store`.
- `GraphsAndVectorsFollow`: `Spec => []DerivedOrOwed`. A worker with a document in hand has
  a busy job of its own (`WorkInv`, the theorem `WorkInvariance`). Of documents that were never
  deleted or replaced, whoever holds chunks holds those of the document, and what is
  owed, embedded or synced is a held document (`Sound`); and each held document has
  somebody left to see to it (`Cared`). The exception for dropped documents is
  needed since ids are computed from contents: a document that comes back meets workers
  of its former life.
- `RowsFollowFiles`: `Spec => []IndexFollowsFile`. It is about one directory that nobody else
  writes to (`OneDirectory`, and no `ChangeFile`), which is what a single machine has;
  `LastUpload.cfg` shows what becomes of uploads without it. While nothing was deleted or
  failed there, what a file holds will be read by a job, or has been read by one worker and
  nobody else, or is in the row and in every indexer's hands (`Followed`). The proof
  found the case of two workers that is described above: the property as it was
  stated before held in the instance of the run only. For the text `TextInv` says
  that the chunks of a document are of other contents only if the file has left
  the document's contents since they were read (`Untorn`), so that they are right
  once the file and the row agree, unless the name comes back to those contents.
- `TypeCorrect`: `Spec => []TypeOK`.

`LocalStore_proofs`

- `EntriesLeave`: `Spec => EntriesLeaveByRequest`. What the holder of the lock has loaded is
  the index still (`LockOK`), so a save changes only what its request means to change. For
  the lists of the code this needs what `Picked` returns (`NthOfMany` and the lemmas that
  follow it).
- `UnfinishedAreOwned`: `Spec => []UnfinishedIsOwned`. Inductive with where a job is by
  where its request is (`JobOK`).
- `AloneRequestsAgree`: `Spec => []AloneAgrees`. The invariant (`AloneInv`) follows a sync that is
  alone through its directory (`SyncAlone`): the names done agree, the names to do are as
  it saw them; and an upload through its chunks to their vectors.
- `ChunksCover`: `Spec => []ChunksCoverText`, for every text, chunk size and overlap. The
  provers cannot instantiate the library's induction theorems, which take a predicate;
  the induction is over a set instead: `LeastNat`, from the library's `WFMin`, gives the
  least start from which all is well, and it is 0. In the same way the function that the
  recursion of `SplitText` describes is shown to exist (`SplitExists`), without which nothing could be
  said of it. `Covers` is what each start is shown to have: chunks that begin with a
  character, lie behind the start and leave none out.
- `TypeCorrect`: `Spec => []TypeOK`: one entry per name, one holder of the lock.

Only model-checked: liveness (`DeliversAtLeastOnce` beyond its safety half, `Settles`,
`JobsSettle`, `DueIsMoved`), which is out of the prover's reach. Of the
properties that runs refute, `CompletedIsFinal` is proved for one worker per queue,
`RunningIsDecided` is a matter of liveness, and `IndexFollowsFile` is what is proved of
`LastUploadIsHeld`, for one directory.

## Not modelled

- Search ranking (`store.py` 495-576): one sequential computation over floating-point
  ranks, with no state; `DocumentReads` has its three queries.
- Extraction of entities and of text from files, and vectors: text matching, parsing
  and floating point. Two workers that upsert the same entities in different order
  may deadlock in the database, which ends one of them as a fault.
- The rate limiter: one atomic count per request. With Redis its windows are fixed
  minutes, so twice the limit fits around the turn of a minute; in memory refused
  requests count too.
- The retention plan (`main.py` 627-657): it classifies and changes nothing.
- Dashboard, metrics, mail, agent, statistics, health and lists: read-only or I/O.
  `audit` and lineage append to logs that decide nothing.
- The command line's `login` and `refresh`, which write the two tokens one after the other:
  a keyring that renews sessions of its own beside a tab is beyond TLC in one
  instance. The override `TIBERO_DOC_ACCESS_TOKEN`.
- Transient errors of S3 in `download_url`, which the code takes for absence, and a link that
  a move overtakes.
- What an upload directory of several hosts on one volume with delays would do, and the
  three replicas of the API with directories of their own in one instance: a name is
  uploaded through one of them.
- Whose contents a row holds when workspaces of one host use the same file name: the
  model has one workspace, and what the others do to its files.
- A user who is disabled, or whose token is revoked, while an MCP server runs for him:
  the server does not ask again, so it goes on answering.
- The migration runner (one transaction) and deployment files; a database failover
  appears as the fault `DatabaseError`.
- A message the broker loses before it is on disk: publisher confirms are off
  (`publisher.py` 39), and what is lost then is known to nobody.

## Plan

Done: all components above with their runs, and theorems for all safety properties.
What is left, most important first:

1. `Documents` beyond one event: a fault beside a manager's reindexing, so that the
   cure is seen together with what it cures, in an instance of its own.
2. The command line's `login` and `refresh` as clients of `Accounts`.
