------------------------------ MODULE JobQueue ------------------------------
(***************************************************************************)
(* Pipeline jobs on their way through RabbitMQ and the ingest and embedding *)
(* workers: the pipeline_jobs rows (packages/core/pipeline/service.py), the *)
(* main, retry and dead-letter queues with the consumer loop                *)
(* (workers/common.py), and the job processors (workers/ingest/main.py,     *)
(* workers/embedding/main.py).                                              *)
(*                                                                         *)
(* PipelineService._transition reads the row in one transaction and writes  *)
(* it in another, so a transition is two actions. What a processor does to  *)
(* documents, graph and vectors is left to other modules: here the work     *)
(* succeeds or raises, and an ingest job's work creates an embedding job.   *)
(*                                                                         *)
(* Each job type has queues and workers of its own; a message names its job *)
(* and so its queue. A queue is a bag: RabbitMQ puts a message that comes   *)
(* back ahead of later ones, several consumers take turns, and nothing here *)
(* depends on the order. prefetch is 1, so a worker holds one message.      *)
(***************************************************************************)
EXTENDS Naturals, FiniteSets, JobStates

CONSTANTS
    IngestJobs,     \* index_document jobs, created by the API
    EmbedJobs,      \* embed_document jobs, created by the ingest worker
    IngestWorkers,
    EmbedWorkers,
    NoJob,          \* "no job"
    MaxRetries,     \* RABBITMQ_MAX_RETRIES
    MaxSends,       \* bound on how often the outbox sends one job's message
    MaxFaults       \* bound on crashes, lost connections and database errors

Jobs == IngestJobs \union EmbedJobs
Workers == IngestWorkers \union EmbedWorkers

ASSUME JobQueueAssumption ==
    /\ IngestJobs \intersect EmbedJobs = {}
    /\ IngestWorkers \intersect EmbedWorkers = {}
    /\ NoJob \notin Jobs
    /\ MaxRetries \in Nat
    /\ MaxSends \in Nat
    /\ MaxFaults \in Nat

VARIABLES
    status,       \* status[j]: pipeline_jobs.status, or absent
    parent,       \* parent[e]: the ingest job whose work created e (source_job_id)
    main,         \* main[m]: copies of message m that wait in its job type's queue
    retry,        \* ... that wait for the TTL of the .retry queue
    dlq,          \* ... that lie in the .dlq queue
    worker,       \* worker[w]: what the process is doing
    sent,         \* history: messages the publishers got accepted for a job
    completions,  \* history: how often a job was written completed
    faults        \* history: faults so far, capped by MaxFaults

queues == <<main, retry, dlq>>
vars == <<status, parent, main, retry, dlq, worker, sent, completions, faults>>

Serves(w) == IF w \in IngestWorkers THEN IngestJobs ELSE EmbedJobs

\* The body names the job, the x-retry-count header counts failed attempts.
Message == [job: Jobs, tries: 0..(MaxRetries + 1)]
Bag == [Message -> Nat]

\* pc: idle; get, read, write: before a SELECT of the job, before the check of
\* a transition, before its UPDATE; work: in the processor's try block; ack:
\* processed, acknowledge; reroute: an exception reached the consumer;
\* ackRouted: a copy was published, acknowledge the original.
\* goal: the status the transition at hand leads to. held: the broker still
\* counts the message as unacknowledged on this worker's channel. A message that
\* used up its retries lies in the dead-letter queue and comes to no worker.
WorkerState ==
    [pc: {"idle", "get", "read", "write", "work", "ack", "reroute", "ackRouted"},
     job: Jobs \union {NoJob},
     tries: 0..MaxRetries,
     goal: JobStatus,
     held: BOOLEAN]

Idle == [pc |-> "idle", job |-> NoJob, tries |-> 0, goal |-> "queued", held |-> FALSE]

TypeOK ==
    /\ status \in [Jobs -> JobStatus \union {"absent"}]
    /\ parent \in [EmbedJobs -> IngestJobs \union {NoJob}]
    /\ main \in Bag /\ retry \in Bag /\ dlq \in Bag
    /\ worker \in [Workers -> WorkerState]
    /\ \A w \in Workers : worker[w].pc # "idle" => worker[w].job \in Serves(w)
    /\ sent \in [Jobs -> Nat]
    /\ completions \in [Jobs -> Nat]
    /\ faults \in 0..MaxFaults

Empty == [m \in Message |-> 0]
Put(bag, m) == [bag EXCEPT ![m] = @ + 1]
Take(bag, m) == [bag EXCEPT ![m] = @ - 1]

Init ==
    /\ status = [j \in Jobs |-> "absent"]
    /\ parent = [e \in EmbedJobs |-> NoJob]
    /\ main = Empty /\ retry = Empty /\ dlq = Empty
    /\ worker = [w \in Workers |-> Idle]
    /\ sent = [j \in Jobs |-> 0]
    /\ completions = [j \in Jobs |-> 0]
    /\ faults = 0

-----------------------------------------------------------------------------
Fault ==
    /\ faults < MaxFaults
    /\ faults' = faults + 1

Held(w) == [job |-> worker[w].job, tries |-> worker[w].tries]
Goto(w, pc) == worker' = [worker EXCEPT ![w].pc = pc]
Aim(w, goal) == worker' = [worker EXCEPT ![w].pc = "read", ![w].goal = goal]

-----------------------------------------------------------------------------
(***************************************************************************)
(* The world around the workers.                                            *)
(***************************************************************************)
\* POST /v1/documents: PipelineService.start inserts the row, queued.
Create(j) ==
    /\ j \in IngestJobs
    /\ status[j] = "absent"
    /\ status' = [status EXCEPT ![j] = "queued"]
    /\ UNCHANGED <<parent, queues, worker, sent, completions, faults>>

\* RabbitMQPublisher.publish, called by the outbox publisher, which may repeat
\* itself.
Enqueue(j) ==
    /\ status[j] # "absent"
    /\ sent[j] < MaxSends
    /\ main' = Put(main, [job |-> j, tries |-> 0])
    /\ sent' = [sent EXCEPT ![j] = @ + 1]
    /\ UNCHANGED <<status, parent, retry, dlq, worker, completions, faults>>

\* The retry queue's TTL dead-letters a message back to the main queue.
RetryExpires(m) ==
    /\ retry[m] > 0
    /\ retry' = Take(retry, m)
    /\ main' = Put(main, m)
    /\ UNCHANGED <<status, parent, dlq, worker, sent, completions, faults>>

-----------------------------------------------------------------------------
(***************************************************************************)
(* A worker process.                                                        *)
(***************************************************************************)
\* The broker delivers a message to the consumer's callback.
Deliver(w) ==
    /\ worker[w].pc = "idle"
    /\ \E m \in Message :
        /\ m.job \in Serves(w)
        /\ main[m] > 0
        /\ main' = Take(main, m)
        /\ worker' = [worker EXCEPT ![w] =
                        [pc |-> "get", job |-> m.job, tries |-> m.tries,
                         goal |-> "queued", held |-> TRUE]]
    /\ UNCHANGED <<status, parent, retry, dlq, sent, completions, faults>>

\* Fault for checking: a job is declared running without asking the table.
GetJobUnchecked(w) ==
    LET s == status[worker[w].job]
    IN  /\ worker[w].pc = "get"
        /\ \/ s = "completed" /\ Goto(w, "ack")
           \/ /\ s # "completed"
              /\ worker' = [worker EXCEPT ![w].pc = "write", ![w].goal = "running"]
        /\ UNCHANGED <<status, parent, queues, sent, completions, faults>>

\* process() looks the job up: a completed one is not run again, a failed one
\* is first put back to queued, and anything else is declared running.
GetJob(w) ==
    LET s == status[worker[w].job]
    IN  /\ worker[w].pc = "get"
        /\ \/ s = "completed" /\ Goto(w, "ack")
           \/ s = "failed" /\ Aim(w, "queued")
           \/ s \in {"queued", "running"} /\ Aim(w, "running")
        /\ UNCHANGED <<status, parent, queues, sent, completions, faults>>

\* _transition, first transaction: get the row and check the table. A refused
\* transition raises PipelineStateError, which process() never catches.
ReadJob(w) ==
    LET allowed == MayBecome(status[worker[w].job], worker[w].goal)
    IN  /\ worker[w].pc = "read"
        /\ \/ allowed /\ Goto(w, "write")
           \/ ~allowed /\ Goto(w, "reroute")
        /\ UNCHANGED <<status, parent, queues, sent, completions, faults>>

\* The UPDATE ... WHERE job_id: whatever the status is by now.
Save(w) ==
    LET j == worker[w].job
        s == worker[w].goal
    IN  /\ status' = [status EXCEPT ![j] = s]
        /\ completions' = [completions EXCEPT ![j] = IF s = "completed" THEN @ + 1 ELSE @]

\* Fault for checking: a job that was written failed is acknowledged.
WriteJobSwallowed(w) ==
    /\ worker[w].pc = "write"
    /\ Save(w)
    /\ CASE worker[w].goal = "queued"  -> Aim(w, "running")
         [] worker[w].goal = "running" -> Goto(w, "work")
         [] OTHER                      -> Goto(w, "ack")
    /\ UNCHANGED <<parent, queues, sent, faults>>

\* _transition, second transaction, and where process() goes on from there. A
\* job that was written failed comes out of process() as an error.
WriteJob(w) ==
    /\ worker[w].pc = "write"
    /\ Save(w)
    /\ CASE worker[w].goal = "queued"    -> Aim(w, "running")
         [] worker[w].goal = "running"   -> Goto(w, "work")
         [] worker[w].goal = "completed" -> Goto(w, "ack")
         [] worker[w].goal = "failed"    -> Goto(w, "reroute")
    /\ UNCHANGED <<parent, queues, sent, faults>>

\* Fault for checking: the next stage is started before the indexing, which may
\* still fail.
StartEmbeddingFirst(w, e) ==
    /\ w \in IngestWorkers
    /\ worker[w].pc = "work"
    /\ status[e] = "absent"
    /\ status' = [status EXCEPT ![e] = "queued"]
    /\ parent' = [parent EXCEPT ![e] = worker[w].job]
    /\ Aim(w, "completed") \/ Aim(w, "failed")
    /\ UNCHANGED <<queues, sent, completions, faults>>

\* Indexing went through: next_stage.start inserts an embedding job, and the
\* ingest job is about to be declared completed.
StartEmbedding(w, e) ==
    /\ w \in IngestWorkers
    /\ worker[w].pc = "work"
    /\ status[e] = "absent"
    /\ status' = [status EXCEPT ![e] = "queued"]
    /\ parent' = [parent EXCEPT ![e] = worker[w].job]
    /\ Aim(w, "completed")
    /\ UNCHANGED <<queues, sent, completions, faults>>

\* Fault for checking: an ingest job, too, is completed without a next stage.
EmbedAny(w) ==
    /\ worker[w].pc = "work"
    /\ Aim(w, "completed")
    /\ UNCHANGED <<status, parent, queues, sent, completions, faults>>

\* Embedding went through.
Embed(w) ==
    /\ w \in EmbedWorkers
    /\ worker[w].pc = "work"
    /\ Aim(w, "completed")
    /\ UNCHANGED <<status, parent, queues, sent, completions, faults>>

\* The insert of the embedding job is committed and raises nevertheless: the
\* processor takes it for a failure of the work.
StartEmbeddingRaises(w, e) ==
    /\ w \in IngestWorkers
    /\ worker[w].pc = "work"
    /\ status[e] = "absent"
    /\ Fault
    /\ status' = [status EXCEPT ![e] = "queued"]
    /\ parent' = [parent EXCEPT ![e] = worker[w].job]
    /\ Aim(w, "failed")
    /\ UNCHANGED <<queues, sent, completions>>

\* Fault for checking: the exception passes by the processor.
WorkRaisesUnrecorded(w) ==
    /\ worker[w].pc = "work"
    /\ Goto(w, "reroute")
    /\ UNCHANGED <<status, parent, queues, sent, completions, faults>>

\* The work raises: the processor records the failure.
WorkRaises(w) ==
    /\ worker[w].pc = "work"
    /\ Aim(w, "failed")
    /\ UNCHANGED <<status, parent, queues, sent, completions, faults>>

\* Faults for checking: one retry too many; the attempt is not counted; a
\* message without retries left is dropped; the original is requeued as well.
RerouteOnceMore(w) ==
    LET n == worker[w].tries + 1
        m == [job |-> worker[w].job, tries |-> n]
    IN  /\ worker[w].pc = "reroute"
        /\ worker[w].held
        /\ \/ n <= MaxRetries + 1 /\ retry' = Put(retry, m) /\ UNCHANGED dlq
           \/ n > MaxRetries + 1 /\ dlq' = Put(dlq, m) /\ UNCHANGED retry
        /\ Goto(w, "ackRouted")
        /\ UNCHANGED <<status, parent, main, sent, completions, faults>>

RerouteUncounted(w) ==
    /\ worker[w].pc = "reroute"
    /\ worker[w].held
    /\ retry' = Put(retry, Held(w))
    /\ Goto(w, "ackRouted")
    /\ UNCHANGED <<status, parent, main, dlq, sent, completions, faults>>

RerouteDrops(w) ==
    LET n == worker[w].tries + 1
        m == [job |-> worker[w].job, tries |-> n]
    IN  /\ worker[w].pc = "reroute"
        /\ worker[w].held
        /\ \/ n <= MaxRetries /\ retry' = Put(retry, m)
           \/ n > MaxRetries /\ UNCHANGED retry
        /\ Goto(w, "ackRouted")
        /\ UNCHANGED <<status, parent, main, dlq, sent, completions, faults>>

RerouteRequeues(w) ==
    LET n == worker[w].tries + 1
        m == [job |-> worker[w].job, tries |-> n]
    IN  /\ worker[w].pc = "reroute"
        /\ worker[w].held
        /\ \/ n <= MaxRetries /\ retry' = Put(retry, m) /\ UNCHANGED dlq
           \/ n > MaxRetries /\ dlq' = Put(dlq, m) /\ UNCHANGED retry
        /\ main' = Put(main, Held(w))
        /\ worker' = [worker EXCEPT ![w] = Idle]
        /\ UNCHANGED <<status, parent, sent, completions, faults>>

\* The consumer's except branch publishes a copy with one more attempt to the
\* retry queue, or to the dead-letter queue when the retries are used up.
Reroute(w) ==
    LET n == worker[w].tries + 1
        m == [job |-> worker[w].job, tries |-> n]
    IN  /\ worker[w].pc = "reroute"
        /\ worker[w].held
        /\ \/ n <= MaxRetries /\ retry' = Put(retry, m) /\ UNCHANGED dlq
           \/ n > MaxRetries /\ dlq' = Put(dlq, m) /\ UNCHANGED retry
        /\ Goto(w, "ackRouted")
        /\ UNCHANGED <<status, parent, main, sent, completions, faults>>

\* basic_ack, after success or after the copy was published.
Ack(w) ==
    /\ worker[w].pc \in {"ack", "ackRouted"}
    /\ worker[w].held
    /\ worker' = [worker EXCEPT ![w] = Idle]
    /\ UNCHANGED <<status, parent, queues, sent, completions, faults>>

\* Acknowledging or publishing on a closed channel raises out of the consumer:
\* the process ends and is started again.
ChannelClosed(w) ==
    /\ worker[w].pc \in {"ack", "reroute", "ackRouted"}
    /\ ~worker[w].held
    /\ worker' = [worker EXCEPT ![w] = Idle]
    /\ UNCHANGED <<status, parent, queues, sent, completions, faults>>

-----------------------------------------------------------------------------
(***************************************************************************)
(* Faults.                                                                  *)
(***************************************************************************)
Return(w) == main' = IF worker[w].held THEN Put(main, Held(w)) ELSE main

\* The process dies; the broker returns its message to the queue unchanged.
Crash(w) ==
    /\ worker[w].pc # "idle"
    /\ Fault
    /\ Return(w)
    /\ worker' = [worker EXCEPT ![w] = Idle]
    /\ UNCHANGED <<status, parent, retry, dlq, sent, completions>>

\* The connection is lost while the callback runs, as when the processing
\* outlasts the AMQP heartbeat: the broker returns the message, and the worker
\* goes on until it next uses the channel.
Disconnect(w) ==
    /\ worker[w].held
    /\ Fault
    /\ Return(w)
    /\ worker' = [worker EXCEPT ![w].held = FALSE]
    /\ UNCHANGED <<status, parent, retry, dlq, sent, completions>>

\* A transaction on the job raises, as during a failover of the database; an
\* UPDATE may have been committed by then.
DatabaseError(w) ==
    /\ worker[w].pc \in {"get", "read", "write"}
    /\ Fault
    /\ \/ worker[w].pc = "write" /\ Save(w)
       \/ UNCHANGED <<status, completions>>
    /\ Goto(w, "reroute")
    /\ UNCHANGED <<parent, queues, sent>>

-----------------------------------------------------------------------------
WorkerStep(w) ==
    \/ Deliver(w)
    \/ GetJob(w) \/ ReadJob(w) \/ WriteJob(w)
    \/ \E e \in EmbedJobs : StartEmbedding(w, e)
    \/ Embed(w) \/ WorkRaises(w)
    \/ Reroute(w) \/ Ack(w) \/ ChannelClosed(w)

WorkerFault(w) ==
    \/ Crash(w) \/ Disconnect(w) \/ DatabaseError(w)
    \/ \E e \in EmbedJobs : StartEmbeddingRaises(w, e)

Next ==
    \/ \E j \in Jobs : Create(j) \/ Enqueue(j)
    \/ \E m \in Message : RetryExpires(m)
    \/ \E w \in Workers : WorkerStep(w) \/ WorkerFault(w)

\* The outbox sends every job's message at least once (Outbox.tla); the retry
\* queue's TTL runs; a worker that can take a step takes one, and is restarted
\* when it died. Nothing obliges a client to create a job or a fault to occur.
Fairness ==
    /\ \A j \in Jobs : WF_vars(sent[j] = 0 /\ Enqueue(j))
    /\ WF_vars(\E m \in Message : RetryExpires(m))
    /\ \A w \in Workers : WF_vars(WorkerStep(w))

Spec == Init /\ [][Next]_vars /\ Fairness

-----------------------------------------------------------------------------
(***************************************************************************)
(* Properties.                                                              *)
(***************************************************************************)
HasCopy(j) == \E m \in Message : m.job = j /\ main[m] + retry[m] + dlq[m] > 0
Holders(j) == {w \in Workers : worker[w].job = j /\ worker[w].held}
Active(j) == {w \in Holders(j) : worker[w].pc # "ackRouted"}
Children(j) == {e \in EmbedJobs : parent[e] = j}

\* A message that was published is never acknowledged away before its job was
\* completed once: until then the job is in some queue or unacknowledged in a
\* worker, through every crash, lost connection and reroute
\* (workers/common.py 44-69).
NoJobLost ==
    \A j \in Jobs : sent[j] > 0 /\ completions[j] = 0 => HasCopy(j) \/ Holders(j) # {}

\* Copies that are not about to be acknowledged: each is due to a publication
\* or to a fault; the reroute-then-acknowledge of the consumer makes none
\* (workers/common.py 60-69).
Copies(bag, j) == UNION {{<<m, n>> : n \in 1..bag[m]} : m \in {i \in Message : i.job = j}}
LiveCopies(j) ==
    Cardinality(Copies(main, j)) + Cardinality(Copies(retry, j)) + Cardinality(Copies(dlq, j))
        + Cardinality(Active(j))

CopiesAreAccountedFor ==
    \A j \in Jobs : LiveCopies(j) <= sent[j] + faults

\* An ingest job that was ever written completed has an embedding job
\* (workers/ingest/main.py 59-70).
EmbeddingFollows ==
    \A j \in IngestJobs : completions[j] > 0 => Children(j) # {}

\* Delivered once and undisturbed, a job is in the hands of one worker at a
\* time, is completed at most once and starts at most one embedding job,
\* however often its work fails and is retried.
CleanRunExecutesOnce ==
    faults = 0 => \A j \in Jobs : sent[j] <= 1 =>
        /\ completions[j] <= 1
        /\ Cardinality(Active(j)) <= 1
        /\ Cardinality(Children(j)) <= 1

\* Delivered once and undisturbed, a job whose message ends in the dead-letter
\* queue is recorded as failed (workers/ingest/main.py 67-69).
CleanDeadLettersAreFailed ==
    faults = 0 => \A m \in Message :
        dlq[m] > 0 /\ sent[m.job] <= 1 => status[m.job] = "failed"

\* "A final status cannot be changed to running or completed again": two
\* workers that read the job before either wrote it break this.
CompletedIsFinal ==
    [][\A j \in Jobs : status[j] = "completed" => status'[j] = "completed"]_vars

\* With one worker per queue: the status follows the table of PipelineService,
\* although each transition checks and writes in separate transactions.
JL == INSTANCE JobLifecycle

FollowsLifecycle == JL!Spec

\* With one worker per queue: a job whose recorded status is not completed
\* still has a message, so that something can still finish it.
UnfinishedIsCarried ==
    \A j \in Jobs : sent[j] > 0 /\ status[j] # "completed" => HasCopy(j) \/ Holders(j) # {}

\* With one worker per queue: a published job ends completed or in the
\* dead-letter queue, faults or not.
Settles ==
    \A j \in Jobs :
        sent[j] > 0 ~> (status[j] = "completed" \/ \E m \in Message : m.job = j /\ dlq[m] > 0)

\* A job that runs is eventually recorded as completed or failed: a crash or a
\* database error after the job was declared running breaks this, as running
\* has no transition to running and every redelivery is refused.
RunningIsDecided ==
    \A j \in Jobs : status[j] = "running" ~> IsFinal(status[j])

=============================================================================
