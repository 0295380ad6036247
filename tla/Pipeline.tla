------------------------------ MODULE Pipeline ------------------------------
(***************************************************************************)
(* The job pipeline end to end: Outbox and JobQueue side by side. They meet *)
(* in two places. Inserting a job and inserting its outbox row are one      *)
(* transaction (OpenSQLJobRepository.create), whether the API or the ingest *)
(* worker creates the job; and a publisher's basic_publish puts the message *)
(* into the queue the workers consume. Everything else is a step of one     *)
(* component that leaves the other alone. The two fault budgets are apart.  *)
(***************************************************************************)
EXTENDS Naturals, FiniteSets

CONSTANTS
    IngestJobs, EmbedJobs,
    IngestWorkers, EmbedWorkers, Publishers,
    NoJob, NoEvent,
    BatchSize, MaxRetries,
    MaxOutages, MaxFaults

Jobs == IngestJobs \union EmbedJobs
Workers == IngestWorkers \union EmbedWorkers

VARIABLES
    event, lock, publisher, outages,
    sent,
    status, parent, main, retry, dlq, worker, completions, faults

\* Rows of captured document changes are published without a message
\* (Outbox!RetainChange), so they are left to Outbox.tla.
O == INSTANCE Outbox WITH Changes <- {}

\* The outbox sends a job's message once and once more per outage at most
\* (Outbox!ResendsAreFaults), so this bound never holds a publisher back:
\* Pipeline_proofs!BoundNeverBinds.
Q == INSTANCE JobQueue WITH MaxSends <- MaxOutages + 1

outboxVars == <<event, lock, publisher, outages>>
queueVars == <<status, parent, main, retry, dlq, worker, completions, faults>>
vars == <<event, lock, publisher, outages, sent,
          status, parent, main, retry, dlq, worker, completions, faults>>

ASSUME PipelineAssumption ==
    /\ IngestJobs \intersect EmbedJobs = {}
    /\ IngestWorkers \intersect EmbedWorkers = {}
    /\ NoJob \notin Jobs
    /\ NoEvent \notin Jobs
    /\ IsFiniteSet(Publishers)
    /\ BatchSize \in Nat \ {0}
    /\ MaxRetries \in Nat
    /\ MaxOutages \in Nat
    /\ MaxFaults \in Nat

Init == O!Init /\ Q!Init

-----------------------------------------------------------------------------
(***************************************************************************)
(* Steps of both components.                                                *)
(***************************************************************************)
\* create: INSERT INTO pipeline_jobs and INSERT INTO outbox_events commit
\* together.
SubmitJob(j) == Q!Create(j) /\ O!Insert(j)

\* Fault for checking: the ingest worker's job is written without an outbox row.
StartEmbeddingAlone(w, e) == Q!StartEmbedding(w, e) /\ UNCHANGED outboxVars

StartEmbedding(w, e) == Q!StartEmbedding(w, e) /\ O!Insert(e)

StartEmbeddingRaises(w, e) == Q!StartEmbeddingRaises(w, e) /\ O!Insert(e)

\* The broker accepts the message a publisher sends.
Publish(p, j) == O!Send(p, j) /\ Q!Enqueue(j)

PublishUnconfirmed(p, j) == O!SendUnconfirmed(p, j) /\ Q!Enqueue(j)

(***************************************************************************)
(* Steps of one component.                                                  *)
(***************************************************************************)
PublisherStep(p) ==
    /\ \/ O!Claim(p)
       \/ O!MarkPublished(p)
       \/ O!MarkFailed(p)
    /\ UNCHANGED queueVars

OutboxFault ==
    /\ \/ \E p \in Publishers, j \in Jobs : O!SendFails(p, j)
       \/ \E p \in Publishers : O!MarkRaises(p) \/ O!Crash(p)
       \/ \E j \in Jobs : O!SlowLockExpires(j)
    /\ UNCHANGED queueVars

AbandonedLockExpires(j) == O!AbandonedLockExpires(j) /\ UNCHANGED queueVars

WorkerStep(w) ==
    /\ \/ Q!Deliver(w)
       \/ Q!GetJob(w) \/ Q!ReadJob(w) \/ Q!WriteJob(w)
       \/ Q!Embed(w) \/ Q!WorkRaises(w)
       \/ Q!Reroute(w) \/ Q!Ack(w) \/ Q!ChannelClosed(w)
    /\ UNCHANGED outboxVars

WorkerFault(w) ==
    /\ Q!Crash(w) \/ Q!Disconnect(w) \/ Q!DatabaseError(w)
    /\ UNCHANGED outboxVars

RetryExpires(m) == Q!RetryExpires(m) /\ UNCHANGED outboxVars

-----------------------------------------------------------------------------
Publishing(p) == PublisherStep(p) \/ \E j \in Jobs : Publish(p, j)

Working(w) == WorkerStep(w) \/ \E e \in EmbedJobs : StartEmbedding(w, e)

Next ==
    \/ \E j \in IngestJobs : SubmitJob(j)
    \/ \E p \in Publishers : Publishing(p)
    \/ \E p \in Publishers, j \in Jobs : PublishUnconfirmed(p, j)
    \/ OutboxFault
    \/ \E j \in Jobs : AbandonedLockExpires(j)
    \/ \E m \in Q!Message : RetryExpires(m)
    \/ \E w \in Workers : Working(w) \/ WorkerFault(w)
    \/ \E w \in Workers, e \in EmbedJobs : StartEmbeddingRaises(w, e)

Fairness ==
    /\ \A p \in Publishers : WF_vars(Publishing(p))
    /\ WF_vars(\E j \in Jobs : AbandonedLockExpires(j))
    /\ WF_vars(\E m \in Q!Message : RetryExpires(m))
    /\ \A w \in Workers : WF_vars(Working(w))

Spec == Init /\ [][Next]_vars /\ Fairness

-----------------------------------------------------------------------------
(***************************************************************************)
(* Properties.                                                              *)
(***************************************************************************)
\* From the commit that creates a job until it was completed once, the job has
\* an unpublished outbox row, a message in a queue or a worker that has not
\* acknowledged it, through every crash on either side of the broker
\* (service.py 100-124, outbox.py 97-104, common.py 41-69).
EveryJobIsCarried ==
    \A j \in Jobs : status[j] # "absent" /\ completions[j] = 0 =>
        event[j] = "pending" \/ Q!HasCopy(j) \/ Q!Holders(j) # {}

\* While the row of a job does not say completed, the job has an unpublished
\* outbox row, a message in a queue or a worker that has not acknowledged it, so
\* that waiting for the status a client reads is not in vain. It needs one worker
\* per queue: with two, a late writer overwrites `completed` (service.py 100-124
\* and 224-264, common.py 44-69).
NoneIsForgotten ==
    \A j \in Jobs : status[j] \notin {"absent", "completed"} =>
        event[j] = "pending" \/ Q!HasCopy(j) \/ Q!Holders(j) # {}

\* Undisturbed, the at-least-once pipeline does the work of a job exactly
\* once: one message, one completion.
ExactlyOnceWithoutFaults ==
    outages = 0 /\ faults = 0 => \A j \in Jobs :
        sent[j] <= 1 /\ completions[j] <= 1

\* Every submitted job is completed or dead-lettered in the end, and so is the
\* embedding job of a completed ingest job.
JobsSettle ==
    \A j \in Jobs : status[j] # "absent" ~>
        (completions[j] > 0 \/ \E m \in Q!Message : m.job = j /\ dlq[m] > 0)

=============================================================================
