-------------------------- MODULE Pipeline_proofs --------------------------
(***************************************************************************)
(* Proofs about Pipeline, for any sets of jobs and processes: the lemmas of *)
(* Outbox_proofs and JobQueue_proofs carry over to the composition, since   *)
(* each of its steps is a step of each component or leaves it alone, and    *)
(* together they show that no job is ever without a carrier and, without    *)
(* faults, that it is sent once and done once.                              *)
(***************************************************************************)
EXTENDS Pipeline, TLAPS

OP == INSTANCE Outbox_proofs WITH Changes <- {}
QP == INSTANCE JobQueue_proofs WITH MaxSends <- MaxOutages + 1

\* What one transaction writes stays together: a job has an outbox row.
RowsTogether == \A j \in Jobs : status[j] # "absent" => event[j] # "absent"

PInv ==
    /\ OP!IInv /\ OP!DebtBounded
    /\ QP!IInv /\ QP!KnownJobs /\ QP!CInv
    /\ RowsTogether

-----------------------------------------------------------------------------
\* The constants satisfy the assumptions of both components.
LEMMA OutboxAssumed == OP!OutboxAssumption
  BY PipelineAssumption DEF OP!OutboxAssumption, OP!Events, OP!IsFiniteSet, IsFiniteSet, Jobs

LEMMA JobQueueAssumed == QP!JobQueueAssumption
  BY PipelineAssumption
     DEF QP!JobQueueAssumption, QP!Jobs, QP!Workers, Jobs, Workers

LEMMA SameJobs == QP!Jobs = Jobs /\ QP!Workers = Workers /\ OP!Events = Jobs
  BY DEF QP!Jobs, QP!Workers, Jobs, Workers, OP!Events

\* The actions of the outbox, one by one.
LEMMA OutboxActions ==
  /\ \A j \in Jobs :
        /\ O!Insert(j) => OP!Insert(j)
        /\ O!AbandonedLockExpires(j) => OP!AbandonedLockExpires(j)
        /\ O!SlowLockExpires(j) => OP!SlowLockExpires(j)
  /\ \A p \in Publishers :
        /\ O!Claim(p) => OP!Claim(p)
        /\ O!MarkPublished(p) => OP!MarkPublished(p)
        /\ O!MarkFailed(p) => OP!MarkFailed(p)
        /\ O!MarkRaises(p) => OP!MarkRaises(p)
        /\ O!Crash(p) => OP!Crash(p)
  /\ \A p \in Publishers, j \in Jobs :
        /\ O!Send(p, j) => OP!Send(p, j)
        /\ O!SendFails(p, j) => OP!SendFails(p, j)
        /\ O!SendUnconfirmed(p, j) => OP!SendUnconfirmed(p, j)
<1> USE DEF O!Events, OP!Events, O!Holders, OP!Holders, O!Outage, OP!Outage,
            O!NextEvent, OP!NextEvent, O!rows, OP!rows
<1>1. ASSUME NEW j \in Jobs
      PROVE  /\ O!Insert(j) => OP!Insert(j)
             /\ O!AbandonedLockExpires(j) => OP!AbandonedLockExpires(j)
             /\ O!SlowLockExpires(j) => OP!SlowLockExpires(j)
  BY DEF O!Insert, OP!Insert, O!AbandonedLockExpires, OP!AbandonedLockExpires,
         O!SlowLockExpires, OP!SlowLockExpires
<1>2. ASSUME NEW p \in Publishers PROVE O!Claim(p) => OP!Claim(p)
  BY DEF O!Claim, OP!Claim, O!Claimable, OP!Claimable, O!Cardinality, OP!Cardinality
<1>3. ASSUME NEW p \in Publishers
      PROVE  /\ O!MarkPublished(p) => OP!MarkPublished(p)
             /\ O!MarkFailed(p) => OP!MarkFailed(p)
             /\ O!MarkRaises(p) => OP!MarkRaises(p)
             /\ O!Crash(p) => OP!Crash(p)
  BY DEF O!MarkPublished, OP!MarkPublished, O!MarkFailed, OP!MarkFailed,
         O!MarkRaises, OP!MarkRaises, O!Crash, OP!Crash, O!Polling, OP!Polling
<1>4. ASSUME NEW p \in Publishers, NEW j \in Jobs
      PROVE  /\ O!Send(p, j) => OP!Send(p, j)
             /\ O!SendFails(p, j) => OP!SendFails(p, j)
             /\ O!SendUnconfirmed(p, j) => OP!SendUnconfirmed(p, j)
  BY DEF O!Send, OP!Send, O!SendFails, OP!SendFails, O!SendUnconfirmed, OP!SendUnconfirmed
<1>5. QED
  BY <1>1, <1>2, <1>3, <1>4

\* The actions of the job queue that belong to no worker.
LEMMA QueueActions ==
  /\ \A j \in Jobs : Q!Create(j) => QP!Create(j)
  /\ \A j \in Jobs : Q!Enqueue(j) => QP!Enqueue(j)
  /\ \A m \in Q!Message : m \in QP!Message /\ (Q!RetryExpires(m) => QP!RetryExpires(m))
  BY DEF Q!Create, QP!Create, Q!Enqueue, QP!Enqueue, Q!RetryExpires, QP!RetryExpires,
         Q!Put, QP!Put, Q!Take, QP!Take, Q!Message, QP!Message, Q!Jobs, QP!Jobs,
         Q!queues, QP!queues

\* The actions of a worker.
LEMMA WorkerActions ==
  ASSUME NEW w \in Workers
  PROVE  /\ Q!Deliver(w) => QP!Deliver(w)
         /\ Q!GetJob(w) => QP!GetJob(w)
         /\ Q!ReadJob(w) => QP!ReadJob(w)
         /\ Q!WriteJob(w) => QP!WriteJob(w)
         /\ Q!Embed(w) => QP!Embed(w)
         /\ Q!WorkRaises(w) => QP!WorkRaises(w)
         /\ Q!Reroute(w) => QP!Reroute(w)
         /\ Q!Ack(w) => QP!Ack(w)
         /\ Q!ChannelClosed(w) => QP!ChannelClosed(w)
         /\ Q!Crash(w) => QP!Crash(w)
         /\ Q!Disconnect(w) => QP!Disconnect(w)
         /\ Q!DatabaseError(w) => QP!DatabaseError(w)
         /\ \A e \in EmbedJobs :
               /\ Q!StartEmbedding(w, e) => QP!StartEmbedding(w, e)
               /\ Q!StartEmbeddingRaises(w, e) => QP!StartEmbeddingRaises(w, e)
<1> USE DEF Q!queues, QP!queues, Q!Goto, QP!Goto, Q!Aim, QP!Aim, Q!Idle, QP!Idle,
            Q!Fault, QP!Fault, Q!Save, QP!Save, Q!Put, QP!Put, Q!Take, QP!Take,
            Q!Held, QP!Held, Q!Return, QP!Return
<1>1. Q!Deliver(w) => QP!Deliver(w)
  BY DEF Q!Deliver, QP!Deliver, Q!Message, QP!Message, Q!Jobs, QP!Jobs, Q!Serves, QP!Serves
<1>2. /\ Q!GetJob(w) => QP!GetJob(w)
      /\ Q!Embed(w) => QP!Embed(w)
      /\ Q!WorkRaises(w) => QP!WorkRaises(w)
      /\ Q!Ack(w) => QP!Ack(w)
      /\ Q!ChannelClosed(w) => QP!ChannelClosed(w)
  BY DEF Q!GetJob, QP!GetJob, Q!Embed, QP!Embed, Q!WorkRaises, QP!WorkRaises,
         Q!Ack, QP!Ack, Q!ChannelClosed, QP!ChannelClosed
<1>3. Q!ReadJob(w) => QP!ReadJob(w)
  BY DEF Q!ReadJob, QP!ReadJob, Q!MayBecome, QP!MayBecome, Q!Allowed, QP!Allowed
<1>4. Q!WriteJob(w) => QP!WriteJob(w)
  BY DEF Q!WriteJob, QP!WriteJob
<1>5. Q!Reroute(w) => QP!Reroute(w)
  BY DEF Q!Reroute, QP!Reroute
<1>6. /\ Q!Crash(w) => QP!Crash(w)
      /\ Q!Disconnect(w) => QP!Disconnect(w)
  BY DEF Q!Crash, QP!Crash, Q!Disconnect, QP!Disconnect
<1>7. Q!DatabaseError(w) => QP!DatabaseError(w)
  BY DEF Q!DatabaseError, QP!DatabaseError
<1>8. ASSUME NEW e \in EmbedJobs
      PROVE  /\ Q!StartEmbedding(w, e) => QP!StartEmbedding(w, e)
             /\ Q!StartEmbeddingRaises(w, e) => QP!StartEmbeddingRaises(w, e)
  BY DEF Q!StartEmbedding, QP!StartEmbedding, Q!StartEmbeddingRaises, QP!StartEmbeddingRaises
<1>9. QED
  BY <1>1, <1>2, <1>3, <1>4, <1>5, <1>6, <1>7, <1>8

-----------------------------------------------------------------------------
\* Every step of the pipeline is a step of the outbox or leaves it alone.
LEMMA OutboxStep == [Next]_vars => [OP!Next]_(OP!vars)
<1> SUFFICES ASSUME [Next]_vars PROVE [OP!Next]_(OP!vars)
  OBVIOUS
<1>1. ASSUME NEW j \in Jobs, O!Insert(j) PROVE OP!Next
  BY <1>1, OutboxActions, SameJobs DEF OP!Next
<1>2. ASSUME NEW p \in Publishers,
             O!Claim(p) \/ O!MarkPublished(p) \/ O!MarkFailed(p) \/ \E j \in Jobs : O!Send(p, j)
      PROVE  OP!Next
  BY <1>2, OutboxActions DEF OP!Next, OP!PublisherStep
<1>3. ASSUME \/ \E p \in Publishers, j \in Jobs : O!SendFails(p, j) \/ O!SendUnconfirmed(p, j)
             \/ \E p \in Publishers : O!MarkRaises(p) \/ O!Crash(p)
             \/ \E j \in Jobs : O!SlowLockExpires(j)
      PROVE  OP!Next
  BY <1>3, OutboxActions, SameJobs DEF OP!Next, OP!Fault
<1>4. ASSUME NEW j \in Jobs, O!AbandonedLockExpires(j) PROVE OP!Next
  BY <1>4, OutboxActions, SameJobs DEF OP!Next
<1>5. ASSUME UNCHANGED outboxVars, UNCHANGED sent PROVE UNCHANGED OP!vars
  BY <1>5 DEF outboxVars, OP!vars
<1>6. ASSUME NEW w \in Workers, WorkerStep(w) \/ WorkerFault(w)
      PROVE  UNCHANGED outboxVars /\ UNCHANGED sent
  BY <1>6 DEF WorkerStep, WorkerFault, Q!Deliver, Q!GetJob, Q!ReadJob, Q!WriteJob, Q!Embed,
              Q!WorkRaises, Q!Reroute, Q!Ack, Q!ChannelClosed, Q!Crash, Q!Disconnect,
              Q!DatabaseError
<1>7. ASSUME NEW m \in Q!Message, RetryExpires(m)
      PROVE  UNCHANGED outboxVars /\ UNCHANGED sent
  BY <1>7 DEF RetryExpires, Q!RetryExpires
<1>8. CASE UNCHANGED vars
  BY <1>8, <1>5 DEF vars, outboxVars
<1>9. IngestJobs \subseteq Jobs /\ EmbedJobs \subseteq Jobs
  BY DEF Jobs
<1>10. QED
  BY <1>1, <1>2, <1>3, <1>4, <1>5, <1>6, <1>7, <1>8, <1>9
     DEF Next, Publishing, PublisherStep, OutboxFault, Working, SubmitJob, Publish,
         PublishUnconfirmed, AbandonedLockExpires, StartEmbedding, StartEmbeddingRaises

\* Every step of the pipeline is a step of the job queue or leaves it alone.
LEMMA QueueStep == [Next]_vars => [QP!Next]_(QP!vars)
<1> SUFFICES ASSUME [Next]_vars PROVE [QP!Next]_(QP!vars)
  OBVIOUS
<1>1. ASSUME NEW j \in Jobs, Q!Create(j) \/ Q!Enqueue(j) PROVE QP!Next
  BY <1>1, QueueActions, SameJobs DEF QP!Next
<1>2. ASSUME NEW m \in Q!Message, Q!RetryExpires(m) PROVE QP!Next
  BY <1>2, QueueActions DEF QP!Next
<1>3. ASSUME NEW w \in Workers,
             \/ Q!Deliver(w) \/ Q!GetJob(w) \/ Q!ReadJob(w) \/ Q!WriteJob(w)
             \/ Q!Embed(w) \/ Q!WorkRaises(w) \/ Q!Reroute(w) \/ Q!Ack(w)
             \/ Q!ChannelClosed(w)
             \/ \E e \in EmbedJobs : Q!StartEmbedding(w, e)
      PROVE  QP!Next
  <2>1. QP!WorkerStep(w)
    BY <1>3, WorkerActions DEF QP!WorkerStep
  <2>2. QED
    BY <2>1, SameJobs DEF QP!Next
<1>4. ASSUME NEW w \in Workers,
             \/ Q!Crash(w) \/ Q!Disconnect(w) \/ Q!DatabaseError(w)
             \/ \E e \in EmbedJobs : Q!StartEmbeddingRaises(w, e)
      PROVE  QP!Next
  <2>1. QP!WorkerFault(w)
    BY <1>4, WorkerActions DEF QP!WorkerFault
  <2>2. QED
    BY <2>1, SameJobs DEF QP!Next
<1>5. ASSUME UNCHANGED queueVars, UNCHANGED sent PROVE UNCHANGED QP!vars
  BY <1>5 DEF queueVars, QP!vars, QP!queues
<1>6. ASSUME NEW p \in Publishers, PublisherStep(p)
      PROVE  UNCHANGED queueVars /\ UNCHANGED sent
  BY <1>6 DEF PublisherStep, O!Claim, O!MarkPublished, O!MarkFailed
<1>7. ASSUME OutboxFault PROVE UNCHANGED queueVars /\ UNCHANGED sent
  BY <1>7 DEF OutboxFault, O!SendFails, O!MarkRaises, O!Crash, O!SlowLockExpires
<1>8. ASSUME NEW j \in Jobs, AbandonedLockExpires(j)
      PROVE  UNCHANGED queueVars /\ UNCHANGED sent
  BY <1>8 DEF AbandonedLockExpires, O!AbandonedLockExpires
<1>9. CASE UNCHANGED vars
  BY <1>9, <1>5 DEF vars, queueVars
<1>10. IngestJobs \subseteq Jobs
  BY DEF Jobs
<1>11. QED
  BY <1>1, <1>2, <1>3, <1>4, <1>5, <1>6, <1>7, <1>8, <1>9, <1>10
     DEF Next, Publishing, Working, WorkerStep, WorkerFault, SubmitJob, Publish,
         PublishUnconfirmed, RetryExpires, StartEmbedding, StartEmbeddingRaises

-----------------------------------------------------------------------------
\* The pipeline starts where its components start.
LEMMA InitComponents == Init => OP!Init /\ QP!Init
<1>1. Init => OP!Init
  BY DEF Init, O!Init, OP!Init, O!Polling, OP!Polling, O!Events, OP!Events
<1>2. Init => QP!Init
  BY DEF Init, Q!Init, QP!Init, Q!Empty, QP!Empty, Q!Message, QP!Message, Q!Idle, QP!Idle,
         Q!Jobs, QP!Jobs, Q!Workers, QP!Workers
<1>3. QED
  BY <1>1, <1>2

\* The composition behaves, in the variables of each component, as the component
\* alone: neither sees a step it does not know from the other.
THEOREM ImplementsComponents ==
  Spec => /\ OP!Init /\ [][OP!Next]_(OP!vars)
          /\ QP!Init /\ [][QP!Next]_(QP!vars)
  BY InitComponents, OutboxStep, QueueStep, PTL DEF Spec

\* Initially there are no rows.
LEMMA InitInvariant == Init => PInv
<1> SUFFICES ASSUME Init PROVE PInv
  OBVIOUS
<1>1. OP!Init
  BY InitComponents
<1>2. QP!Init
  BY InitComponents
<1>3. OP!IInv /\ OP!DebtBounded
  BY <1>1, OutboxAssumed, OP!InitInvariant, OP!InitDebt
<1>4. QP!IInv /\ QP!KnownJobs /\ QP!CInv
  BY <1>2, JobQueueAssumed, QP!InitInvariant, QP!InitKnown, QP!InitClean
<1>5. RowsTogether
  BY <1>2, SameJobs DEF QP!Init, RowsTogether
<1>6. QED
  BY <1>3, <1>4, <1>5 DEF PInv

\* A row of a job appears only together with its outbox row, which stays.
LEMMA StepRowsTogether == PInv /\ [Next]_vars => RowsTogether'
<1> SUFFICES ASSUME PInv, [Next]_vars, NEW j \in Jobs, status'[j] # "absent"
             PROVE  event'[j] # "absent"
  BY DEF RowsTogether
<1>1. event[j] # "absent" => event'[j] # "absent"
  BY OutboxStep, OutboxAssumed, SameJobs, OP!EventsStay DEF PInv
<1>2. status[j] # "absent" => event'[j] # "absent"
  BY <1>1 DEF PInv, RowsTogether
<1>3. ASSUME NEW k \in Jobs, O!Insert(k), status' = [status EXCEPT ![k] = "queued"]
      PROVE  event'[j] # "absent"
  <2>1. event \in [Jobs -> {"absent", "pending", "published"}]
    BY SameJobs DEF PInv, OP!IInv, OP!TypeOK
  <2>2. CASE k = j
    BY <1>3, <2>1, <2>2 DEF O!Insert
  <2>3. CASE k # j
    BY <1>2, <1>3, <2>3
  <2>4. QED
    BY <2>2, <2>3
<1>4. CASE UNCHANGED status
  BY <1>2, <1>4
<1>5. ASSUME NEW w \in Workers, QP!Save(w), worker[w].pc = "write"
      PROVE  event'[j] # "absent"
  <2>1. status[j] # "absent"
    BY <1>5, JobQueueAssumed, SameJobs, QP!SaveCreatesNothing DEF PInv, QP!IInv
  <2>2. QED
    BY <1>2, <2>1
<1>6. ASSUME NEW w \in Workers, WorkerStep(w) \/ WorkerFault(w)
      PROVE  event'[j] # "absent"
  <2>1. UNCHANGED status \/ (Q!Save(w) /\ worker[w].pc = "write")
    BY <1>6 DEF WorkerStep, WorkerFault, Q!Deliver, Q!GetJob, Q!ReadJob, Q!WriteJob, Q!Embed,
                Q!WorkRaises, Q!Reroute, Q!Ack, Q!ChannelClosed, Q!Crash, Q!Disconnect,
                Q!DatabaseError
  <2>2. Q!Save(w) => QP!Save(w)
    BY DEF Q!Save, QP!Save
  <2>3. QED
    BY <1>4, <1>5, <2>1, <2>2
<1>7. ASSUME NEW k \in IngestJobs, SubmitJob(k) PROVE event'[j] # "absent"
  BY <1>3, <1>7 DEF SubmitJob, Q!Create, Jobs
<1>8. ASSUME NEW w \in Workers, NEW e \in EmbedJobs,
             StartEmbedding(w, e) \/ StartEmbeddingRaises(w, e)
      PROVE  event'[j] # "absent"
  BY <1>3, <1>8 DEF StartEmbedding, StartEmbeddingRaises, Q!StartEmbedding,
                    Q!StartEmbeddingRaises, Jobs
<1>9. ASSUME \/ \E p \in Publishers : PublisherStep(p)
             \/ \E p \in Publishers, k \in Jobs : Publish(p, k) \/ PublishUnconfirmed(p, k)
             \/ OutboxFault
             \/ \E k \in Jobs : AbandonedLockExpires(k)
             \/ \E m \in Q!Message : RetryExpires(m)
             \/ UNCHANGED vars
      PROVE  UNCHANGED status
  BY <1>9 DEF PublisherStep, Publish, PublishUnconfirmed, OutboxFault, AbandonedLockExpires,
              RetryExpires, Q!RetryExpires, Q!Enqueue, queueVars, vars
<1>10. QED
  BY <1>4, <1>6, <1>7, <1>8, <1>9 DEF Next, Publishing, Working

\* Every step keeps the invariant.
LEMMA StepInvariant == PInv /\ [Next]_vars => PInv'
<1> SUFFICES ASSUME PInv, [Next]_vars PROVE PInv'
  OBVIOUS
<1>1. OP!IInv' /\ OP!DebtBounded'
  BY OutboxStep, OutboxAssumed, OP!StepInvariant, OP!StepDebt DEF PInv
<1>2. QP!IInv' /\ QP!KnownJobs' /\ QP!CInv'
  BY QueueStep, JobQueueAssumed, QP!StepInvariant, QP!StepKnown, QP!StepClean DEF PInv, QP!IInv
<1>3. QED
  BY <1>1, <1>2, StepRowsTogether DEF PInv

\* The inductive invariant.
THEOREM Invariant == Spec => []PInv
  BY InitInvariant, StepInvariant, PTL DEF Spec

\* From the commit that creates a job until it was completed once, the job has
\* an unpublished outbox row, a message in a queue or a worker that has not
\* acknowledged it (service.py 100-124, outbox.py 97-104, common.py 41-69).
THEOREM NoJobWithoutCarrier == Spec => []EveryJobIsCarried
<1>1. PInv => EveryJobIsCarried
  <2> SUFFICES ASSUME PInv, NEW j \in Jobs, status[j] # "absent", completions[j] = 0,
                      event[j] # "pending"
               PROVE  Q!HasCopy(j) \/ Q!Holders(j) # {}
    BY DEF EveryJobIsCarried
  <2>1. event[j] = "published"
    BY SameJobs DEF PInv, RowsTogether, OP!IInv, OP!TypeOK
  <2>2. sent[j] > 0
    BY <2>1 DEF PInv, OP!IInv, OP!PublishedWasSent
  <2>3. QP!Somewhere(j)
    BY <2>2, SameJobs DEF PInv, QP!IInv, QP!Carried
  <2>4. QP!HasCopy(j) => Q!HasCopy(j)
    BY DEF QP!HasCopy, Q!HasCopy, QP!Message, Q!Message, QP!Jobs, Q!Jobs
  <2>5. QED
    BY <2>3, <2>4 DEF QP!Somewhere, Q!Holders, QP!Workers, Q!Workers
<1>2. QED
  BY <1>1, Invariant, PTL

\* The bound on sends in the composition holds no publisher back: whoever is
\* about to publish a job's message may.
SendsAreNeverHeldBack ==
    \A p \in Publishers, j \in Jobs :
        publisher[p].pc = "route" /\ j \in publisher[p].batch => sent[j] < MaxOutages + 1

\* A publisher about to publish is one of the carriers of the job, so the debt
\* leaves room for its message: the composition adds no hidden restriction.
THEOREM BoundNeverBinds == Spec => []SendsAreNeverHeldBack
<1>1. PInv => SendsAreNeverHeldBack
  <2> SUFFICES ASSUME PInv, NEW p \in Publishers, NEW j \in Jobs,
                      publisher[p].pc = "route", j \in publisher[p].batch
               PROVE  sent[j] < MaxOutages + 1
    BY DEF SendsAreNeverHeldBack
  <2>1. sent[j] <= outages
    BY OutboxAssumed, OP!SendLeavesDebt DEF PInv
  <2>2. sent[j] \in Nat /\ outages \in 0..MaxOutages
    BY DEF PInv, OP!IInv, OP!TypeOK
  <2>3. QED
    BY <2>1, <2>2, PipelineAssumption
<1>2. QED
  BY <1>1, Invariant, PTL

\* Undisturbed, the pipeline sends one message for a job and completes it once,
\* for any number of publishers and workers and however often the work of the
\* job itself fails (outbox.py 34-56 with workers/ingest/main.py 59-70).
THEOREM ExactlyOnce == Spec => []ExactlyOnceWithoutFaults
<1>1. PInv => ExactlyOnceWithoutFaults
  <2> SUFFICES ASSUME PInv, outages = 0, faults = 0, NEW j \in Jobs
               PROVE  sent[j] <= 1 /\ completions[j] <= 1
    BY DEF ExactlyOnceWithoutFaults
  <2>1. sent[j] <= 1
    <3>1. sent[j] <= 1 + outages
      BY OutboxAssumed, OP!DebtBoundsSends DEF PInv, OP!ResendsAreFaults
    <3> QED
      BY <3>1
  <2>2. completions[j] <= 1
    BY <2>1, JobQueueAssumed, SameJobs, QP!CleanMeansOnce DEF PInv, QP!CleanRunExecutesOnce
  <2>3. QED
    BY <2>1, <2>2
<1>2. QED
  BY <1>1, Invariant, PTL

-----------------------------------------------------------------------------
\* With one worker per queue the whole pipeline keeps to what the job records
\* promise: a job recorded as completed stays so, and any other job still has
\* something that can finish it, so that what a client reads is worth waiting
\* for (service.py 100-124 and 224-264, common.py 44-69). It needs one worker:
\* with two, a late writer overwrites `completed` (the run FinalStatus).
THEOREM OneWorkerTellsTheTruth ==
  ASSUME QP!OneEach
  PROVE  Spec => []NoneIsForgotten /\ [][\A j \in Jobs :
                    status[j] = "completed" => status'[j] = "completed"]_vars
<1> DEFINE PO == PInv /\ QP!OInv
           Final == \A j \in Jobs : status[j] = "completed" => status'[j] = "completed"
<1>1. Init => PO
  BY InitInvariant, InitComponents, JobQueueAssumed, QP!InitInvariant, QP!InitOne DEF QP!OInv
<1>2. PO /\ [Next]_vars => PO'
  BY StepInvariant, QueueStep, JobQueueAssumed, QP!StepOInv
<1>3. PO => NoneIsForgotten
  <2> SUFFICES ASSUME PO, NEW j \in Jobs, status[j] \notin {"absent", "completed"}
               PROVE  event[j] = "pending" \/ Q!HasCopy(j) \/ Q!Holders(j) # {}
    BY DEF NoneIsForgotten
  <2>1. event[j] # "pending" => sent[j] > 0
    BY SameJobs DEF PInv, RowsTogether, OP!IInv, OP!TypeOK, OP!PublishedWasSent
  <2>2. sent[j] > 0 => QP!HasCopy(j) \/ QP!Holders(j) # {}
    BY JobQueueAssumed, SameJobs, QP!OneForgetsNone DEF QP!UnfinishedIsCarried
  <2>3. QP!HasCopy(j) => Q!HasCopy(j)
    BY DEF QP!HasCopy, Q!HasCopy, QP!Message, Q!Message, QP!Jobs, Q!Jobs
  <2>4. QP!Holders(j) = Q!Holders(j)
    BY DEF QP!Holders, Q!Holders, QP!Workers, Q!Workers
  <2>5. QED
    BY <2>1, <2>2, <2>3, <2>4
<1>4. PO /\ [Next]_vars => [Final]_vars
  BY QueueStep, JobQueueAssumed, SameJobs, QP!OneKeepsCompleted
<1>5. QED
  BY <1>1, <1>2, <1>3, <1>4, PTL DEF Spec
=============================================================================
