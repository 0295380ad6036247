--------------------------- MODULE JobQueue_proofs ---------------------------
(***************************************************************************)
(* Proofs about JobQueue, for any sets of jobs and workers and any number   *)
(* of retries, sends and faults: type correctness, that no published job is *)
(* lost before it was completed, that an ingest job is completed only after *)
(* its embedding job was created, that an undisturbed job is done once, that*)
(* copies have causes; and for one worker per queue, that the status follows*)
(* the table of transitions and an unfinished job keeps its message.        *)
(***************************************************************************)
EXTENDS JobQueue, FiniteSetTheorems, TLAPS

\* The types, with what keeps them: only a message in the dead-letter queue has
\* used up its retries, so the count a reroute writes never exceeds
\* MaxRetries + 1. TypeOK alone is not inductive: Deliver needs this to keep a
\* worker's count in range. A worker without a message holds none of the
\* broker's.
RowsOK ==
    /\ status \in [Jobs -> JobStatus \union {"absent"}]
    /\ parent \in [EmbedJobs -> IngestJobs \union {NoJob}]
    /\ sent \in [Jobs -> Nat]
    /\ completions \in [Jobs -> Nat]
    /\ faults \in 0..MaxFaults

BagsOK ==
    /\ main \in Bag /\ retry \in Bag /\ dlq \in Bag
    /\ \A m \in Message : main[m] > 0 \/ retry[m] > 0 => m.tries <= MaxRetries

MayHold(w, s) ==
    /\ s.pc # "idle" => s.job \in Serves(w)
    /\ s.pc = "idle" => ~s.held

WorkersOK ==
    /\ worker \in [Workers -> WorkerState]
    /\ \A w \in Workers : MayHold(w, worker[w])

TypeInv == RowsOK /\ BagsOK /\ WorkersOK

\* Why no job is lost: a worker about to acknowledge for good knows of a
\* completion, and until there is one the job has a copy in a queue or with a
\* worker that has not rerouted it yet.
CompletedWasCounted == \A j \in Jobs : status[j] = "completed" => completions[j] > 0

AckAfterCompletion ==
    \A w \in Workers : worker[w].pc = "ack" => completions[worker[w].job] > 0

Somewhere(j) ==
    \/ HasCopy(j)
    \/ \E w \in Workers :
          worker[w].job = j /\ worker[w].held /\ worker[w].pc # "ackRouted"

Carried == \A j \in Jobs : sent[j] > 0 /\ completions[j] = 0 => Somewhere(j)

IInv == TypeInv /\ CompletedWasCounted /\ AckAfterCompletion /\ Carried

\* Why an embedding job follows: an ingest worker aims at completed only once
\* its job has a child, and the child's row is never created again.
ChildrenExist == \A e \in EmbedJobs : parent[e] # NoJob => status[e] # "absent"

AimedAfterEmbedding ==
    \A w \in IngestWorkers :
        worker[w].pc # "idle" /\ worker[w].goal = "completed" => Children(worker[w].job) # {}

EInv == TypeInv /\ ChildrenExist /\ AimedAfterEmbedding /\ EmbeddingFollows

-----------------------------------------------------------------------------
\* TypeInv is a type invariant.
LEMMA TypeInvTypes == TypeInv => TypeOK
  BY DEF TypeInv, RowsOK, BagsOK, WorkersOK, MayHold, TypeOK

\* A worker with something in hand holds a well-formed message, whose retries
\* are not used up.
LEMMA HeldMessage ==
  ASSUME WorkersOK, NEW w \in Workers, worker[w].pc # "idle"
  PROVE  /\ worker[w].job \in Jobs
         /\ Held(w) \in Message
         /\ Held(w).job = worker[w].job
         /\ Held(w).tries <= MaxRetries
         /\ [job |-> worker[w].job, tries |-> worker[w].tries + 1] \in Message
<1> USE JobQueueAssumption
<1>1. worker[w].job \in Jobs
  BY DEF WorkersOK, MayHold, Serves, Jobs
<1>2. worker[w].tries \in 0..MaxRetries
  BY DEF WorkersOK, MayHold, WorkerState
<1>3. QED
  BY <1>1, <1>2 DEF Held, Message

\* A worker that has nothing to do.
LEMMA IdleType == /\ Idle \in WorkerState
                  /\ Idle.pc = "idle" /\ Idle.tries = 0 /\ ~Idle.held
  BY JobQueueAssumption DEF Idle, WorkerState, JobStatus

\* The ways a worker's state changes keep WorkersOK.
LEMMA SetWorker ==
  ASSUME WorkersOK, NEW w \in Workers, NEW s \in WorkerState, MayHold(w, s),
         worker' = [worker EXCEPT ![w] = s]
  PROVE  WorkersOK'
  BY DEF WorkersOK, MayHold, Serves

LEMMA GotoWorker ==
  ASSUME WorkersOK, NEW w \in Workers, worker[w].pc # "idle",
         NEW pc \in {"get", "read", "write", "work", "ack", "reroute", "ackRouted"},
         Goto(w, pc)
  PROVE  WorkersOK'
  BY DEF Goto, WorkersOK, MayHold, Serves, WorkerState

LEMMA AimWorker ==
  ASSUME WorkersOK, NEW w \in Workers, worker[w].pc # "idle", NEW goal \in JobStatus,
         Aim(w, goal)
  PROVE  WorkersOK'
  BY DEF Aim, WorkersOK, MayHold, Serves, WorkerState

LEMMA IdleWorker ==
  ASSUME WorkersOK, NEW w \in Workers, worker' = [worker EXCEPT ![w] = Idle]
  PROVE  WorkersOK'
<1>1. MayHold(w, Idle)
  BY IdleType, JobQueueAssumption DEF MayHold
<1>2. QED
  BY <1>1, IdleType, SetWorker

\* Putting a message with retries left into the main queue.
LEMMA ReturnBags ==
  ASSUME TypeInv, NEW w \in Workers, worker[w].pc # "idle", Return(w),
         UNCHANGED <<retry, dlq>>
  PROVE  BagsOK'
<1>1. Held(w) \in Message /\ Held(w).tries <= MaxRetries
  BY HeldMessage DEF TypeInv
<1>2. QED
  BY <1>1 DEF TypeInv, BagsOK, Bag, Return, Put

\* A write of a job's status keeps the rows well-formed.
LEMMA SaveRows ==
  ASSUME TypeInv, NEW w \in Workers, worker[w].pc # "idle", Save(w),
         UNCHANGED <<parent, sent>>, faults' \in 0..MaxFaults
  PROVE  RowsOK'
<1>1. worker[w].job \in Jobs /\ worker[w].goal \in JobStatus
  BY HeldMessage DEF TypeInv, WorkersOK, WorkerState
<1>2. QED
  BY <1>1 DEF Save, TypeInv, RowsOK

\* Initially every variable has its type.
LEMMA InitType == Init => TypeInv
<1> SUFFICES ASSUME Init PROVE TypeInv
  OBVIOUS
<1>1. RowsOK /\ BagsOK
  BY JobQueueAssumption DEF Init, RowsOK, BagsOK, Bag, Empty
<1>2. WorkersOK
  BY IdleType, JobQueueAssumption DEF Init, WorkersOK, MayHold
<1>3. QED
  BY <1>1, <1>2 DEF TypeInv

\* Every step keeps the types and the retry counts in range.
LEMMA StepType == TypeInv /\ [Next]_vars => TypeInv'
<1> SUFFICES ASSUME TypeInv, [Next]_vars PROVE TypeInv'
  OBVIOUS
<1> USE JobQueueAssumption DEF TypeInv
<1>1. ASSUME NEW j \in Jobs, Create(j) PROVE TypeInv'
  BY <1>1 DEF Create, RowsOK, BagsOK, WorkersOK, MayHold, JobStatus, queues
<1>2. ASSUME NEW j \in Jobs, Enqueue(j) PROVE TypeInv'
  <2>1. [job |-> j, tries |-> 0] \in Message /\ [job |-> j, tries |-> 0].tries <= MaxRetries
    BY DEF Message
  <2>2. BagsOK'
    BY <1>2, <2>1 DEF Enqueue, BagsOK, Bag, Put, Take
  <2>3. QED
    BY <1>2, <2>2 DEF Enqueue, RowsOK, WorkersOK, MayHold
<1>3. ASSUME NEW m \in Message, RetryExpires(m) PROVE TypeInv'
  <2>1. BagsOK'
    BY <1>3 DEF RetryExpires, BagsOK, Bag, Put, Take
  <2>2. QED
    BY <1>3, <2>1 DEF RetryExpires, RowsOK, WorkersOK, MayHold
<1>4. ASSUME NEW w \in Workers, Deliver(w) PROVE TypeInv'
  <2>1. PICK m \in Message :
          /\ m.job \in Serves(w) /\ main[m] > 0 /\ main' = Take(main, m)
          /\ worker' = [worker EXCEPT ![w] =
                          [pc |-> "get", job |-> m.job, tries |-> m.tries,
                           goal |-> "queued", held |-> TRUE]]
    BY <1>4 DEF Deliver
  <2> DEFINE s == [pc |-> "get", job |-> m.job, tries |-> m.tries,
                   goal |-> "queued", held |-> TRUE]
  <2>2. s \in WorkerState
    BY <2>1 DEF BagsOK, Message, WorkerState, JobStatus
  <2>3. MayHold(w, s)
    BY <2>1 DEF MayHold
  <2>4. WorkersOK'
    BY <2>1, <2>2, <2>3, SetWorker
  <2>5. BagsOK'
    BY <1>4, <2>1 DEF Deliver, BagsOK, Bag, Put, Take
  <2>6. QED
    BY <1>4, <2>4, <2>5 DEF Deliver, RowsOK
<1>5. ASSUME NEW w \in Workers, GetJob(w) \/ ReadJob(w) PROVE TypeInv'
  <2>1. WorkersOK'
    BY <1>5, GotoWorker, AimWorker DEF GetJob, ReadJob, JobStatus
  <2>2. QED
    BY <1>5, <2>1 DEF GetJob, ReadJob, queues, RowsOK, BagsOK
<1>6. ASSUME NEW w \in Workers, WriteJob(w) PROVE TypeInv'
  <2>1. RowsOK'
    BY <1>6, SaveRows DEF WriteJob, RowsOK
  <2>2. worker[w].goal \in JobStatus
    BY DEF WorkersOK, WorkerState
  <2>3. Aim(w, "running") \/ Goto(w, "work") \/ Goto(w, "ack") \/ Goto(w, "reroute")
    BY <1>6, <2>2 DEF WriteJob, JobStatus
  <2>4. WorkersOK'
    BY <1>6, <2>3, GotoWorker, AimWorker DEF WriteJob, JobStatus
  <2>5. QED
    BY <1>6, <2>1, <2>4 DEF WriteJob, queues, BagsOK
<1>7. ASSUME NEW w \in Workers, NEW e \in EmbedJobs,
             StartEmbedding(w, e) \/ StartEmbeddingRaises(w, e)
      PROVE  TypeInv'
  <2>1. worker[w].job \in IngestJobs /\ e \in Jobs
    BY <1>7 DEF StartEmbedding, StartEmbeddingRaises, WorkersOK, MayHold, Serves, Jobs
  <2>2. RowsOK'
    BY <1>7, <2>1 DEF StartEmbedding, StartEmbeddingRaises, Fault, RowsOK, JobStatus
  <2>3. WorkersOK'
    BY <1>7, AimWorker DEF StartEmbedding, StartEmbeddingRaises, JobStatus
  <2>4. QED
    BY <1>7, <2>2, <2>3 DEF StartEmbedding, StartEmbeddingRaises, queues, BagsOK
<1>8. ASSUME NEW w \in Workers, Embed(w) \/ WorkRaises(w) PROVE TypeInv'
  <2>1. WorkersOK'
    BY <1>8, AimWorker DEF Embed, WorkRaises, JobStatus
  <2>2. QED
    BY <1>8, <2>1 DEF Embed, WorkRaises, queues, RowsOK, BagsOK
<1>9. ASSUME NEW w \in Workers, Reroute(w) PROVE TypeInv'
  <2> DEFINE m == [job |-> worker[w].job, tries |-> worker[w].tries + 1]
  <2>1. m \in Message
    BY <1>9, HeldMessage DEF Reroute
  <2>2. /\ \/ m.tries <= MaxRetries /\ retry' = Put(retry, m) /\ UNCHANGED dlq
           \/ dlq' = Put(dlq, m) /\ UNCHANGED retry
        /\ UNCHANGED main
    BY <1>9 DEF Reroute
  <2>3. BagsOK'
    <3> HIDE DEF m
    <3> QED
      BY <2>1, <2>2 DEF BagsOK, Bag, Put
  <2>4. WorkersOK'
    BY <1>9, GotoWorker DEF Reroute
  <2>5. QED
    BY <1>9, <2>3, <2>4 DEF Reroute, RowsOK
<1>10. ASSUME NEW w \in Workers, Ack(w) \/ ChannelClosed(w) PROVE TypeInv'
  <2>1. WorkersOK'
    BY <1>10, IdleWorker DEF Ack, ChannelClosed
  <2>2. QED
    BY <1>10, <2>1 DEF Ack, ChannelClosed, queues, RowsOK, BagsOK
<1>11. ASSUME NEW w \in Workers, Crash(w) PROVE TypeInv'
  <2>1. BagsOK'
    BY <1>11, ReturnBags DEF Crash
  <2>2. WorkersOK'
    BY <1>11, IdleWorker DEF Crash
  <2>3. QED
    BY <1>11, <2>1, <2>2 DEF Crash, Fault, RowsOK
<1>12. ASSUME NEW w \in Workers, Disconnect(w) PROVE TypeInv'
  <2>1. worker[w].pc # "idle"
    BY <1>12 DEF Disconnect, WorkersOK, MayHold
  <2>2. BagsOK'
    BY <1>12, <2>1, ReturnBags DEF Disconnect
  <2>3. WorkersOK'
    <3> DEFINE s == [worker[w] EXCEPT !.held = FALSE]
    <3>1. s \in WorkerState /\ MayHold(w, s)
      <4>1. worker[w] \in WorkerState /\ MayHold(w, worker[w])
        BY DEF WorkersOK
      <4>2. s \in WorkerState
        BY <4>1 DEF WorkerState
      <4>3. s.pc = worker[w].pc /\ s.job = worker[w].job
        BY <4>1 DEF WorkerState
      <4>4. QED
        BY <2>1, <4>1, <4>2, <4>3 DEF MayHold
    <3>2. worker' = [worker EXCEPT ![w] = s]
      BY <1>12 DEF Disconnect
    <3> HIDE DEF s
    <3>3. QED
      BY <3>1, <3>2, SetWorker
  <2>4. QED
    BY <1>12, <2>2, <2>3 DEF Disconnect, Fault, RowsOK
<1>13. ASSUME NEW w \in Workers, DatabaseError(w) PROVE TypeInv'
  <2>1. faults' \in 0..MaxFaults
    BY <1>13 DEF DatabaseError, Fault, RowsOK
  <2>2. RowsOK'
    BY <1>13, <2>1, SaveRows DEF DatabaseError, RowsOK
  <2>3. WorkersOK'
    BY <1>13, GotoWorker DEF DatabaseError
  <2>4. QED
    BY <1>13, <2>2, <2>3 DEF DatabaseError, queues, BagsOK
<1>14. CASE UNCHANGED vars
  BY <1>14 DEF vars, queues, RowsOK, BagsOK, WorkersOK, MayHold
<1>15. QED
  BY <1>1, <1>2, <1>3, <1>4, <1>5, <1>6, <1>7, <1>8, <1>9, <1>10, <1>11, <1>12, <1>13, <1>14
     DEF Next, WorkerStep, WorkerFault

\* The types hold for ever, whatever the workers, the broker and the database
\* do; with them, no message is rerouted past its last retry
\* (workers/common.py 56-57).
THEOREM TypeInvariant == Spec => []TypeInv
  BY InitType, StepType, PTL DEF Spec

\* Type correctness.
THEOREM TypeCorrect == Spec => []TypeOK
  BY TypeInvariant, TypeInvTypes, PTL

-----------------------------------------------------------------------------
\* A job's message is in one of the three queues.
LEMMA CopyInQueue ==
  ASSUME BagsOK, NEW j \in Jobs
  PROVE  HasCopy(j) <=>
           \E m \in Message : m.job = j /\ (main[m] > 0 \/ retry[m] > 0 \/ dlq[m] > 0)
  BY DEF BagsOK, Bag, HasCopy

\* The queues lose nothing: no count of a message falls.
LEMMA CopiesStay ==
  ASSUME BagsOK, BagsOK', NEW j \in Jobs, HasCopy(j),
         \A m \in Message : main'[m] >= main[m] /\ retry'[m] >= retry[m] /\ dlq'[m] >= dlq[m]
  PROVE  HasCopy(j)'
  BY DEF BagsOK, Bag, HasCopy

\* A worker that goes on with its message, without having rerouted it, still
\* carries the job it carried.
LEMMA WorkerGoesOn ==
  ASSUME WorkersOK, NEW w \in Workers, UNCHANGED queues, worker[w].pc # "ackRouted",
         \/ \E pc \in {"write", "work", "ack", "reroute"} : Goto(w, pc)
         \/ \E goal \in JobStatus : Aim(w, goal),
         NEW j \in Jobs, Somewhere(j)
  PROVE  Somewhere(j)'
<1>1. HasCopy(j) => HasCopy(j)'
  BY DEF queues, HasCopy
<1>2. ASSUME NEW v \in Workers,
             worker[v].job = j, worker[v].held, worker[v].pc # "ackRouted"
      PROVE  worker'[v].job = j /\ worker'[v].held /\ worker'[v].pc # "ackRouted"
  BY <1>2 DEF WorkersOK, WorkerState, Goto, Aim
<1>3. QED
  BY <1>1, <1>2 DEF Somewhere

\* A write of a job's status: completed is counted, and no count falls.
LEMMA SaveCounts ==
  ASSUME TypeInv, CompletedWasCounted, NEW w \in Workers, worker[w].pc # "idle", Save(w)
  PROVE  /\ CompletedWasCounted'
         /\ \A j \in Jobs : completions'[j] >= completions[j]
         /\ worker[w].goal = "completed" => completions'[worker[w].job] > 0
<1>1. worker[w].job \in Jobs /\ worker[w].goal \in JobStatus
  BY HeldMessage DEF TypeInv, WorkersOK, WorkerState
<1>2. QED
  BY <1>1 DEF Save, TypeInv, RowsOK, CompletedWasCounted

\* A step that publishes nothing, uncounts no completion and keeps every job
\* somewhere keeps Carried.
LEMMA KeepsCarried ==
  ASSUME TypeInv, TypeInv', Carried, UNCHANGED sent,
         \A j \in Jobs : completions'[j] >= completions[j],
         \A j \in Jobs : Somewhere(j) /\ completions'[j] = 0 => Somewhere(j)'
  PROVE  Carried'
  BY DEF Carried, TypeInv, RowsOK

\* The invariant holds initially.
LEMMA InitInvariant == Init => IInv
<1> SUFFICES ASSUME Init
             PROVE  CompletedWasCounted /\ AckAfterCompletion /\ Carried
  BY InitType DEF IInv
<1> QED
  BY IdleType DEF Init, CompletedWasCounted, AckAfterCompletion, Carried

\* Every step keeps it: a copy is published before the original is
\* acknowledged, a crash or a lost connection returns what was held, and the
\* acknowledgement of a processed message follows a completion.
LEMMA StepInvariant == IInv /\ [Next]_vars => IInv'
<1> SUFFICES ASSUME IInv, [Next]_vars
             PROVE  CompletedWasCounted' /\ AckAfterCompletion' /\ Carried'
  BY StepType DEF IInv
<1>t. TypeInv /\ TypeInv'
  BY StepType DEF IInv
<1>i. CompletedWasCounted /\ AckAfterCompletion /\ Carried
  BY DEF IInv
<1> DEFINE Goal == CompletedWasCounted' /\ AckAfterCompletion' /\ Carried'
<1>1. ASSUME NEW j \in Jobs, Create(j) PROVE Goal
  <2>1. CompletedWasCounted' /\ AckAfterCompletion'
    BY <1>1, <1>t, <1>i
       DEF Create, TypeInv, RowsOK, CompletedWasCounted, AckAfterCompletion
  <2>2. \A k \in Jobs : Somewhere(k) => Somewhere(k)'
    BY <1>1 DEF Create, queues, Somewhere, HasCopy
  <2>3. Carried'
    BY <1>1, <1>i, <2>2 DEF Create, Carried
  <2>4. QED
    BY <2>1, <2>3
<1>2. ASSUME NEW j \in Jobs, Enqueue(j) PROVE Goal
  <2>1. CompletedWasCounted' /\ AckAfterCompletion'
    BY <1>2, <1>i DEF Enqueue, CompletedWasCounted, AckAfterCompletion
  <2> DEFINE m == [job |-> j, tries |-> 0]
  <2>2. m \in Message /\ m.job = j
    BY JobQueueAssumption DEF Message
  <2>3. \A n \in Message : main'[n] >= main[n]
    BY <1>2, <1>t DEF Enqueue, TypeInv, BagsOK, Bag, Put
  <2>4. main'[m] > 0
    BY <1>2, <1>t, <2>2 DEF Enqueue, TypeInv, BagsOK, Bag, Put
  <2>5. HasCopy(j)'
    BY <1>t, <2>2, <2>4 DEF TypeInv, BagsOK, Bag, HasCopy
  <2>6. \A k \in Jobs : Somewhere(k) => Somewhere(k)'
    <3>1. UNCHANGED <<retry, dlq, worker>>
      BY <1>2 DEF Enqueue
    <3>2. \A k \in Jobs : HasCopy(k) => HasCopy(k)'
      BY <1>t, <2>3, <3>1, CopiesStay DEF TypeInv, BagsOK, Bag
    <3>3. QED
      BY <3>1, <3>2 DEF Somewhere
  <2>7. Carried'
    BY <1>2, <1>t, <1>i, <2>5, <2>6 DEF Enqueue, TypeInv, RowsOK, Carried, Somewhere
  <2>8. QED
    BY <2>1, <2>7
<1>3. ASSUME NEW m \in Message, RetryExpires(m) PROVE Goal
  <2>1. CompletedWasCounted' /\ AckAfterCompletion'
    BY <1>3, <1>i DEF RetryExpires, CompletedWasCounted, AckAfterCompletion
  <2>2. ASSUME NEW j \in Jobs, HasCopy(j) PROVE HasCopy(j)'
    BY <1>3, <1>t, <2>2 DEF RetryExpires, TypeInv, BagsOK, Bag, Put, Take, HasCopy
  <2>3. Carried'
    BY <1>3, <1>i, <2>2 DEF RetryExpires, Carried, Somewhere
  <2>4. QED
    BY <2>1, <2>3
<1>4. ASSUME NEW w \in Workers, Deliver(w) PROVE Goal
  <2>1. PICK m \in Message :
          /\ main[m] > 0 /\ main' = Take(main, m)
          /\ worker' = [worker EXCEPT ![w] =
                          [pc |-> "get", job |-> m.job, tries |-> m.tries,
                           goal |-> "queued", held |-> TRUE]]
    BY <1>4 DEF Deliver
  <2>2. CompletedWasCounted' /\ AckAfterCompletion'
    BY <1>4, <1>t, <1>i, <2>1
       DEF Deliver, CompletedWasCounted, AckAfterCompletion, TypeInv, WorkersOK
  <2>3. /\ worker'[w].job = m.job /\ worker'[w].held /\ worker'[w].pc # "ackRouted"
        /\ \A v \in Workers : worker[v].held => worker'[v] = worker[v]
    BY <1>4, <1>t, <2>1 DEF Deliver, TypeInv, WorkersOK, MayHold
  <2>4. \A n \in Message : n # m => main'[n] = main[n]
    BY <1>t, <2>1 DEF Take, TypeInv, BagsOK, Bag
  <2>5. ASSUME NEW j \in Jobs, Somewhere(j) PROVE Somewhere(j)'
    <3>1. CASE j = m.job
      BY <2>3, <3>1 DEF Somewhere
    <3>2. CASE j # m.job /\ HasCopy(j)
      <4>1. HasCopy(j)'
        BY <1>4, <2>4, <3>2 DEF Deliver, HasCopy
      <4>2. QED
        BY <4>1 DEF Somewhere
    <3>3. CASE ~HasCopy(j)
      BY <2>3, <2>5, <3>3 DEF Somewhere
    <3>4. QED
      BY <3>1, <3>2, <3>3
  <2>6. Carried'
    BY <1>4, <1>i, <2>5 DEF Deliver, Carried
  <2>7. QED
    BY <2>2, <2>6
<1>5. ASSUME NEW w \in Workers,
             \/ GetJob(w) \/ ReadJob(w) \/ Embed(w) \/ WorkRaises(w)
             \/ \E e \in EmbedJobs : StartEmbedding(w, e) \/ StartEmbeddingRaises(w, e)
      PROVE  Goal
  <2>1. /\ UNCHANGED queues /\ UNCHANGED <<sent, completions>>
        /\ worker[w].pc \in {"get", "read", "work"}
        /\ \/ \E pc \in {"write", "work", "ack", "reroute"} : Goto(w, pc)
           \/ \E goal \in JobStatus : Aim(w, goal)
    BY <1>5 DEF GetJob, ReadJob, Embed, WorkRaises, StartEmbedding, StartEmbeddingRaises,
                JobStatus
  <2>2. CompletedWasCounted'
    BY <1>5, <1>t, <1>i
       DEF GetJob, ReadJob, Embed, WorkRaises, StartEmbedding, StartEmbeddingRaises,
           CompletedWasCounted, TypeInv, RowsOK
  <2>3. AckAfterCompletion'
    <3>1. worker'[w].pc = "ack" => status[worker[w].job] = "completed"
      BY <1>5, <1>t
         DEF GetJob, ReadJob, Embed, WorkRaises, StartEmbedding, StartEmbeddingRaises,
             Goto, Aim, TypeInv, WorkersOK, WorkerState
    <3>2. worker[w].job \in Jobs
      BY <1>t, <2>1, HeldMessage DEF TypeInv
    <3>3. /\ \A v \in Workers : worker'[v].job = worker[v].job
          /\ \A v \in Workers : v # w => worker'[v].pc = worker[v].pc
      BY <1>t, <2>1 DEF Goto, Aim, TypeInv, WorkersOK, WorkerState
    <3>4. QED
      BY <1>i, <2>1, <3>1, <3>2, <3>3 DEF AckAfterCompletion, CompletedWasCounted
  <2>4. Carried'
    BY <1>t, <1>i, <2>1, WorkerGoesOn DEF TypeInv, Carried
  <2>5. QED
    BY <2>2, <2>3, <2>4
<1>6. ASSUME NEW w \in Workers, WriteJob(w) PROVE Goal
  <2>1. /\ CompletedWasCounted'
        /\ \A j \in Jobs : completions'[j] >= completions[j]
        /\ worker[w].goal = "completed" => completions'[worker[w].job] > 0
    BY <1>6, <1>t, <1>i, SaveCounts DEF WriteJob
  <2>2. worker[w].goal \in JobStatus /\ worker[w].job \in Jobs
    BY <1>6, <1>t, HeldMessage DEF WriteJob, TypeInv, WorkersOK, WorkerState
  <2>3. \/ Aim(w, "running") \/ Goto(w, "work") \/ Goto(w, "reroute")
        \/ worker[w].goal = "completed" /\ Goto(w, "ack")
    BY <1>6, <2>2 DEF WriteJob, JobStatus
  <2>4. AckAfterCompletion'
    <3>1. /\ worker'[w].pc = "ack" => worker[w].goal = "completed"
          /\ \A v \in Workers : worker'[v].job = worker[v].job
          /\ \A v \in Workers : v # w => worker'[v].pc = worker[v].pc
      BY <1>t, <2>3 DEF Goto, Aim, TypeInv, WorkersOK, WorkerState
    <3>2. ASSUME NEW v \in Workers, worker'[v].pc = "ack"
          PROVE  completions'[worker'[v].job] > 0
      <4>1. CASE v = w
        BY <2>1, <3>1, <3>2, <4>1
      <4>2. CASE v # w
        <5>1. completions[worker[v].job] > 0 /\ worker[v].job \in Jobs
          BY <1>t, <1>i, <3>1, <3>2, <4>2, HeldMessage DEF AckAfterCompletion, TypeInv
        <5>2. QED
          BY <1>t, <2>1, <3>1, <5>1 DEF TypeInv, RowsOK
      <4>3. QED
        BY <4>1, <4>2
    <3>3. QED
      BY <3>2 DEF AckAfterCompletion
  <2>5. \A j \in Jobs : Somewhere(j) => Somewhere(j)'
    BY <1>6, <1>t, <2>3, WorkerGoesOn DEF WriteJob, TypeInv, JobStatus
  <2>6. Carried'
    BY <1>6, <1>t, <1>i, <2>1, <2>5, KeepsCarried DEF WriteJob
  <2>7. QED
    BY <2>1, <2>4, <2>6
<1>7. ASSUME NEW w \in Workers, Reroute(w) PROVE Goal
  <2> DEFINE m == [job |-> worker[w].job, tries |-> worker[w].tries + 1]
  <2>1. m \in Message /\ m.job = worker[w].job
    BY <1>7, <1>t, HeldMessage DEF Reroute, TypeInv
  <2>2. /\ \/ retry' = Put(retry, m) /\ UNCHANGED dlq
           \/ dlq' = Put(dlq, m) /\ UNCHANGED retry
        /\ UNCHANGED <<status, main, sent, completions>>
        /\ Goto(w, "ackRouted")
    BY <1>7 DEF Reroute
  <2> HIDE DEF m
  <2>3. CompletedWasCounted' /\ AckAfterCompletion'
    BY <1>t, <1>i, <2>2
       DEF CompletedWasCounted, AckAfterCompletion, Goto, TypeInv, WorkersOK, WorkerState
  <2>4. /\ \A n \in Message :
             main'[n] >= main[n] /\ retry'[n] >= retry[n] /\ dlq'[n] >= dlq[n]
        /\ retry'[m] > 0 \/ dlq'[m] > 0
    BY <1>t, <2>1, <2>2 DEF Put, TypeInv, BagsOK, Bag
  <2>5. ASSUME NEW j \in Jobs, Somewhere(j) PROVE Somewhere(j)'
    <3>1. CASE HasCopy(j)
      BY <1>t, <2>4, <3>1, CopiesStay DEF TypeInv, Somewhere
    <3>2. CASE j = worker[w].job
      BY <1>t, <2>1, <2>4, <3>2, CopyInQueue DEF TypeInv, BagsOK, Bag, HasCopy, Somewhere
    <3>3. CASE j # worker[w].job /\ ~HasCopy(j)
      <4>1. PICK v \in Workers :
              worker[v].job = j /\ worker[v].held /\ worker[v].pc # "ackRouted"
        BY <2>5, <3>3 DEF Somewhere
      <4>2. worker'[v] = worker[v]
        BY <1>t, <2>2, <3>3, <4>1 DEF Goto, TypeInv, WorkersOK
      <4>3. QED
        BY <4>1, <4>2 DEF Somewhere
    <3>4. QED
      BY <3>1, <3>2, <3>3
  <2>6. Carried'
    BY <1>i, <2>2, <2>5 DEF Carried
  <2>7. QED
    BY <2>3, <2>6
<1>8. ASSUME NEW w \in Workers, Ack(w) \/ ChannelClosed(w) PROVE Goal
  <2>1. /\ worker' = [worker EXCEPT ![w] = Idle]
        /\ UNCHANGED queues /\ UNCHANGED <<status, sent, completions>>
        /\ worker[w].pc = "ack" \/ worker[w].pc = "ackRouted" \/ ~worker[w].held
    BY <1>8 DEF Ack, ChannelClosed
  <2>2. CompletedWasCounted' /\ AckAfterCompletion'
    BY <1>t, <1>i, <2>1, IdleType
       DEF CompletedWasCounted, AckAfterCompletion, TypeInv, WorkersOK
  <2>3. ASSUME NEW j \in Jobs, Somewhere(j), completions[j] = 0 PROVE Somewhere(j)'
    <3>1. CASE HasCopy(j)
      BY <2>1, <3>1 DEF queues, HasCopy, Somewhere
    <3>2. CASE ~HasCopy(j)
      <4>1. PICK v \in Workers :
              worker[v].job = j /\ worker[v].held /\ worker[v].pc # "ackRouted"
        BY <2>3, <3>2 DEF Somewhere
      <4>2. v # w
        BY <1>i, <2>1, <2>3, <4>1 DEF AckAfterCompletion
      <4>3. worker'[v] = worker[v]
        BY <1>t, <2>1, <4>2 DEF TypeInv, WorkersOK
      <4>4. QED
        BY <4>1, <4>3 DEF Somewhere
    <3>3. QED
      BY <3>1, <3>2
  <2>4. Carried'
    BY <1>i, <2>1, <2>3 DEF Carried
  <2>5. QED
    BY <2>2, <2>4
<1>9. ASSUME NEW w \in Workers, Crash(w) \/ Disconnect(w) PROVE Goal
  <2>0. worker[w].pc # "idle"
    BY <1>9, <1>t DEF Crash, Disconnect, TypeInv, WorkersOK, MayHold
  <2>1. Held(w) \in Message /\ Held(w).job = worker[w].job
    BY <1>t, <2>0, HeldMessage DEF TypeInv
  <2>2. /\ Return(w) /\ UNCHANGED <<status, retry, dlq, sent, completions>>
        /\ \A v \in Workers : v # w => worker'[v] = worker[v]
        /\ worker'[w] = Idle \/ worker'[w].pc = worker[w].pc
        /\ worker'[w] = Idle \/ worker'[w].job = worker[w].job
    BY <1>9, <1>t DEF Crash, Disconnect, TypeInv, WorkersOK, WorkerState
  <2>3. CompletedWasCounted' /\ AckAfterCompletion'
    BY <1>i, <2>2, IdleType DEF CompletedWasCounted, AckAfterCompletion
  <2>4. \A n \in Message : main'[n] >= main[n]
    BY <1>t, <2>1, <2>2 DEF Return, Put, TypeInv, BagsOK, Bag
  <2>5. worker[w].held => main'[Held(w)] > 0
    BY <1>t, <2>1, <2>2 DEF Return, Put, TypeInv, BagsOK, Bag
  <2>6. ASSUME NEW j \in Jobs, Somewhere(j) PROVE Somewhere(j)'
    <3>1. CASE HasCopy(j)
      <4>1. HasCopy(j)'
        BY <1>t, <2>2, <2>4, <3>1, CopiesStay DEF TypeInv, BagsOK, Bag
      <4>2. QED
        BY <4>1 DEF Somewhere
    <3>2. CASE ~HasCopy(j)
      <4>1. PICK v \in Workers :
              worker[v].job = j /\ worker[v].held /\ worker[v].pc # "ackRouted"
        BY <2>6, <3>2 DEF Somewhere
      <4>2. CASE v = w
        <5>1. HasCopy(j)'
          BY <1>t, <2>1, <2>5, <4>1, <4>2 DEF HasCopy, TypeInv, BagsOK, Bag
        <5>2. QED
          BY <5>1 DEF Somewhere
      <4>3. CASE v # w
        BY <2>2, <4>1, <4>3 DEF Somewhere
      <4>4. QED
        BY <4>2, <4>3
    <3>3. QED
      BY <3>1, <3>2
  <2>7. Carried'
    BY <1>i, <2>2, <2>6 DEF Carried
  <2>8. QED
    BY <2>3, <2>7
<1>10. ASSUME NEW w \in Workers, DatabaseError(w) PROVE Goal
  <2>0. worker[w].pc \in {"get", "read", "write"} /\ Goto(w, "reroute")
    BY <1>10 DEF DatabaseError
  <2>1. CompletedWasCounted' /\ \A j \in Jobs : completions'[j] >= completions[j]
    <3>1. CASE Save(w)
      BY <1>t, <1>i, <2>0, <3>1, SaveCounts
    <3>2. CASE UNCHANGED <<status, completions>>
      BY <1>t, <1>i, <3>2 DEF CompletedWasCounted, TypeInv, RowsOK
    <3>3. QED
      BY <1>10, <3>1, <3>2 DEF DatabaseError
  <2>2. AckAfterCompletion'
    <3>1. ASSUME NEW v \in Workers, worker'[v].pc = "ack"
          PROVE  completions'[worker'[v].job] > 0
      <4>1. v # w /\ worker'[v] = worker[v]
        BY <1>t, <2>0, <3>1 DEF Goto, TypeInv, WorkersOK, WorkerState
      <4>2. completions[worker[v].job] > 0 /\ worker[v].job \in Jobs
        BY <1>t, <1>i, <3>1, <4>1, HeldMessage DEF AckAfterCompletion, TypeInv
      <4>3. QED
        BY <1>t, <2>1, <4>1, <4>2 DEF TypeInv, RowsOK
    <3>2. QED
      BY <3>1 DEF AckAfterCompletion
  <2>3. \A j \in Jobs : Somewhere(j) => Somewhere(j)'
    BY <1>10, <1>t, <2>0, WorkerGoesOn DEF DatabaseError, TypeInv
  <2>4. Carried'
    BY <1>10, <1>t, <1>i, <2>1, <2>3, KeepsCarried DEF DatabaseError
  <2>5. QED
    BY <2>1, <2>2, <2>4
<1>11. CASE UNCHANGED vars
  BY <1>11, <1>i
     DEF vars, queues, CompletedWasCounted, AckAfterCompletion, Carried, Somewhere, HasCopy
<1>12. QED
  BY <1>1, <1>2, <1>3, <1>4, <1>5, <1>6, <1>7, <1>8, <1>9, <1>10, <1>11
     DEF Next, WorkerStep, WorkerFault

\* The inductive invariant.
THEOREM Invariant == Spec => []IInv
  BY InitInvariant, StepInvariant, PTL DEF Spec

\* A published message is in a queue or unacknowledged in a worker until its
\* job was completed once, whatever fails (workers/common.py 41-69).
THEOREM NoPublishedJobLost == Spec => []NoJobLost
<1>1. IInv => NoJobLost
  BY DEF IInv, Carried, Somewhere, NoJobLost, Holders
<1>2. QED
  BY <1>1, Invariant, PTL

-----------------------------------------------------------------------------
\* A step that creates no embedding job keeps the three facts about children if
\* it aims no ingest worker at completed, and completes an ingest job only
\* where a child is known to exist.
LEMMA KeepsChildren ==
  ASSUME EInv, TypeInv', UNCHANGED parent,
         \A e \in EmbedJobs : status[e] # "absent" => status'[e] # "absent",
         \A w \in IngestWorkers :
             worker'[w].pc # "idle" /\ worker'[w].goal = "completed" =>
                worker[w].pc # "idle" /\ worker[w].goal = "completed"
                /\ worker'[w].job = worker[w].job,
         \A j \in IngestJobs :
             completions'[j] > 0 => completions[j] > 0 \/ Children(j) # {}
  PROVE  EInv'
<1>1. \A j \in Jobs : Children(j)' = Children(j)
  BY DEF Children
<1>2. ChildrenExist'
  BY DEF EInv, ChildrenExist
<1>3. AimedAfterEmbedding'
  BY DEF EInv, AimedAfterEmbedding, Children
<1>4. EmbeddingFollows'
  BY DEF EInv, EmbeddingFollows, Children
<1>5. QED
  BY <1>2, <1>3, <1>4 DEF EInv

\* An ingest job is written completed by a worker that aims at completed, and
\* so after its child.
LEMMA SaveAfterChild ==
  ASSUME EInv, NEW w \in Workers, worker[w].pc # "idle", Save(w),
         NEW j \in IngestJobs, completions'[j] > 0
  PROVE  completions[j] > 0 \/ Children(j) # {}
<1>1. CASE j = worker[w].job /\ worker[w].goal = "completed"
  <2>1. w \in IngestWorkers
    BY <1>1, JobQueueAssumption DEF EInv, TypeInv, WorkersOK, MayHold, Serves
  <2>2. QED
    BY <1>1, <2>1 DEF EInv, AimedAfterEmbedding
<1>2. CASE ~(j = worker[w].job /\ worker[w].goal = "completed")
  BY <1>2 DEF Save, EInv, TypeInv, RowsOK, Jobs
<1>3. QED
  BY <1>1, <1>2

\* A write of a status leaves no row absent.
LEMMA SaveKeepsRows ==
  ASSUME TypeInv, NEW w \in Workers, worker[w].pc # "idle", Save(w), NEW j \in Jobs,
         status[j] # "absent"
  PROVE  status'[j] # "absent"
<1>1. worker[w].goal \in JobStatus
  BY DEF TypeInv, WorkersOK, WorkerState
<1>2. QED
  BY <1>1 DEF Save, JobStatus, TypeInv, RowsOK

\* Initially there are no children and no completions.
LEMMA InitChildren == Init => EInv
<1> SUFFICES ASSUME Init PROVE ChildrenExist /\ AimedAfterEmbedding /\ EmbeddingFollows
  BY InitType DEF EInv
<1> QED
  BY IdleType DEF Init, ChildrenExist, AimedAfterEmbedding, EmbeddingFollows, Jobs, Workers

\* Every step keeps it: only the step that creates the child aims an ingest
\* worker at completed, and no row is created twice.
LEMMA StepChildren == EInv /\ [Next]_vars => EInv'
<1> SUFFICES ASSUME EInv, [Next]_vars PROVE EInv'
  OBVIOUS
<1>t. TypeInv /\ TypeInv'
  BY StepType DEF EInv
<1>w. IngestWorkers \subseteq Workers /\ IngestJobs \subseteq Jobs /\ EmbedJobs \subseteq Jobs
  BY DEF Workers, Jobs
<1>1. ASSUME NEW j \in Jobs, Create(j) \/ Enqueue(j) PROVE EInv'
  <2>1. /\ UNCHANGED <<parent, worker, completions>>
        /\ \A e \in EmbedJobs : status[e] # "absent" => status'[e] # "absent"
    BY <1>1, <1>t, <1>w DEF Create, Enqueue, TypeInv, RowsOK
  <2>2. QED
    BY <1>t, <2>1, KeepsChildren
<1>2. ASSUME NEW m \in Message, RetryExpires(m) PROVE EInv'
  BY <1>2, <1>t, KeepsChildren DEF RetryExpires
<1>3. ASSUME NEW w \in Workers,
             \/ Deliver(w) \/ GetJob(w) \/ ReadJob(w) \/ WorkRaises(w) \/ Reroute(w)
             \/ Ack(w) \/ ChannelClosed(w) \/ Crash(w) \/ Disconnect(w)
      PROVE  EInv'
  <2>1. UNCHANGED <<status, parent, completions>>
    BY <1>3 DEF Deliver, GetJob, ReadJob, WorkRaises, Reroute, Ack, ChannelClosed,
                Crash, Disconnect
  <2>2. ASSUME NEW v \in Workers,
               worker'[v].pc # "idle", worker'[v].goal = "completed"
        PROVE  /\ worker[v].pc # "idle" /\ worker[v].goal = "completed"
               /\ worker'[v].job = worker[v].job
    <3>1. CASE Deliver(w)
      <4>1. v # w => worker'[v] = worker[v]
        BY <1>t, <3>1 DEF Deliver, TypeInv, WorkersOK
      <4>2. worker'[w].goal = "queued"
        BY <1>t, <3>1 DEF Deliver, TypeInv, WorkersOK
      <4>3. QED
        BY <2>2, <4>1, <4>2
    <3>2. CASE GetJob(w) \/ ReadJob(w) \/ WorkRaises(w) \/ Reroute(w)
      BY <1>t, <2>2, <3>2
         DEF GetJob, ReadJob, WorkRaises, Reroute, Goto, Aim, TypeInv, WorkersOK, WorkerState
    <3>3. CASE Ack(w) \/ ChannelClosed(w) \/ Crash(w)
      BY <1>t, <2>2, <3>3, IdleType DEF Ack, ChannelClosed, Crash, TypeInv, WorkersOK
    <3>4. CASE Disconnect(w)
      BY <1>t, <2>2, <3>4 DEF Disconnect, TypeInv, WorkersOK, WorkerState
    <3>5. QED
      BY <1>3, <3>1, <3>2, <3>3, <3>4
  <2>3. QED
    BY <1>t, <1>w, <2>1, <2>2, KeepsChildren
<1>4. ASSUME NEW w \in Workers, WriteJob(w) \/ DatabaseError(w) PROVE EInv'
  <2>1. worker[w].pc # "idle" /\ (Save(w) \/ UNCHANGED <<status, completions>>)
    BY <1>4 DEF WriteJob, DatabaseError
  <2>2. UNCHANGED parent
    BY <1>4 DEF WriteJob, DatabaseError
  <2>3. \A e \in EmbedJobs : status[e] # "absent" => status'[e] # "absent"
    BY <1>t, <1>w, <2>1, SaveKeepsRows
  <2>4. \A j \in IngestJobs : completions'[j] > 0 => completions[j] > 0 \/ Children(j) # {}
    BY <2>1, SaveAfterChild
  <2>5. \/ Aim(w, "running")
        \/ \E pc \in {"work", "ack", "reroute"} : Goto(w, pc)
    <3>1. worker[w].goal \in JobStatus
      BY <1>t DEF TypeInv, WorkersOK, WorkerState
    <3>2. QED
      BY <1>4, <3>1 DEF WriteJob, DatabaseError, JobStatus
  <2>6. \A v \in Workers :
           worker'[v].pc # "idle" /\ worker'[v].goal = "completed" =>
              /\ worker[v].pc # "idle" /\ worker[v].goal = "completed"
              /\ worker'[v].job = worker[v].job
    BY <1>t, <2>1, <2>5 DEF Goto, Aim, TypeInv, WorkersOK, WorkerState
  <2>7. QED
    BY <1>t, <1>w, <2>2, <2>3, <2>4, <2>6, KeepsChildren
<1>5. ASSUME NEW w \in Workers, Embed(w) PROVE EInv'
  <2>1. w \notin IngestWorkers
    BY <1>5, JobQueueAssumption DEF Embed
  <2>2. \A v \in IngestWorkers : worker'[v] = worker[v]
    BY <1>5, <1>t, <1>w, <2>1 DEF Embed, Aim, TypeInv, WorkersOK
  <2>3. QED
    BY <1>5, <1>t, <2>2, KeepsChildren DEF Embed
<1>6. ASSUME NEW w \in Workers, NEW e \in EmbedJobs,
             StartEmbedding(w, e) \/ StartEmbeddingRaises(w, e)
      PROVE  EInv'
  <2>1. /\ status[e] = "absent"
        /\ status' = [status EXCEPT ![e] = "queued"]
        /\ parent' = [parent EXCEPT ![e] = worker[w].job]
        /\ UNCHANGED completions
        /\ Aim(w, "completed") \/ Aim(w, "failed")
        /\ worker[w].pc # "idle"
    BY <1>6 DEF StartEmbedding, StartEmbeddingRaises
  <2>2. parent[e] = NoJob
    BY <2>1 DEF EInv, ChildrenExist
  <2>3. \A j \in IngestJobs : Children(j) # {} => Children(j)' # {}
    <3>1. NoJob \notin IngestJobs
      BY JobQueueAssumption DEF Jobs
    <3>2. QED
      BY <1>t, <2>1, <2>2, <3>1 DEF Children, TypeInv, RowsOK
  <2>4. Children(worker[w].job)' # {}
    <3>1. parent'[e] = worker[w].job
      BY <1>t, <2>1 DEF TypeInv, RowsOK
    <3>2. worker'[w].job = worker[w].job
      BY <1>t, <2>1 DEF Aim, TypeInv, WorkersOK, WorkerState
    <3>3. QED
      BY <3>1, <3>2 DEF Children
  <2>5. ChildrenExist'
    BY <1>t, <1>w, <2>1 DEF EInv, ChildrenExist, TypeInv, RowsOK
  <2>6. AimedAfterEmbedding'
    <3>1. ASSUME NEW v \in IngestWorkers,
                 worker'[v].pc # "idle", worker'[v].goal = "completed"
          PROVE  Children(worker[v].job)' # {}
      <4>1. CASE v = w
        BY <2>4, <4>1
      <4>2. CASE v # w
        <5>1. worker'[v] = worker[v]
          BY <1>t, <1>w, <2>1, <4>2 DEF Aim, TypeInv, WorkersOK
        <5>2. worker[v].job \in IngestJobs /\ Children(worker[v].job) # {}
          BY <1>t, <1>w, <3>1, <5>1
             DEF EInv, AimedAfterEmbedding, TypeInv, WorkersOK, MayHold, Serves
        <5>3. QED
          BY <2>3, <5>1, <5>2
      <4>3. QED
        BY <4>1, <4>2
    <3>2. \A v \in Workers : worker'[v].job = worker[v].job
      BY <1>t, <2>1 DEF Aim, TypeInv, WorkersOK, WorkerState
    <3>3. QED
      BY <1>w, <3>1, <3>2 DEF AimedAfterEmbedding, Children
  <2>7. EmbeddingFollows'
    BY <2>1, <2>3 DEF EInv, EmbeddingFollows
  <2>8. QED
    BY <1>t, <2>5, <2>6, <2>7 DEF EInv
<1>7. CASE UNCHANGED vars
  BY <1>7, <1>t, KeepsChildren DEF vars
<1>8. QED
  BY <1>1, <1>2, <1>3, <1>4, <1>5, <1>6, <1>7 DEF Next, WorkerStep, WorkerFault

\* An ingest job that was ever written completed has an embedding job
\* (workers/ingest/main.py 59-70).
THEOREM CompletedIsEmbedded == Spec => []EmbeddingFollows
<1>1. Spec => []EInv
  BY InitChildren, StepChildren, PTL DEF Spec
<1>2. EInv => EmbeddingFollows
  BY DEF EInv
<1>3. QED
  BY <1>1, <1>2, PTL

-----------------------------------------------------------------------------
\* A worker past the lookup of its job has a job whose row exists.
KnownJobs ==
    \A w \in Workers :
        worker[w].pc \in {"read", "write", "work"} => status[worker[w].job] # "absent"

\* A worker at its UPDATE creates no row.
LEMMA SaveCreatesNothing ==
  ASSUME TypeInv, KnownJobs, NEW w \in Workers, worker[w].pc = "write", Save(w),
         NEW j \in Jobs, status'[j] # "absent"
  PROVE  status[j] # "absent"
<1>1. CASE j = worker[w].job
  BY <1>1 DEF KnownJobs
<1>2. CASE j # worker[w].job
  BY <1>2 DEF Save, TypeInv, RowsOK
<1>3. QED
  BY <1>1, <1>2

\* Initially no worker has a job.
LEMMA InitKnown == Init => KnownJobs
  BY IdleType DEF Init, KnownJobs

\* Every step keeps it: rows stay, and the lookup finds the row.
LEMMA StepKnown == TypeInv /\ KnownJobs /\ [Next]_vars => KnownJobs'
<1> SUFFICES ASSUME TypeInv, KnownJobs, [Next]_vars PROVE KnownJobs'
  OBVIOUS
<1>a. ASSUME \A j \in Jobs : status[j] # "absent" => status'[j] # "absent",
             \A v \in Workers : worker'[v].pc \in {"read", "write", "work"} =>
                /\ worker'[v].job = worker[v].job /\ worker[v].pc # "idle"
                /\ worker[v].pc \in {"read", "write", "work"}
                   \/ status[worker[v].job] # "absent"
      PROVE  KnownJobs'
  <2>1. \A v \in Workers : worker[v].pc # "idle" => worker[v].job \in Jobs
    BY HeldMessage DEF TypeInv
  <2>2. QED
    BY <1>a, <2>1 DEF KnownJobs
<1>1. ASSUME NEW j \in Jobs, Create(j) \/ Enqueue(j) PROVE KnownJobs'
  <2>1. UNCHANGED worker /\ \A k \in Jobs : status[k] # "absent" => status'[k] # "absent"
    BY <1>1 DEF Create, Enqueue, TypeInv, RowsOK
  <2>2. QED
    BY <1>a, <2>1
<1>2. ASSUME NEW m \in Message, RetryExpires(m) PROVE KnownJobs'
  BY <1>2, <1>a DEF RetryExpires
<1>3. ASSUME NEW w \in Workers, NEW s,
             worker' = [worker EXCEPT ![w] = s],
             \A j \in Jobs : status[j] # "absent" => status'[j] # "absent",
             s.pc \in {"read", "write", "work"} =>
                /\ s.job = worker[w].job /\ worker[w].pc # "idle"
                /\ worker[w].pc \in {"read", "write", "work"}
                   \/ status[worker[w].job] # "absent"
      PROVE  KnownJobs'
  <2>1. worker'[w] = s /\ \A v \in Workers : v # w => worker'[v] = worker[v]
    BY <1>3 DEF TypeInv, WorkersOK
  <2>2. QED
    BY <1>3, <1>a, <2>1
<1>4. ASSUME NEW w \in Workers,
             Deliver(w) \/ Ack(w) \/ ChannelClosed(w) \/ Crash(w)
      PROVE  KnownJobs'
  <2>1. UNCHANGED status
    BY <1>4 DEF Deliver, Ack, ChannelClosed, Crash
  <2>2. PICK s : worker' = [worker EXCEPT ![w] = s] /\ s.pc \in {"idle", "get"}
    BY <1>4, IdleType DEF Deliver, Ack, ChannelClosed, Crash
  <2>3. QED
    BY <1>3, <2>1, <2>2
<1>5. ASSUME NEW w \in Workers, GetJob(w) PROVE KnownJobs'
  <2>1. UNCHANGED status /\ status[worker[w].job] # "absent" /\ worker[w].pc # "idle"
    BY <1>5 DEF GetJob
  <2>2. worker[w] \in WorkerState
    BY DEF TypeInv, WorkersOK
  <2>3. PICK s : worker' = [worker EXCEPT ![w] = s] /\ s.job = worker[w].job
    BY <1>5, <2>2 DEF GetJob, Goto, Aim, WorkerState
  <2>4. QED
    BY <1>3, <2>1, <2>3
<1>6. ASSUME NEW w \in Workers,
             \/ ReadJob(w) \/ WriteJob(w) \/ Embed(w) \/ WorkRaises(w) \/ DatabaseError(w)
             \/ Reroute(w) \/ Disconnect(w)
             \/ \E e \in EmbedJobs : StartEmbedding(w, e) \/ StartEmbeddingRaises(w, e)
      PROVE  KnownJobs'
  <2>1. \A j \in Jobs : status[j] # "absent" => status'[j] # "absent"
    <3>1. CASE Save(w) /\ worker[w].pc = "write"
      BY <3>1, SaveKeepsRows
    <3>2. CASE \E e \in EmbedJobs : status' = [status EXCEPT ![e] = "queued"]
      BY <3>2 DEF TypeInv, RowsOK
    <3>3. CASE UNCHANGED status
      BY <3>3
    <3>4. QED
      BY <1>6, <3>1, <3>2, <3>3
         DEF ReadJob, WriteJob, Embed, WorkRaises, DatabaseError, Reroute, Disconnect,
             StartEmbedding, StartEmbeddingRaises
  <2>2. worker[w] \in WorkerState
    BY DEF TypeInv, WorkersOK
  <2>3. PICK s : /\ worker' = [worker EXCEPT ![w] = s]
                 /\ s.pc \in {"read", "write", "work"} =>
                       /\ s.job = worker[w].job
                       /\ worker[w].pc \in {"read", "write", "work"}
    <3>1. CASE Disconnect(w)
      <4> DEFINE s == [worker[w] EXCEPT !.held = FALSE]
      <4>1. worker' = [worker EXCEPT ![w] = s]
        BY <3>1 DEF Disconnect
      <4>2. s.pc = worker[w].pc /\ s.job = worker[w].job
        BY <2>2 DEF WorkerState
      <4> HIDE DEF s
      <4>3. QED
        BY <4>1, <4>2
    <3>2. CASE \E pc \in {"reroute", "ackRouted"} : Goto(w, pc)
      <4>1. PICK pc \in {"reroute", "ackRouted"} : Goto(w, pc)
        BY <3>2
      <4> DEFINE s == [worker[w] EXCEPT !.pc = pc]
      <4>2. worker' = [worker EXCEPT ![w] = s]
        BY <4>1 DEF Goto
      <4>3. s.pc = pc
        BY <2>2 DEF WorkerState
      <4> HIDE DEF s
      <4>4. QED
        BY <4>1, <4>2, <4>3
    <3>3. CASE /\ worker[w].pc \in {"read", "write", "work"}
               /\ \/ \E pc \in {"write", "work", "ack", "reroute"} : Goto(w, pc)
                  \/ \E goal \in JobStatus : Aim(w, goal)
      BY <2>2, <3>3 DEF Goto, Aim, WorkerState
    <3>4. ReadJob(w) \/ WriteJob(w) =>
            /\ worker[w].pc \in {"read", "write", "work"}
            /\ \/ \E pc \in {"write", "work", "ack", "reroute"} : Goto(w, pc)
               \/ \E goal \in JobStatus : Aim(w, goal)
      BY <2>2 DEF ReadJob, WriteJob, WorkerState, JobStatus
    <3>5. ASSUME \/ Embed(w) \/ WorkRaises(w)
                 \/ \E e \in EmbedJobs : StartEmbedding(w, e) \/ StartEmbeddingRaises(w, e)
          PROVE  worker[w].pc = "work" /\ \E goal \in JobStatus : Aim(w, goal)
      BY <3>5 DEF Embed, WorkRaises, StartEmbedding, StartEmbeddingRaises, JobStatus
    <3>6. DatabaseError(w) \/ Reroute(w) =>
            \E pc \in {"reroute", "ackRouted"} : Goto(w, pc)
      BY DEF DatabaseError, Reroute
    <3>7. QED
      BY <1>6, <3>1, <3>2, <3>3, <3>4, <3>5, <3>6
  <2>4. QED
    BY <1>3, <2>1, <2>3
<1>7. CASE UNCHANGED vars
  BY <1>7, <1>a DEF vars
<1>8. QED
  BY <1>1, <1>2, <1>4, <1>5, <1>6, <1>7 DEF Next, WorkerStep, WorkerFault

-----------------------------------------------------------------------------
(***************************************************************************)
(* Delivered once and undisturbed: where the one copy of a job's message is *)
(* and what its status is by then.                                          *)
(***************************************************************************)
\* Without faults nobody loses a message that is in hand.
Undisturbed == \A w \in Workers : worker[w].pc # "idle" => worker[w].held

Waits(m) == main[m] > 0 \/ retry[m] > 0 \/ dlq[m] > 0

\* One worker has the job, or one queue its message, or neither.
OnePlace(j) ==
    /\ \A v, w \in Active(j) : v = w
    /\ \A m \in Message : m.job = j /\ Waits(m) => Active(j) = {} /\ main[m] + retry[m] + dlq[m] = 1
    /\ \A m, n \in Message : m.job = j /\ n.job = j /\ Waits(m) /\ Waits(n) => m = n
    /\ sent[j] = 0 => Active(j) = {} /\ \A m \in Message : m.job = j => ~Waits(m)

\* The status at each step of a worker is the one the step before left.
Fits(s, st) ==
    /\ s.pc = "get" => st \in {"queued", "failed"}
    /\ s.pc \in {"read", "write"} => MayBecome(st, s.goal)
    /\ s.pc \in {"read", "write"} /\ s.goal = "failed" => st = "running"
    /\ s.pc = "work" => st = "running"
    /\ s.pc = "ack" => st = "completed"
    /\ s.pc = "reroute" => st = "failed"

StatusFits(j) ==
    /\ \A w \in Active(j) : Fits(worker[w], status[j])
    /\ \A m \in Message : m.job = j =>
          /\ main[m] > 0 => status[j] \in {"queued", "failed"}
          /\ retry[m] > 0 \/ dlq[m] > 0 => status[j] = "failed"
    /\ sent[j] = 0 => status[j] \in {"absent", "queued"}

\* The child comes with the completion.
ChildrenFit(j) ==
    /\ completions[j] = IF status[j] = "completed" THEN 1 ELSE 0
    /\ \A e, f \in Children(j) : e = f
    /\ Children(j) # {} =>
          \/ status[j] = "completed"
          \/ \E w \in Active(j) : worker[w].pc \in {"read", "write"} /\ worker[w].goal = "completed"

CleanOK(j) == OnePlace(j) /\ StatusFits(j) /\ ChildrenFit(j)

CInv == EInv /\ (faults = 0 => Undisturbed /\ \A j \in Jobs : sent[j] <= 1 => CleanOK(j))

LEMMA SmallSet ==
  ASSUME NEW S, \A x, y \in S : x = y
  PROVE  Cardinality(S) <= 1
<1>1. CASE S = {}
  BY <1>1, FS_EmptySet
<1>2. ASSUME NEW x \in S PROVE Cardinality(S) <= 1
  <2>1. S = {x}
    BY <1>2
  <2> QED
    BY <2>1, FS_Singleton
<1> QED
  BY <1>1, <1>2

\* Whoever is active has something in hand.
LEMMA ActiveWorkers ==
  ASSUME TypeInv, NEW j \in Jobs
  PROVE  /\ Active(j) = {w \in Workers : worker[w].job = j /\ worker[w].held /\ worker[w].pc # "ackRouted"}
         /\ \A w \in Active(j) : /\ worker[w] \in WorkerState /\ worker[w].goal \in JobStatus
                                 /\ worker[w].pc \in {"get", "read", "write", "work", "ack", "reroute"}
<1>1. Active(j) = {w \in Workers : worker[w].job = j /\ worker[w].held /\ worker[w].pc # "ackRouted"}
  BY DEF Active, Holders
<1>2. \A w \in Workers : worker[w] \in WorkerState /\ MayHold(w, worker[w])
  BY DEF TypeInv, WorkersOK
<1> QED
  BY <1>1, <1>2 DEF WorkerState, MayHold

\* An absent job is in nobody's hands.
LEMMA AbsentIsNowhere ==
  ASSUME TypeInv, NEW j \in Jobs, CleanOK(j), status[j] = "absent"
  PROVE  Active(j) = {} /\ (\A m \in Message : m.job = j => ~Waits(m)) /\ Children(j) = {}
<1>1. Active(j) = {}
  <2> SUFFICES ASSUME NEW w \in Active(j) PROVE FALSE
    OBVIOUS
  <2>1. Fits(worker[w], "absent") /\ worker[w].pc \in {"get", "read", "write", "work", "ack", "reroute"}
    BY ActiveWorkers DEF CleanOK, StatusFits
  <2> QED
    BY <2>1 DEF Fits, MayBecome, Allowed
<1>2. \A m \in Message : m.job = j => ~Waits(m)
  BY DEF CleanOK, StatusFits, Waits
<1> QED
  BY <1>1, <1>2 DEF CleanOK, ChildrenFit

\* A step that is about other jobs.
LEMMA CleanFrame ==
  ASSUME NEW k \in Jobs, CleanOK(k), sent'[k] = sent[k], status'[k] = status[k],
         completions'[k] = completions[k], Children(k)' = Children(k),
         \A m \in Message : m.job = k => main'[m] = main[m] /\ retry'[m] = retry[m] /\ dlq'[m] = dlq[m],
         \A v \in Workers : worker[v].job = k \/ worker'[v].job = k => worker'[v] = worker[v]
  PROVE  CleanOK(k)'
<1>1. Active(k)' = Active(k) /\ \A v \in Active(k) : v \in Workers /\ worker'[v] = worker[v]
  BY DEF Active, Holders
<1>2. OnePlace(k)'
  BY <1>1 DEF CleanOK, OnePlace, Waits
<1>3. StatusFits(k)'
  BY <1>1 DEF CleanOK, StatusFits
<1>4. ChildrenFit(k)'
  BY <1>1 DEF CleanOK, ChildrenFit
<1> QED
  BY <1>2, <1>3, <1>4 DEF CleanOK

\* The row of a job is inserted.
LEMMA NewRow ==
  ASSUME TypeInv, NEW k \in Jobs, CleanOK(k), status[k] = "absent", status'[k] = "queued",
         sent'[k] = sent[k], completions'[k] = completions[k], Children(k)' = Children(k),
         UNCHANGED queues, Active(k)' = Active(k)
  PROVE  CleanOK(k)'
<1>1. Active(k) = {} /\ (\A m \in Message : m.job = k => ~Waits(m)) /\ Children(k) = {}
  BY AbsentIsNowhere
<1>2. \A m \in Message : m.job = k => ~Waits(m)' /\ ~(main'[m] > 0) /\ ~(retry'[m] > 0) /\ ~(dlq'[m] > 0)
  BY <1>1 DEF Waits, queues
<1>3. OnePlace(k)'
  BY <1>1, <1>2 DEF OnePlace
<1>4. StatusFits(k)'
  BY <1>1, <1>2 DEF StatusFits
<1>5. ChildrenFit(k)'
  BY <1>1 DEF CleanOK, ChildrenFit
<1> QED
  BY <1>3, <1>4, <1>5 DEF CleanOK

\* The one worker that has the job goes on with it.
LEMMA CleanMove ==
  ASSUME TypeInv, NEW j \in Jobs, CleanOK(j), NEW w \in Active(j), NEW s,
         worker'[w] = s, \A v \in Workers \ {w} : worker'[v] = worker[v],
         s.job = j, s.held, s.pc # "ackRouted", UNCHANGED <<queues, sent>>,
         Fits(s, status'[j]),
         completions'[j] = IF status'[j] = "completed" THEN 1 ELSE 0,
         \A e, f \in Children(j)' : e = f,
         Children(j)' # {} => \/ status'[j] = "completed"
                              \/ s.pc \in {"read", "write"} /\ s.goal = "completed"
  PROVE  CleanOK(j)'
<1>1. Active(j) = {w} /\ w \in Workers /\ (\A m \in Message : m.job = j => ~Waits(m)) /\ sent[j] # 0
  BY ActiveWorkers DEF CleanOK, OnePlace
<1>2. Active(j)' = {w}
  <2>1. w \in Active(j)'
    BY <1>1 DEF Active, Holders
  <2>2. ASSUME NEW v \in Active(j)', v # w PROVE FALSE
    <3>1. v \in Workers /\ worker'[v] = worker[v]
      BY <2>2 DEF Active, Holders
    <3>2. v \in Active(j)
      BY <2>2, <3>1 DEF Active, Holders
    <3> QED
      BY <1>1, <2>2, <3>2
  <2> QED
    BY <2>1, <2>2
<1>3. \A m \in Message : m.job = j => ~Waits(m)' /\ ~(main'[m] > 0) /\ ~(retry'[m] > 0) /\ ~(dlq'[m] > 0)
  BY <1>1 DEF Waits, queues
<1>4. OnePlace(j)'
  BY <1>1, <1>2, <1>3 DEF OnePlace
<1>5. StatusFits(j)'
  BY <1>1, <1>2, <1>3 DEF StatusFits
<1>6. ChildrenFit(j)'
  BY <1>2 DEF ChildrenFit
<1> QED
  BY <1>4, <1>5, <1>6 DEF CleanOK

\* The job is in nobody's hands any more, and at most one message of it waits.
LEMMA CleanLeaves ==
  ASSUME TypeInv, NEW j \in Jobs, CleanOK(j), Active(j)' = {},
         status'[j] = status[j], completions'[j] = completions[j], Children(j)' = Children(j),
         sent'[j] # 0,
         Children(j) # {} => status[j] = "completed",
         \A m \in Message : m.job = j /\ Waits(m)' => main'[m] + retry'[m] + dlq'[m] = 1,
         \A m, n \in Message : m.job = j /\ n.job = j /\ Waits(m)' /\ Waits(n)' => m = n,
         \A m \in Message : m.job = j =>
            /\ main'[m] > 0 => status[j] \in {"queued", "failed"}
            /\ retry'[m] > 0 \/ dlq'[m] > 0 => status[j] = "failed"
  PROVE  CleanOK(j)'
<1>1. OnePlace(j)'
  BY DEF OnePlace
<1>2. StatusFits(j)'
  BY DEF StatusFits
<1>3. ChildrenFit(j)'
  BY DEF CleanOK, ChildrenFit
<1> QED
  BY <1>1, <1>2, <1>3 DEF CleanOK

LEMMA InitClean == Init => CInv
<1> SUFFICES ASSUME Init PROVE CInv
  OBVIOUS
<1>1. TypeInv /\ EInv
  BY InitType, InitChildren
<1>2. Undisturbed /\ \A j \in Jobs : Active(j) = {}
  BY IdleType DEF Init, Undisturbed, Active, Holders
<1>3. \A m \in Message : main[m] = 0 /\ retry[m] = 0 /\ dlq[m] = 0
  BY DEF Init, Empty
<1>4. ASSUME NEW j \in Jobs PROVE CleanOK(j)
  <2>1. Children(j) = {}
    BY JobQueueAssumption DEF Init, Children
  <2>2. status[j] = "absent" /\ completions[j] = 0
    BY DEF Init
  <2> QED
    BY <1>2, <1>3, <2>1, <2>2 DEF CleanOK, OnePlace, StatusFits, ChildrenFit, Waits
<1> QED
  BY <1>1, <1>2, <1>4 DEF CInv

\* One worker moves: what the other jobs and workers see of it.
LEMMA OneMoves ==
  ASSUME TypeInv, Undisturbed, NEW w \in Workers, NEW s, worker' = [worker EXCEPT ![w] = s],
         s.pc # "idle" => s.held
  PROVE  /\ Undisturbed' /\ worker'[w] = s /\ \A v \in Workers \ {w} : worker'[v] = worker[v]
<1>1. worker'[w] = s /\ \A v \in Workers \ {w} : worker'[v] = worker[v]
  BY DEF TypeInv, WorkersOK
<1> QED
  BY <1>1 DEF Undisturbed

\* A worker's step that touches its own job only.
LEMMA OthersClean ==
  ASSUME TypeInv, NEW w \in Workers, NEW s, worker' = [worker EXCEPT ![w] = s],
         s.job \in {worker[w].job, NoJob},
         NEW k \in Jobs, k # worker[w].job, CleanOK(k), sent'[k] = sent[k],
         status'[k] = status[k], completions'[k] = completions[k], Children(k)' = Children(k),
         \A m \in Message : m.job = k => main'[m] = main[m] /\ retry'[m] = retry[m] /\ dlq'[m] = dlq[m]
  PROVE  CleanOK(k)'
<1>1. k # NoJob
  BY JobQueueAssumption
<1>2. worker'[w] = s /\ \A v \in Workers \ {w} : worker'[v] = worker[v]
  BY DEF TypeInv, WorkersOK
<1>3. \A v \in Workers : worker[v].job = k \/ worker'[v].job = k => worker'[v] = worker[v]
  BY <1>1, <1>2
<1> QED
  BY <1>3, CleanFrame

\* What a step leaves of a worker's job fits the state it leaves the worker in.
FitsAfter(s, j) ==
    /\ Fits(s, status'[j])
    /\ completions'[j] = IF status'[j] = "completed" THEN 1 ELSE 0
    /\ Children(j) # {} => \/ status'[j] = "completed"
                           \/ s.pc \in {"read", "write"} /\ s.goal = "completed"

\* A worker goes on with a job: the steps that leave queues and children alone.
LEMMA GoesOnClean ==
  ASSUME TypeInv, Undisturbed, NEW w \in Workers, NEW j, j = worker[w].job,
         worker[w].pc \in {"get", "read", "write", "work"},
         NEW s \in WorkerState, worker' = [worker EXCEPT ![w] = s], s.job = j, s.held = worker[w].held,
         s.pc \notin {"idle", "ackRouted"},
         UNCHANGED <<parent, queues, sent>>,
         \A k \in Jobs : k # j => status'[k] = status[k] /\ completions'[k] = completions[k],
         \A k \in Jobs : sent[k] <= 1 => CleanOK(k),
         CleanOK(j) => FitsAfter(s, j)
  PROVE  Undisturbed' /\ \A k \in Jobs : sent[k] <= 1 => CleanOK(k)'
<1>1. worker[w].held /\ s.held /\ j \in Jobs
  BY HeldMessage DEF Undisturbed, TypeInv
<1>2. Undisturbed' /\ worker'[w] = s /\ \A v \in Workers \ {w} : worker'[v] = worker[v]
  BY <1>1, OneMoves
<1>3. \A k \in Jobs : Children(k)' = Children(k)
  BY DEF Children
<1>4. ASSUME NEW k \in Jobs, k # j, sent[k] <= 1 PROVE CleanOK(k)'
  BY <1>3, <1>4, OthersClean DEF queues
<1>5. ASSUME sent[j] <= 1 PROVE CleanOK(j)'
  <2>1. w \in Active(j) /\ CleanOK(j)
    BY <1>1, <1>5, ActiveWorkers
  <2>2. \A e, f \in Children(j)' : e = f
    BY <1>1, <1>3, <2>1 DEF CleanOK, ChildrenFit
  <2> QED
    BY <1>1, <1>2, <1>3, <2>1, <2>2, CleanMove DEF FitsAfter
<1> QED
  BY <1>2, <1>4, <1>5

\* A worker alone with its job: its own state fits, and a child of the job is
\* there only when it is about to complete it.
LEMMA OwnState ==
  ASSUME TypeInv, Undisturbed, NEW w \in Workers, worker[w].pc \notin {"idle", "ackRouted"},
         NEW j, j = worker[w].job, CleanOK(j)
  PROVE  /\ j \in Jobs /\ w \in Active(j) /\ Active(j) = {w} /\ Fits(worker[w], status[j])
         /\ sent[j] # 0 /\ \A m \in Message : m.job = j => ~Waits(m)
         /\ completions[j] = IF status[j] = "completed" THEN 1 ELSE 0
         /\ Children(j) # {} => \/ status[j] = "completed"
                                \/ worker[w].pc \in {"read", "write"} /\ worker[w].goal = "completed"
<1>1. j \in Jobs /\ worker[w].held
  BY HeldMessage DEF Undisturbed, TypeInv
<1>2. w \in Active(j)
  BY <1>1, ActiveWorkers
<1>3. Active(j) = {w}
  BY <1>2 DEF CleanOK, OnePlace
<1>4. sent[j] # 0 /\ \A m \in Message : m.job = j => ~Waits(m)
  BY <1>2 DEF CleanOK, OnePlace
<1>5. Fits(worker[w], status[j])
  BY <1>2 DEF CleanOK, StatusFits
<1> QED
  BY <1>1, <1>2, <1>3, <1>4, <1>5 DEF CleanOK, ChildrenFit

\* Looking a job up and asking the table.
LEMMA ReadClean ==
  ASSUME TypeInv, Undisturbed, \A k \in Jobs : sent[k] <= 1 => CleanOK(k),
         NEW w \in Workers, GetJob(w) \/ ReadJob(w) \/ Embed(w) \/ WorkRaises(w),
         w \in IngestWorkers => ~Embed(w)
  PROVE  Undisturbed' /\ \A k \in Jobs : sent[k] <= 1 => CleanOK(k)'
<1> DEFINE j == worker[w].job
<1>1. worker[w] \in WorkerState /\ j \in Jobs /\ worker[w].pc \in {"get", "read", "work"}
  BY HeldMessage DEF GetJob, ReadJob, Embed, WorkRaises, TypeInv, WorkersOK
<1>2. UNCHANGED <<parent, queues, sent, status, completions>>
  BY DEF GetJob, ReadJob, Embed, WorkRaises
<1>3. ASSUME NEW s, worker' = [worker EXCEPT ![w] = s], s \in WorkerState, s.job = j, s.held = worker[w].held,
             s.pc \in {"read", "write", "work", "ack", "reroute"},
             CleanOK(j) => Fits(s, status[j]) /\ (worker[w].goal = "completed" /\ worker[w].pc = "read" =>
                                                   s.goal = "completed" /\ s.pc \in {"read", "write"})
      PROVE  Undisturbed' /\ \A k \in Jobs : sent[k] <= 1 => CleanOK(k)'
  <2>1. ASSUME CleanOK(j)
        PROVE  FitsAfter(s, j)
    BY <1>1, <1>2, <1>3, <2>1, OwnState DEF FitsAfter
  <2> HIDE DEF j
  <2> QED
    BY <1>1, <1>2, <1>3, <2>1, GoesOnClean DEF j
<1>4. ASSUME NEW pc \in {"write", "work", "ack", "reroute"}, Goto(w, pc)
      PROVE  \E s \in WorkerState : /\ worker' = [worker EXCEPT ![w] = s] /\ s.job = j /\ s.held = worker[w].held
                                    /\ s.pc = pc /\ s.goal = worker[w].goal
  <2> DEFINE s == [worker[w] EXCEPT !.pc = pc]
  <2>1. /\ s \in WorkerState /\ s.job = j /\ s.held = worker[w].held /\ s.pc = pc /\ s.goal = worker[w].goal
        /\ worker' = [worker EXCEPT ![w] = s]
    BY <1>1, <1>4 DEF Goto, WorkerState
  <2> QED
    BY <2>1
<1>5. ASSUME NEW goal \in JobStatus, Aim(w, goal)
      PROVE  \E s \in WorkerState : /\ worker' = [worker EXCEPT ![w] = s] /\ s.job = j /\ s.held = worker[w].held
                                    /\ s.pc = "read" /\ s.goal = goal
  <2> DEFINE s == [worker[w] EXCEPT !.pc = "read", !.goal = goal]
  <2>1. /\ s \in WorkerState /\ s.job = j /\ s.held = worker[w].held /\ s.pc = "read" /\ s.goal = goal
        /\ worker' = [worker EXCEPT ![w] = s]
    BY <1>1, <1>5 DEF Aim, WorkerState
  <2> QED
    BY <2>1
<1>6. CASE GetJob(w)
  <2>1. CASE status[j] = "completed" /\ Goto(w, "ack")
    <3>1. PICK s \in WorkerState : /\ worker' = [worker EXCEPT ![w] = s] /\ s.job = j /\ s.held = worker[w].held
                                   /\ s.pc = "ack"
      BY <1>4, <2>1
    <3>2. Fits(s, status[j])
      BY <2>1, <3>1 DEF Fits
    <3> QED
      BY <1>3, <1>6, <3>1, <3>2 DEF GetJob
  <2>2. ASSUME NEW goal \in {"queued", "running"}, Aim(w, goal), MayBecome(status[j], goal) \/ status[j] = "running"
        PROVE  Undisturbed' /\ \A k \in Jobs : sent[k] <= 1 => CleanOK(k)'
    <3>1. PICK s \in WorkerState : /\ worker' = [worker EXCEPT ![w] = s] /\ s.job = j /\ s.held = worker[w].held
                                   /\ s.pc = "read" /\ s.goal = goal
      BY <1>5, <2>2 DEF JobStatus
    <3>2. ASSUME CleanOK(j) PROVE Fits(s, status[j])
      <4>1. status[j] # "running"
        BY <1>6, <3>2, OwnState DEF GetJob, Fits
      <4> QED
        BY <2>2, <3>1, <4>1 DEF Fits
    <3> QED
      BY <1>3, <1>6, <3>1, <3>2 DEF GetJob
  <2> QED
    BY <1>6, <2>1, <2>2 DEF GetJob, MayBecome, Allowed
<1>7. CASE ReadJob(w)
  <2>1. CASE MayBecome(status[j], worker[w].goal) /\ Goto(w, "write")
    <3>1. PICK s \in WorkerState : /\ worker' = [worker EXCEPT ![w] = s] /\ s.job = j /\ s.held = worker[w].held
                                   /\ s.pc = "write" /\ s.goal = worker[w].goal
      BY <1>4, <2>1
    <3>2. ASSUME CleanOK(j) PROVE Fits(s, status[j])
      BY <1>7, <2>1, <3>1, <3>2, OwnState DEF ReadJob, Fits
    <3> QED
      BY <1>3, <3>1, <3>2
  <2>2. CASE ~MayBecome(status[j], worker[w].goal) /\ Goto(w, "reroute")
    <3>1. PICK s \in WorkerState : /\ worker' = [worker EXCEPT ![w] = s] /\ s.job = j /\ s.held = worker[w].held
                                   /\ s.pc = "reroute"
      BY <1>4, <2>2
    <3>2. ~CleanOK(j)
      BY <1>7, <2>2, OwnState DEF ReadJob, Fits
    <3> QED
      BY <1>3, <3>1, <3>2
  <2> QED
    BY <1>7, <2>1, <2>2 DEF ReadJob
<1>8. CASE Embed(w) \/ WorkRaises(w)
  <2>1. PICK goal \in {"completed", "failed"} : Aim(w, goal)
    BY <1>8 DEF Embed, WorkRaises
  <2>2. PICK s \in WorkerState : /\ worker' = [worker EXCEPT ![w] = s] /\ s.job = j /\ s.held = worker[w].held
                                 /\ s.pc = "read" /\ s.goal = goal
    BY <1>5, <2>1 DEF JobStatus
  <2>3. worker[w].pc = "work"
    BY <1>8 DEF Embed, WorkRaises
  <2>4. ASSUME CleanOK(j) PROVE Fits(s, status[j])
    <3>1. status[j] = "running"
      BY <2>3, <2>4, OwnState DEF Fits
    <3> QED
      BY <2>1, <2>2, <3>1 DEF Fits, MayBecome, Allowed
  <2> QED
    BY <1>3, <2>2, <2>3, <2>4
<1> QED
  BY <1>6, <1>7, <1>8

\* Writing the status.
LEMMA WriteClean ==
  ASSUME TypeInv, Undisturbed, \A k \in Jobs : sent[k] <= 1 => CleanOK(k),
         NEW w \in Workers, WriteJob(w)
  PROVE  Undisturbed' /\ \A k \in Jobs : sent[k] <= 1 => CleanOK(k)'
<1>1. /\ worker[w] \in WorkerState /\ worker[w].job \in Jobs /\ worker[w].pc = "write" /\ Save(w)
      /\ worker[w].goal \in JobStatus /\ UNCHANGED <<parent, queues, sent>>
  BY HeldMessage DEF WriteJob, TypeInv, WorkersOK, WorkerState
<1>2. PICK j, goal : j = worker[w].job /\ goal = worker[w].goal
  OBVIOUS
<1>3. /\ status' = [status EXCEPT ![j] = goal] /\ status'[j] = goal
      /\ completions'[j] = IF goal = "completed" THEN completions[j] + 1 ELSE completions[j]
      /\ \A k \in Jobs : k # j => status'[k] = status[k] /\ completions'[k] = completions[k]
  BY <1>1, <1>2 DEF Save, TypeInv, RowsOK
<1>4. PICK s \in WorkerState :
         /\ worker' = [worker EXCEPT ![w] = s] /\ s.job = j /\ s.held = worker[w].held
         /\ goal = "queued" => s.pc = "read" /\ s.goal = "running"
         /\ goal = "running" => s.pc = "work"
         /\ goal = "completed" => s.pc = "ack"
         /\ goal = "failed" => s.pc = "reroute"
         /\ s.pc \in {"read", "work", "ack", "reroute"}
  <2>1. CASE goal = "queued"
    <3> DEFINE s == [worker[w] EXCEPT !.pc = "read", !.goal = "running"]
    <3>1. s \in WorkerState /\ s.job = j /\ s.held = worker[w].held /\ s.pc = "read" /\ s.goal = "running"
      BY <1>1, <1>2 DEF WorkerState, JobStatus
    <3>2. worker' = [worker EXCEPT ![w] = s]
      BY <1>2, <2>1 DEF WriteJob, Aim
    <3> QED
      BY <2>1, <3>1, <3>2
  <2>2. ASSUME NEW pc \in {"work", "ack", "reroute"}, Goto(w, pc)
        PROVE  \E s \in WorkerState : worker' = [worker EXCEPT ![w] = s] /\ s.job = j /\ s.held = worker[w].held /\ s.pc = pc
    <3> DEFINE s == [worker[w] EXCEPT !.pc = pc]
    <3>1. s \in WorkerState /\ s.job = j /\ s.held = worker[w].held /\ s.pc = pc
      BY <1>1, <1>2 DEF WorkerState
    <3>2. worker' = [worker EXCEPT ![w] = s]
      BY <2>2 DEF Goto
    <3> QED
      BY <3>1, <3>2
  <2>3. CASE goal = "running"
    BY <1>2, <2>2, <2>3 DEF WriteJob
  <2>4. CASE goal = "completed"
    BY <1>2, <2>2, <2>4 DEF WriteJob
  <2>5. CASE goal = "failed"
    BY <1>2, <2>2, <2>5 DEF WriteJob
  <2> QED
    BY <1>1, <1>2, <2>1, <2>3, <2>4, <2>5 DEF JobStatus
<1>5. ASSUME CleanOK(j) PROVE FitsAfter(s, j)
  <2>1. /\ MayBecome(status[j], goal) /\ completions[j] = IF status[j] = "completed" THEN 1 ELSE 0
        /\ Children(j) # {} => status[j] = "completed" \/ goal = "completed"
    BY <1>1, <1>2, <1>5, OwnState DEF Fits
  <2>2. status[j] # "completed"
    BY <2>1 DEF MayBecome, Allowed
  <2>3. Fits(s, status'[j])
    BY <1>1, <1>2, <1>3, <1>4 DEF Fits, MayBecome, Allowed, JobStatus
  <2> QED
    BY <1>3, <2>1, <2>2, <2>3 DEF FitsAfter
<1>6. worker[w].pc \in {"get", "read", "write", "work"} /\ s.pc \notin {"idle", "ackRouted"}
  BY <1>1, <1>4
<1>7. UNCHANGED <<parent, queues, sent>> /\ worker' = [worker EXCEPT ![w] = s]
  BY <1>1, <1>4
<1>8. \A k \in Jobs : k # j => status'[k] = status[k] /\ completions'[k] = completions[k]
  BY <1>3
<1>9. j = worker[w].job /\ s \in WorkerState /\ s.job = j /\ s.held = worker[w].held
  BY <1>2, <1>4
<1> QED
  BY <1>5, <1>6, <1>7, <1>8, <1>9, GoesOnClean

\* The row of an embedding job comes with the completion that is due.
LEMMA StartEmbeddingClean ==
  ASSUME EInv, Undisturbed, \A k \in Jobs : sent[k] <= 1 => CleanOK(k),
         NEW w \in Workers, NEW e \in EmbedJobs, StartEmbedding(w, e)
  PROVE  Undisturbed' /\ \A k \in Jobs : sent[k] <= 1 => CleanOK(k)'
<1>1. /\ TypeInv /\ worker[w] \in WorkerState /\ worker[w].pc = "work" /\ w \in IngestWorkers
      /\ UNCHANGED <<queues, sent, completions>> /\ worker[w].held
  BY DEF EInv, TypeInv, WorkersOK, StartEmbedding, Undisturbed
<1>2. PICK j : j = worker[w].job
  OBVIOUS
<1>3. /\ j \in IngestJobs /\ j \in Jobs /\ e \in Jobs /\ e # j /\ NoJob \notin Jobs
  BY <1>1, <1>2, JobQueueAssumption DEF TypeInv, WorkersOK, MayHold, Serves, Jobs
<1>4. /\ status[e] = "absent" /\ status' = [status EXCEPT ![e] = "queued"] /\ status'[e] = "queued"
      /\ \A k \in Jobs : k # e => status'[k] = status[k]
      /\ parent' = [parent EXCEPT ![e] = j] /\ parent[e] = NoJob /\ parent'[e] = j
      /\ \A f \in EmbedJobs : f # e => parent'[f] = parent[f]
  BY <1>1, <1>2, <1>3 DEF StartEmbedding, TypeInv, RowsOK, EInv, ChildrenExist
<1> DEFINE s == [worker[w] EXCEPT !.pc = "read", !.goal = "completed"]
<1>5. /\ worker' = [worker EXCEPT ![w] = s] /\ s \in WorkerState /\ s.job = j /\ s.held
      /\ s.pc = "read" /\ s.goal = "completed"
  BY <1>1, <1>2 DEF StartEmbedding, Aim, WorkerState, JobStatus
<1> HIDE DEF s
<1>6. Undisturbed' /\ worker'[w] = s /\ \A v \in Workers \ {w} : worker'[v] = worker[v]
  BY <1>1, <1>5, OneMoves
<1>7. \A k \in Jobs : k # j => Children(k)' = Children(k)
  BY <1>3, <1>4 DEF Children
<1>8. ASSUME NEW k \in Jobs, k # j, k # e, sent[k] <= 1 PROVE CleanOK(k)'
  BY <1>1, <1>2, <1>4, <1>5, <1>7, <1>8, OthersClean DEF queues
<1>9. ASSUME sent[e] <= 1 PROVE CleanOK(e)'
  <2>1. \A v \in Workers : worker[v].job = e \/ worker'[v].job = e => worker'[v] = worker[v]
    BY <1>2, <1>3, <1>5, <1>6
  <2>2. Active(e)' = Active(e)
    BY <2>1 DEF Active, Holders
  <2> QED
    BY <1>1, <1>3, <1>4, <1>7, <1>9, <2>2, NewRow
<1>10. ASSUME sent[j] <= 1 PROVE CleanOK(j)'
  <2>1. CleanOK(j)
    BY <1>3, <1>10
  <2>2. /\ w \in Active(j) /\ status[j] = "running" /\ Children(j) = {} /\ completions[j] = 0
    BY <1>1, <1>2, <2>1, OwnState DEF Fits
  <2>3. Children(j)' = {e}
    <3>1. \A f \in EmbedJobs : parent[f] # j
      BY <2>2 DEF Children
    <3>2. \A f \in EmbedJobs : parent'[f] = j <=> f = e
      BY <1>4, <3>1
    <3> QED
      BY <3>2 DEF Children
  <2>4. status'[j] = "running" /\ completions'[j] = 0
    BY <1>1, <1>3, <1>4, <2>2
  <2>5. Fits(s, status'[j])
    BY <1>5, <2>4 DEF Fits, MayBecome, Allowed
  <2>6. \A f, g \in Children(j)' : f = g
    BY <2>3
  <2> QED
    BY <1>1, <1>3, <1>5, <1>6, <2>1, <2>2, <2>4, <2>5, <2>6, CleanMove
<1> QED
  BY <1>6, <1>8, <1>9, <1>10

\* A message goes from a queue into a worker's hands.
LEMMA DeliverClean ==
  ASSUME TypeInv, Undisturbed, \A k \in Jobs : sent[k] <= 1 => CleanOK(k),
         NEW w \in Workers, Deliver(w)
  PROVE  Undisturbed' /\ \A k \in Jobs : sent[k] <= 1 => CleanOK(k)'
<1>0. PICK m \in Message :
        /\ m.job \in Serves(w) /\ main[m] > 0 /\ main' = Take(main, m)
        /\ worker' = [worker EXCEPT ![w] =
                        [pc |-> "get", job |-> m.job, tries |-> m.tries,
                         goal |-> "queued", held |-> TRUE]]
  BY DEF Deliver
<1>1. PICK s :
        /\ m.job \in Serves(w) /\ main[m] > 0 /\ main' = Take(main, m)
        /\ s = [pc |-> "get", job |-> m.job, tries |-> m.tries, goal |-> "queued", held |-> TRUE]
        /\ worker' = [worker EXCEPT ![w] = s]
  BY <1>0
<1>2. /\ s.pc = "get" /\ s.job = m.job /\ s.held /\ s.goal = "queued"
      /\ UNCHANGED <<status, parent, retry, dlq, sent, completions>> /\ worker[w].pc = "idle"
  BY <1>1 DEF Deliver
<1>3. PICK j \in Jobs : j = m.job
  BY DEF Message
<1>4. Undisturbed' /\ worker'[w] = s /\ \A v \in Workers \ {w} : worker'[v] = worker[v]
  BY <1>1, <1>2, OneMoves
<1>5. main'[m] = main[m] - 1 /\ \A n \in Message : n # m => main'[n] = main[n]
  BY <1>1 DEF Take, TypeInv, BagsOK, Bag
<1>6. ~worker[w].held
  BY <1>2 DEF TypeInv, WorkersOK, MayHold
<1>7. ASSUME NEW k \in Jobs, k # j, sent[k] <= 1 PROVE CleanOK(k)'
  <2>1. Active(k)' = Active(k) /\ \A v \in Active(k) : worker'[v] = worker[v]
    BY <1>2, <1>3, <1>4, <1>6, <1>7 DEF Active, Holders
  <2>2. \A n \in Message : n.job = k => main'[n] = main[n] /\ retry'[n] = retry[n] /\ dlq'[n] = dlq[n]
    BY <1>2, <1>3, <1>5, <1>7
  <2>3. CleanOK(k)
    BY <1>7
  <2>4. OnePlace(k)'
    BY <1>2, <2>1, <2>2, <2>3 DEF CleanOK, OnePlace, Waits
  <2>5. StatusFits(k)'
    BY <1>2, <2>1, <2>2, <2>3 DEF CleanOK, StatusFits
  <2>6. ChildrenFit(k)'
    BY <1>2, <2>1, <2>3 DEF CleanOK, ChildrenFit, Children
  <2> QED
    BY <2>4, <2>5, <2>6 DEF CleanOK
<1>8. ASSUME sent[j] <= 1 PROVE CleanOK(j)'
  <2>1. CleanOK(j) /\ Waits(m)
    BY <1>1, <1>8 DEF Waits
  <2>2. /\ Active(j) = {} /\ main[m] + retry[m] + dlq[m] = 1
        /\ \A n \in Message : n.job = j /\ Waits(n) => n = m
        /\ sent[j] # 0
    BY <1>3, <2>1 DEF CleanOK, OnePlace
  <2>3. main[m] \in Nat /\ retry[m] \in Nat /\ dlq[m] \in Nat
    BY DEF TypeInv, BagsOK, Bag
  <2>4. main[m] = 1 /\ retry[m] = 0 /\ dlq[m] = 0
    BY <1>1, <2>2, <2>3
  <2>5. \A n \in Message : n.job = j => ~Waits(n)' /\ ~(main'[n] > 0) /\ ~(retry'[n] > 0) /\ ~(dlq'[n] > 0)
    BY <1>2, <1>5, <2>2, <2>4 DEF Waits
  <2>6. Active(j)' = {w}
    <3>1. w \in Active(j)'
      BY <1>2, <1>3, <1>4 DEF Active, Holders
    <3>2. ASSUME NEW v \in Active(j)', v # w PROVE FALSE
      <4>1. v \in Active(j)
        BY <1>4, <3>2 DEF Active, Holders
      <4> QED
        BY <2>2, <4>1
    <3> QED
      BY <3>1, <3>2
  <2>7. status[j] \in {"queued", "failed"}
    BY <1>1, <1>3, <2>1 DEF CleanOK, StatusFits
  <2>8. Fits(s, status[j])
    BY <1>2, <2>7 DEF Fits
  <2>9. OnePlace(j)'
    BY <1>2, <2>2, <2>5, <2>6 DEF OnePlace
  <2>10. StatusFits(j)'
    BY <1>2, <1>4, <2>2, <2>5, <2>6, <2>8 DEF StatusFits
  <2>11. ChildrenFit(j)'
    BY <1>2, <2>1, <2>2 DEF CleanOK, ChildrenFit, Children
  <2> QED
    BY <2>9, <2>10, <2>11 DEF CleanOK
<1> QED
  BY <1>4, <1>7, <1>8

\* A failed attempt becomes a message of the retry or the dead-letter queue.
LEMMA RerouteClean ==
  ASSUME TypeInv, Undisturbed, \A k \in Jobs : sent[k] <= 1 => CleanOK(k),
         NEW w \in Workers, Reroute(w)
  PROVE  Undisturbed' /\ \A k \in Jobs : sent[k] <= 1 => CleanOK(k)'
<1>1. /\ worker[w] \in WorkerState /\ worker[w].pc = "reroute" /\ worker[w].held
      /\ UNCHANGED <<status, parent, main, sent, completions>> /\ Goto(w, "ackRouted")
  BY DEF Reroute, TypeInv, WorkersOK
<1>2. PICK j, m : j = worker[w].job /\ m = [job |-> worker[w].job, tries |-> worker[w].tries + 1]
  OBVIOUS
<1>3. j \in Jobs /\ m \in Message /\ m.job = j
  BY <1>1, <1>2, HeldMessage DEF TypeInv
<1>4. \/ retry' = Put(retry, m) /\ UNCHANGED dlq
      \/ dlq' = Put(dlq, m) /\ UNCHANGED retry
  BY <1>2 DEF Reroute
<1>5. /\ retry'[m] + dlq'[m] = retry[m] + dlq[m] + 1
      /\ \A n \in Message : n # m => retry'[n] = retry[n] /\ dlq'[n] = dlq[n]
  BY <1>3, <1>4 DEF Put, TypeInv, BagsOK, Bag
<1>6. PICK s : worker' = [worker EXCEPT ![w] = s] /\ s.pc = "ackRouted" /\ s.job = j /\ s.held
  <2> DEFINE s == [worker[w] EXCEPT !.pc = "ackRouted"]
  <2>1. worker' = [worker EXCEPT ![w] = s] /\ s.pc = "ackRouted" /\ s.job = j /\ s.held
    BY <1>1, <1>2 DEF Goto, WorkerState
  <2> QED
    BY <2>1
<1>7. Undisturbed' /\ worker'[w] = s /\ \A v \in Workers \ {w} : worker'[v] = worker[v]
  BY <1>6, OneMoves
<1>8. \A k \in Jobs : Children(k)' = Children(k)
  BY <1>1 DEF Children
<1>9. ASSUME NEW k \in Jobs, k # j, sent[k] <= 1 PROVE CleanOK(k)'
  BY <1>1, <1>2, <1>3, <1>5, <1>6, <1>8, <1>9, OthersClean
<1>10. ASSUME sent[j] <= 1 PROVE CleanOK(j)'
  <2>1. CleanOK(j)
    BY <1>3, <1>10
  <2>2. /\ Active(j) = {w} /\ status[j] = "failed" /\ sent[j] # 0
        /\ \A n \in Message : n.job = j => ~Waits(n)
        /\ Children(j) # {} => status[j] = "completed"
    BY <1>1, <1>2, <2>1, OwnState DEF Fits
  <2>3. Active(j)' = {}
    <3> SUFFICES ASSUME NEW v \in Active(j)' PROVE FALSE
      OBVIOUS
    <3>1. v # w
      BY <1>6, <1>7 DEF Active, Holders
    <3>2. v \in Active(j)
      BY <1>7, <3>1 DEF Active, Holders
    <3> QED
      BY <2>2, <3>1, <3>2
  <2>4. \A n \in Message : n.job = j => main[n] = 0 /\ retry[n] = 0 /\ dlq[n] = 0
    BY <2>2 DEF Waits, TypeInv, BagsOK, Bag
  <2>5. \A n \in Message : n.job = j /\ n # m => ~Waits(n)'
    BY <1>1, <1>5, <2>4 DEF Waits
  <2>6. main'[m] + retry'[m] + dlq'[m] = 1
    <3>1. main'[m] = 0 /\ retry'[m] + dlq'[m] = 1
      BY <1>1, <1>3, <1>5, <2>4
    <3>2. retry'[m] \in Nat /\ dlq'[m] \in Nat
      BY <1>3, <1>4, <2>4 DEF Put, TypeInv, BagsOK, Bag
    <3> QED
      BY <3>1, <3>2
  <2>7. \A n \in Message : n.job = j => ~(main'[n] > 0)
    BY <1>1, <2>4
  <2> QED
    BY <1>1, <1>3, <1>8, <2>1, <2>2, <2>3, <2>5, <2>6, <2>7, CleanLeaves
<1> QED
  BY <1>7, <1>9, <1>10

\* A message is acknowledged.
LEMMA AckClean ==
  ASSUME TypeInv, Undisturbed, \A k \in Jobs : sent[k] <= 1 => CleanOK(k),
         NEW w \in Workers, Ack(w)
  PROVE  Undisturbed' /\ \A k \in Jobs : sent[k] <= 1 => CleanOK(k)'
<1>1. /\ worker[w].pc \in {"ack", "ackRouted"} /\ worker[w].held /\ worker' = [worker EXCEPT ![w] = Idle]
      /\ UNCHANGED <<status, parent, queues, sent, completions>> /\ Idle.job = NoJob
  BY DEF Ack, Idle
<1>2. PICK j : j = worker[w].job
  OBVIOUS
<1>3. j \in Jobs /\ NoJob \notin Jobs
  BY <1>1, <1>2, HeldMessage, JobQueueAssumption DEF TypeInv
<1>4. Undisturbed' /\ worker'[w] = Idle /\ \A v \in Workers \ {w} : worker'[v] = worker[v]
  BY <1>1, IdleType, OneMoves
<1>5. \A k \in Jobs : Children(k)' = Children(k)
  BY <1>1 DEF Children
<1>6. ASSUME NEW k \in Jobs, k # j, sent[k] <= 1 PROVE CleanOK(k)'
  BY <1>1, <1>2, <1>5, <1>6, OthersClean DEF queues
<1>7. ASSUME sent[j] <= 1 PROVE CleanOK(j)'
  <2>1. CleanOK(j)
    BY <1>3, <1>7
  <2>2. Active(j)' = Active(j) \ {w} /\ \A v \in Active(j)' : worker'[v] = worker[v]
    BY <1>3, <1>4, IdleType DEF Active, Holders
  <2>3. CASE worker[w].pc = "ackRouted"
    <3>1. Active(j)' = Active(j)
      BY <2>2, <2>3 DEF Active
    <3>2. OnePlace(j)'
      BY <1>1, <2>1, <3>1 DEF CleanOK, OnePlace, Waits, queues
    <3>3. StatusFits(j)'
      BY <1>1, <2>1, <2>2, <3>1 DEF CleanOK, StatusFits, queues
    <3>4. ChildrenFit(j)'
      BY <1>1, <1>3, <1>5, <2>1, <2>2, <3>1 DEF CleanOK, ChildrenFit
    <3> QED
      BY <3>2, <3>3, <3>4 DEF CleanOK
  <2>4. CASE worker[w].pc = "ack"
    <3>1. /\ Active(j) = {w} /\ status[j] = "completed" /\ sent[j] # 0
          /\ \A n \in Message : n.job = j => ~Waits(n)
      BY <1>2, <2>1, <2>4, OwnState DEF Fits
    <3>2. Active(j)' = {}
      BY <2>2, <3>1
    <3>3. \A n \in Message : n.job = j => ~Waits(n)' /\ ~(main'[n] > 0) /\ ~(retry'[n] > 0) /\ ~(dlq'[n] > 0)
      BY <1>1, <3>1 DEF Waits, queues
    <3> QED
      BY <1>1, <1>3, <1>5, <2>1, <3>1, <3>2, <3>3, CleanLeaves
  <2> QED
    BY <1>1, <2>3, <2>4
<1> QED
  BY <1>4, <1>6, <1>7

\* Jobs are created and messages sent, and the retry queue's TTL ends.
LEMMA WorldClean ==
  ASSUME TypeInv, Undisturbed, \A k \in Jobs : sent[k] <= 1 => CleanOK(k),
         \/ \E j \in Jobs : Create(j) \/ Enqueue(j)
         \/ \E m \in Message : RetryExpires(m)
  PROVE  Undisturbed' /\ \A k \in Jobs : sent'[k] <= 1 => CleanOK(k)'
<1>1. UNCHANGED <<worker, parent, completions, dlq>> /\ Undisturbed'
  BY DEF Create, Enqueue, RetryExpires, queues, Undisturbed
<1>2. \A k \in Jobs : /\ Children(k)' = Children(k) /\ Active(k)' = Active(k)
                      /\ \A v \in Active(k) : worker'[v] = worker[v]
  BY <1>1 DEF Children, Active, Holders
<1>3. ASSUME NEW k \in Jobs, CleanOK(k), sent'[k] = sent[k], status'[k] = status[k],
             \A m \in Message : m.job = k => main'[m] = main[m] /\ retry'[m] = retry[m]
      PROVE  CleanOK(k)'
  BY <1>1, <1>2, <1>3, CleanFrame
<1>4. ASSUME NEW j \in Jobs, Create(j), NEW k \in Jobs, sent'[k] <= 1 PROVE CleanOK(k)'
  <2>1. /\ status[j] = "absent" /\ status' = [status EXCEPT ![j] = "queued"] /\ status'[j] = "queued"
        /\ \A i \in Jobs : i # j => status'[i] = status[i]
        /\ UNCHANGED <<queues, sent>> /\ CleanOK(k)
    BY <1>4 DEF Create, TypeInv, RowsOK
  <2>2. CASE k = j
    BY <1>1, <1>2, <2>1, <2>2, NewRow
  <2>3. CASE k # j
    BY <1>3, <2>1, <2>3 DEF queues
  <2> QED
    BY <2>2, <2>3
<1>5. ASSUME NEW j \in Jobs, Enqueue(j), NEW k \in Jobs, sent'[k] <= 1 PROVE CleanOK(k)'
  <2> DEFINE m == [job |-> j, tries |-> 0]
  <2>0. m \in Message /\ m.job = j
    BY JobQueueAssumption DEF Message
  <2>b. main' = Put(main, m) /\ main \in Bag /\ sent' = [sent EXCEPT ![j] = @ + 1]
        /\ status[j] # "absent" /\ UNCHANGED <<status, retry>>
    BY <1>5 DEF Enqueue, TypeInv, BagsOK
  <2> HIDE DEF m
  <2>1. /\ m \in Message /\ m.job = j /\ status[j] # "absent" /\ UNCHANGED <<status, retry>>
        /\ main'[m] = main[m] + 1 /\ \A n \in Message : n # m => main'[n] = main[n]
        /\ sent'[j] = sent[j] + 1 /\ \A i \in Jobs : i # j => sent'[i] = sent[i]
    BY <2>0, <2>b DEF Put, TypeInv, RowsOK, Bag
  <2>2. CASE k # j
    BY <1>3, <1>5, <2>1, <2>2
  <2>3. CASE k = j
    <3>1. sent[j] = 0 /\ CleanOK(j)
      BY <1>5, <2>1, <2>3 DEF TypeInv, RowsOK
    <3>2. /\ Active(j) = {} /\ \A n \in Message : n.job = j => ~Waits(n)
          /\ status[j] = "queued" /\ (Children(j) # {} => status[j] = "completed")
      BY <2>1, <3>1 DEF CleanOK, OnePlace, StatusFits, ChildrenFit
    <3>3. \A n \in Message : n.job = j => main[n] = 0 /\ retry[n] = 0 /\ dlq[n] = 0
      BY <3>2 DEF Waits, TypeInv, BagsOK, Bag
    <3>4. \A n \in Message : n.job = j => retry'[n] = 0 /\ dlq'[n] = 0
      BY <1>1, <2>1, <3>3
    <3>5. main'[m] = 1 /\ \A n \in Message : n.job = j /\ n # m => main'[n] = 0
      BY <2>1, <3>3
    <3>6. OnePlace(j)'
      BY <1>2, <2>1, <3>1, <3>2, <3>4, <3>5 DEF OnePlace, Waits
    <3>7. StatusFits(j)'
      BY <1>2, <2>1, <3>1, <3>2, <3>4 DEF StatusFits
    <3>8. ChildrenFit(j)'
      BY <1>1, <1>2, <2>1, <3>1, <3>2 DEF CleanOK, ChildrenFit
    <3> QED
      BY <2>3, <3>6, <3>7, <3>8 DEF CleanOK
  <2> QED
    BY <2>2, <2>3
<1>6. ASSUME NEW m \in Message, RetryExpires(m), NEW k \in Jobs, sent'[k] <= 1 PROVE CleanOK(k)'
  <2>1. /\ retry[m] > 0 /\ retry'[m] = retry[m] - 1 /\ main'[m] = main[m] + 1
        /\ \A n \in Message : n # m => main'[n] = main[n] /\ retry'[n] = retry[n]
        /\ UNCHANGED <<status, sent>> /\ CleanOK(k)
    BY <1>6 DEF RetryExpires, Put, Take, TypeInv, BagsOK, Bag
  <2>2. CASE k # m.job
    BY <1>3, <2>1, <2>2
  <2>3. CASE k = m.job
    <3>1. main[m] \in Nat /\ retry[m] \in Nat /\ dlq[m] \in Nat /\ Waits(m)
      BY <2>1 DEF TypeInv, BagsOK, Bag, Waits
    <3>2. /\ Active(k) = {} /\ main[m] + retry[m] + dlq[m] = 1 /\ sent[k] # 0
          /\ \A n \in Message : n.job = k /\ Waits(n) => n = m
      BY <2>1, <2>3, <3>1 DEF CleanOK, OnePlace
    <3>3. main'[m] = 1 /\ retry'[m] = 0 /\ dlq'[m] = 0
      BY <1>1, <2>1, <3>1, <3>2
    <3>4. \A n \in Message : n.job = k /\ n # m =>
             ~Waits(n)' /\ ~(main'[n] > 0) /\ ~(retry'[n] > 0) /\ ~(dlq'[n] > 0)
      BY <1>1, <2>1, <3>2 DEF Waits
    <3>5. status[k] = "failed"
      BY <2>1, <2>3 DEF CleanOK, StatusFits
    <3>6. OnePlace(k)'
      BY <1>2, <2>1, <3>2, <3>3, <3>4 DEF OnePlace
    <3>7. StatusFits(k)'
      BY <1>2, <2>1, <3>2, <3>3, <3>4, <3>5 DEF StatusFits
    <3>8. ChildrenFit(k)'
      BY <1>1, <1>2, <2>1 DEF CleanOK, ChildrenFit
    <3> QED
      BY <3>6, <3>7, <3>8 DEF CleanOK
  <2> QED
    BY <2>2, <2>3
<1> QED
  BY <1>1, <1>4, <1>5, <1>6

\* A fault ends the undisturbed runs, and every other step keeps the job in one
\* place, its status and its child as they should be.
LEMMA StepClean == CInv /\ [Next]_vars => CInv'
<1> SUFFICES ASSUME CInv, [Next]_vars, faults' = 0
             PROVE  Undisturbed' /\ \A k \in Jobs : sent'[k] <= 1 => CleanOK(k)'
  BY StepChildren DEF CInv
<1>1. TypeInv /\ EInv /\ faults \in Nat
  BY DEF CInv, EInv, TypeInv, RowsOK
<1>2. faults = 0 \/ faults' # faults
  OBVIOUS
<1>3. ASSUME NEW w \in Workers, WorkerFault(w) PROVE FALSE
  BY <1>1, <1>3 DEF WorkerFault, Crash, Disconnect, DatabaseError, StartEmbeddingRaises, Fault
<1>4. CASE UNCHANGED vars
  <2>1. faults = 0 /\ Undisturbed /\ Undisturbed' /\ \A k \in Jobs : sent[k] <= 1 => CleanOK(k)
    BY <1>4 DEF vars, CInv, Undisturbed
  <2>2. \A k \in Jobs : Children(k)' = Children(k)
    BY <1>4 DEF vars, Children
  <2> QED
    BY <1>4, <2>1, <2>2, CleanFrame DEF vars, queues
<1>5. CASE Next
  <2>1. faults' = faults
    BY <1>3, <1>5 DEF Next, Create, Enqueue, RetryExpires, WorkerStep, Deliver, GetJob, ReadJob, WriteJob,
                      StartEmbedding, Embed, WorkRaises, Reroute, Ack, ChannelClosed
  <2>2. Undisturbed /\ \A k \in Jobs : sent[k] <= 1 => CleanOK(k)
    BY <2>1 DEF CInv
  <2>3. ASSUME NEW w \in Workers, WorkerStep(w)
        PROVE  UNCHANGED sent /\ Undisturbed' /\ \A k \in Jobs : sent[k] <= 1 => CleanOK(k)'
    <3>1. UNCHANGED sent
      BY <2>3 DEF WorkerStep, Deliver, GetJob, ReadJob, WriteJob, StartEmbedding, Embed, WorkRaises,
                  Reroute, Ack, ChannelClosed
    <3>2. CASE GetJob(w) \/ ReadJob(w) \/ Embed(w) \/ WorkRaises(w)
      <4>1. w \in IngestWorkers => ~Embed(w)
        BY JobQueueAssumption DEF Embed
      <4> QED
        BY <1>1, <2>2, <3>1, <3>2, <4>1, ReadClean
    <3>3. ~ChannelClosed(w)
      BY <2>2 DEF ChannelClosed, Undisturbed
    <3> QED
      BY <1>1, <2>2, <2>3, <3>1, <3>2, <3>3, WriteClean, StartEmbeddingClean, DeliverClean, RerouteClean, AckClean
         DEF WorkerStep
  <2> QED
    BY <1>1, <1>3, <1>5, <2>2, <2>3, WorldClean DEF Next
<1> QED
  BY <1>4, <1>5

\* The invariant of undisturbed runs.
THEOREM CleanInvariance == Spec => []CInv
  BY InitClean, StepClean, PTL DEF Spec

\* What the invariant says of a job that was delivered once.
LEMMA CleanMeansOnce == CInv => CleanRunExecutesOnce
<1> SUFFICES ASSUME CInv, faults = 0, NEW j \in Jobs, sent[j] <= 1
             PROVE  completions[j] <= 1 /\ Cardinality(Active(j)) <= 1 /\ Cardinality(Children(j)) <= 1
  BY DEF CleanRunExecutesOnce
<1>1. CleanOK(j)
  BY DEF CInv
<1>2. completions[j] <= 1
  BY <1>1 DEF CleanOK, ChildrenFit
<1> QED
  BY <1>1, <1>2, SmallSet DEF CleanOK, OnePlace, ChildrenFit

\* Delivered once and undisturbed, a job is in one worker's hands, is completed
\* once and has one embedding job, however often its work is retried
\* (workers/ingest/main.py 59-70).
THEOREM CleanRunsExecuteOnce == Spec => []CleanRunExecutesOnce
  BY CleanMeansOnce, CleanInvariance, PTL

\* Delivered once and undisturbed, a job whose message is dead-lettered is
\* recorded as failed (workers/ingest/main.py 67-69).
THEOREM DeadLettersAreFailed == Spec => []CleanDeadLettersAreFailed
<1>1. ASSUME CInv PROVE CleanDeadLettersAreFailed
  <2> SUFFICES ASSUME faults = 0, NEW m \in Message, dlq[m] > 0, sent[m.job] <= 1
               PROVE  status[m.job] = "failed"
    BY DEF CleanDeadLettersAreFailed
  <2>1. m.job \in Jobs
    BY DEF Message
  <2> QED
    BY <1>1, <2>1 DEF CInv, CleanOK, StatusFits
<1> QED
  BY <1>1, CleanInvariance, PTL

-----------------------------------------------------------------------------
(***************************************************************************)
(* One worker per queue. Between the check of a transition and its write    *)
(* nobody else touches the row, so that every write is one the table        *)
(* allows, a completed job stays completed, and a job that is not recorded  *)
(* as completed was never completed: it still has its message.              *)
(***************************************************************************)
OneEach ==
    /\ \A v, w \in IngestWorkers : v = w
    /\ \A v, w \in EmbedWorkers : v = w

WritesAllowed ==
    \A w \in Workers : worker[w].pc = "write" => MayBecome(status[worker[w].job], worker[w].goal)

CompletedStays == \A j \in Jobs : completions[j] > 0 => status[j] = "completed"

OInv == IInv /\ WritesAllowed /\ CompletedStays

\* Two workers do not have a job in common.
LEMMA OwnJob ==
  ASSUME OneEach, WorkersOK, NEW v \in Workers, NEW w \in Workers, v # w,
         worker[v].pc # "idle", worker[w].pc # "idle"
  PROVE  worker[v].job # worker[w].job
<1>1. worker[v].job \in Serves(v) /\ worker[w].job \in Serves(w)
  BY DEF WorkersOK, MayHold
<1>2. v \in IngestWorkers <=> w \notin IngestWorkers
  BY DEF OneEach, Workers
<1> QED
  BY <1>1, <1>2, JobQueueAssumption DEF Serves

\* What the table says of the pairs of statuses that matter.
LEMMA Table ==
  \A s, t : MayBecome(s, t) =>
     /\ s # "absent" /\ s # "completed" /\ t \in JobStatus
BY DEF MayBecome, Allowed, JobStatus

\* Nobody but a worker at its write changes the status of a job that has a row.
LEMMA OnlyWrites ==
  ASSUME TypeInv, [Next]_vars
  PROVE  \/ \E w \in Workers :
              worker[w].pc = "write" /\ Save(w)
         \/ /\ UNCHANGED completions
            /\ \/ UNCHANGED status
               \/ \E j \in Jobs : status[j] = "absent" /\ status' = [status EXCEPT ![j] = "queued"]
<1> USE DEF queues
<1>1. ASSUME NEW j \in Jobs, Create(j) \/ Enqueue(j)
      PROVE  /\ UNCHANGED completions
             /\ \/ UNCHANGED status
                \/ status[j] = "absent" /\ status' = [status EXCEPT ![j] = "queued"]
  BY <1>1 DEF Create, Enqueue
<1>2. ASSUME NEW m \in Message, RetryExpires(m) PROVE UNCHANGED <<status, completions>>
  BY <1>2 DEF RetryExpires
<1>3. ASSUME NEW w \in Workers, NEW e \in EmbedJobs, StartEmbedding(w, e) \/ StartEmbeddingRaises(w, e)
      PROVE  /\ UNCHANGED completions /\ e \in Jobs
             /\ status[e] = "absent" /\ status' = [status EXCEPT ![e] = "queued"]
  BY <1>3 DEF StartEmbedding, StartEmbeddingRaises, Jobs
<1>4. ASSUME NEW w \in Workers,
             \/ Deliver(w) \/ GetJob(w) \/ ReadJob(w) \/ Embed(w) \/ WorkRaises(w)
             \/ Reroute(w) \/ Ack(w) \/ ChannelClosed(w) \/ Crash(w) \/ Disconnect(w)
      PROVE  UNCHANGED <<status, completions>>
  BY <1>4 DEF Deliver, GetJob, ReadJob, Embed, WorkRaises, Reroute, Ack, ChannelClosed,
              Crash, Disconnect
<1>5. ASSUME NEW w \in Workers, WriteJob(w) PROVE worker[w].pc = "write" /\ Save(w)
  BY <1>5 DEF WriteJob
<1>6. ASSUME NEW w \in Workers, DatabaseError(w)
      PROVE  (worker[w].pc = "write" /\ Save(w)) \/ UNCHANGED <<status, completions>>
  BY <1>6 DEF DatabaseError
<1>7. CASE UNCHANGED vars
  BY <1>7 DEF vars
<1> QED
  BY <1>1, <1>2, <1>3, <1>4, <1>5, <1>6, <1>7 DEF Next, WorkerStep, WorkerFault


\* A worker comes to its write from the check of the table alone, and leaves it
\* by the write; a lost connection does not disturb it.
LEMMA WriteWasChecked ==
  ASSUME TypeInv, NEW w \in Workers, WorkerStep(w) \/ WorkerFault(w)
  PROVE  /\ \A v \in Workers \ {w} : worker'[v] = worker[v]
         /\ worker'[w].pc = "write" =>
              /\ worker'[w].job = worker[w].job /\ worker'[w].goal = worker[w].goal
              /\ UNCHANGED status
              /\ worker[w].pc = "write" \/ MayBecome(status[worker[w].job], worker[w].goal)
<1>w. worker \in [Workers -> WorkerState]
  BY DEF TypeInv, WorkersOK
<1> DEFINE Goal == /\ \A v \in Workers \ {w} : worker'[v] = worker[v]
                   /\ worker'[w].pc = "write" =>
                        /\ worker'[w].job = worker[w].job /\ worker'[w].goal = worker[w].goal
                        /\ UNCHANGED status
                        /\ worker[w].pc = "write" \/ MayBecome(status[worker[w].job], worker[w].goal)
<1>1. ASSUME NEW pc \in {"work", "ack", "reroute", "ackRouted"}, Goto(w, pc) PROVE Goal
  BY <1>w, <1>1 DEF Goto, WorkerState
<1>2. ASSUME NEW goal, Aim(w, goal) PROVE Goal
  BY <1>w, <1>2 DEF Aim, WorkerState
<1>3. ASSUME worker' = [worker EXCEPT ![w] = Idle] PROVE Goal
  BY <1>w, <1>3, IdleType
<1>4. CASE Deliver(w)
  BY <1>w, <1>4 DEF Deliver
<1>5. CASE GetJob(w)
  BY <1>1, <1>2, <1>5 DEF GetJob
<1>6. CASE ReadJob(w)
  <2>1. CASE Goto(w, "write") /\ MayBecome(status[worker[w].job], worker[w].goal)
    BY <1>w, <1>6, <2>1 DEF ReadJob, Goto, WorkerState
  <2> QED
    BY <1>1, <1>6, <2>1 DEF ReadJob
<1>7. CASE WriteJob(w)
  <2>1. worker[w].goal \in JobStatus
    BY <1>w DEF WorkerState
  <2>2. Aim(w, "running") \/ Goto(w, "work") \/ Goto(w, "ack") \/ Goto(w, "reroute")
    BY <1>7, <2>1 DEF WriteJob, JobStatus
  <2> QED
    BY <1>1, <1>2, <2>2
<1>8. ASSUME NEW e \in EmbedJobs, StartEmbedding(w, e) \/ StartEmbeddingRaises(w, e) PROVE Goal
  BY <1>2, <1>8 DEF StartEmbedding, StartEmbeddingRaises
<1>9. CASE Embed(w) \/ WorkRaises(w)
  BY <1>2, <1>9 DEF Embed, WorkRaises
<1>10. CASE Reroute(w)
  BY <1>1, <1>10 DEF Reroute
<1>11. CASE Ack(w) \/ ChannelClosed(w) \/ Crash(w)
  BY <1>3, <1>11 DEF Ack, ChannelClosed, Crash
<1>12. CASE Disconnect(w)
  BY <1>w, <1>12 DEF Disconnect, WorkerState
<1>13. CASE DatabaseError(w)
  BY <1>1, <1>13 DEF DatabaseError
<1> QED
  BY <1>4, <1>5, <1>6, <1>7, <1>8, <1>9, <1>10, <1>11, <1>12, <1>13 DEF WorkerStep, WorkerFault

\* A step that writes a job's row, and one that does not.
LEMMA WriteStep ==
  ASSUME OneEach, TypeInv, WritesAllowed, [Next]_vars
  PROVE  \/ \E j \in Jobs, t \in JobStatus :
              /\ MayBecome(status[j], t) /\ status' = [status EXCEPT ![j] = t]
              /\ \A k \in Jobs : completions'[k] > 0 =>
                    completions[k] > 0 \/ (k = j /\ t = "completed")
         \/ /\ UNCHANGED completions
            /\ \/ UNCHANGED status
               \/ \E j \in Jobs : status[j] = "absent" /\ status' = [status EXCEPT ![j] = "queued"]
<1>1. ASSUME NEW w \in Workers, worker[w].pc = "write", Save(w)
      PROVE  \E j \in Jobs, t \in JobStatus :
              /\ MayBecome(status[j], t) /\ status' = [status EXCEPT ![j] = t]
              /\ \A k \in Jobs : completions'[k] > 0 =>
                    completions[k] > 0 \/ (k = j /\ t = "completed")
  <2>1. /\ worker[w].job \in Jobs /\ worker[w].goal \in JobStatus
        /\ MayBecome(status[worker[w].job], worker[w].goal)
    BY <1>1, HeldMessage DEF TypeInv, WorkersOK, WorkerState, WritesAllowed
  <2>2. \A k \in Jobs : completions'[k] > 0 =>
           completions[k] > 0 \/ (k = worker[w].job /\ worker[w].goal = "completed")
    BY <1>1, <2>1 DEF Save, TypeInv, RowsOK
  <2> QED
    BY <1>1, <2>1, <2>2 DEF Save
<1> QED
  BY <1>1, OnlyWrites

LEMMA InitOne == Init => WritesAllowed /\ CompletedStays
  BY IdleType DEF Init, WritesAllowed, CompletedStays

\* Every step keeps the invariant: a write, a completion included, is one the
\* table allows, and while a worker is about to write nobody else changes the
\* row it has checked.
LEMMA StepOne ==
  ASSUME OneEach, TypeInv, WritesAllowed, CompletedStays, [Next]_vars
  PROVE  WritesAllowed' /\ CompletedStays'
<1>t. TypeInv' /\ WorkersOK /\ WorkersOK'
  BY StepType DEF TypeInv
<1>1. CompletedStays'
  <2>1. ASSUME NEW j \in Jobs, NEW t \in JobStatus,
               MayBecome(status[j], t), status' = [status EXCEPT ![j] = t],
               \A k \in Jobs : completions'[k] > 0 =>
                    completions[k] > 0 \/ (k = j /\ t = "completed")
        PROVE  CompletedStays'
    <3>1. status[j] # "completed"
      BY <2>1, Table
    <3> QED
      BY <2>1, <3>1 DEF CompletedStays, TypeInv, RowsOK
  <2>2. ASSUME NEW j \in Jobs, status[j] = "absent", status' = [status EXCEPT ![j] = "queued"],
               UNCHANGED completions
        PROVE  CompletedStays'
    BY <2>2 DEF CompletedStays, TypeInv, RowsOK
  <2>3. CASE UNCHANGED <<status, completions>>
    BY <2>3 DEF CompletedStays
  <2> QED
    BY <2>1, <2>2, <2>3, WriteStep
<1>3. ASSUME NEW w \in Workers, WorkerStep(w) \/ WorkerFault(w),
             NEW v \in Workers, worker'[v].pc = "write"
      PROVE  MayBecome(status'[worker'[v].job], worker'[v].goal)
  <2>1. CASE v = w
    BY <1>3, <2>1, WriteWasChecked DEF WritesAllowed
  <2>2. CASE v # w
    <3>1. worker'[v] = worker[v]
      BY <1>3, <2>2, WriteWasChecked
    <3>2. MayBecome(status[worker[v].job], worker[v].goal) /\ worker[v].job \in Jobs
      BY <1>3, <3>1, HeldMessage DEF WritesAllowed, TypeInv
    <3>3. status[worker[v].job] # "absent"
      BY <3>2, Table
    <3>4. CASE WriteJob(w) \/ DatabaseError(w) \/ \E e \in EmbedJobs : StartEmbedding(w, e) \/ StartEmbeddingRaises(w, e)
      <4>1. worker[w].pc # "idle" /\ worker[v].pc # "idle"
        BY <1>3, <3>1, <3>4 DEF WriteJob, DatabaseError, StartEmbedding, StartEmbeddingRaises
      <4>2. worker[w].job # worker[v].job
        BY <1>t, <2>2, <4>1, OwnJob
      <4> QED
        BY <1>3, <3>1, <3>2, <3>3, <3>4, <4>2
           DEF WriteJob, DatabaseError, StartEmbedding, StartEmbeddingRaises, Save, TypeInv, RowsOK
    <3>5. CASE UNCHANGED status
      BY <3>1, <3>2, <3>5
    <3> QED
      BY <1>3, <3>4, <3>5
         DEF WorkerStep, WorkerFault, Deliver, GetJob, ReadJob, Embed, WorkRaises, Reroute, Ack,
             ChannelClosed, Crash, Disconnect
  <2> QED
    BY <2>1, <2>2
<1>4. ASSUME NEW j \in Jobs, Create(j) \/ Enqueue(j), NEW v \in Workers, worker'[v].pc = "write"
      PROVE  MayBecome(status'[worker'[v].job], worker'[v].goal)
  <2>1. worker'[v] = worker[v]
    BY <1>4 DEF Create, Enqueue
  <2>2. MayBecome(status[worker[v].job], worker[v].goal) /\ worker[v].job \in Jobs
    BY <1>4, <2>1, HeldMessage DEF WritesAllowed, TypeInv
  <2>3. status[worker[v].job] # "absent"
    BY <2>2, Table
  <2> QED
    BY <1>4, <2>1, <2>2, <2>3 DEF Create, Enqueue, TypeInv, RowsOK
<1>5. ASSUME NEW v \in Workers, worker'[v].pc = "write",
             UNCHANGED vars \/ \E m \in Message : RetryExpires(m)
      PROVE  MayBecome(status'[worker'[v].job], worker'[v].goal)
  BY <1>5 DEF vars, RetryExpires, WritesAllowed
<1> QED
  BY <1>1, <1>3, <1>4, <1>5 DEF Next, WritesAllowed


LEMMA StepOInv == ASSUME OneEach PROVE OInv /\ [Next]_vars => OInv'
<1> SUFFICES ASSUME OInv, [Next]_vars PROVE OInv'
  OBVIOUS
<1>1. TypeInv
  BY DEF OInv, IInv
<1> QED
  BY <1>1, StepInvariant, StepOne DEF OInv

THEOREM OneWorkerInvariance == ASSUME OneEach PROVE Spec => []OInv
<1>1. Init => OInv
  BY InitInvariant, InitOne DEF OInv
<1>2. OInv /\ [Next]_vars => OInv'
  BY StepOInv
<1> QED
  BY <1>1, <1>2, PTL DEF Spec

\* A job that is not recorded as completed was never completed, so that a copy
\* of its message is left.
LEMMA OneForgetsNone == ASSUME OInv PROVE UnfinishedIsCarried
<1>1. ASSUME NEW j \in Jobs, sent[j] > 0, status[j] # "completed"
      PROVE  HasCopy(j) \/ Holders(j) # {}
  <2>1. completions[j] = 0
    BY <1>1 DEF OInv, CompletedStays, IInv, TypeInv, RowsOK
  <2>2. Somewhere(j)
    BY <1>1, <2>1 DEF OInv, IInv, Carried
  <2> QED
    BY <2>2 DEF Somewhere, Holders
<1> QED
  BY <1>1 DEF UnfinishedIsCarried

\* With one worker per queue, a job that is not recorded as completed still has
\* a message, in a queue or in a worker's hands, whatever crashes, is lost or
\* raises: something can still finish it (workers/common.py 44-69 with
\* packages/core/pipeline/service.py 224-264).
THEOREM UnfinishedJobsAreCarried == ASSUME OneEach PROVE Spec => []UnfinishedIsCarried
  BY OneForgetsNone, OneWorkerInvariance, PTL

\* With one worker per queue, the status of every job follows the table of
\* PipelineService, although the check and the write are separate transactions:
\* JobQueue implements JobLifecycle. Two workers on one queue break this, as the
\* run FinalStatus shows.
THEOREM ImplementsLifecycle == ASSUME OneEach PROVE Spec => FollowsLifecycle
<1>1. Init => JL!Init
  BY DEF Init, JL!Init
<1>2. ASSUME OInv, [Next]_vars PROVE [JL!Next]_status
  <2>1. TypeInv /\ WritesAllowed
    BY <1>2 DEF OInv, IInv
  <2>2. JL!JobStatus = JobStatus /\ \A s, t : JL!MayBecome(s, t) = MayBecome(s, t)
    BY DEF JL!JobStatus, JobStatus, JL!MayBecome, JL!Allowed, MayBecome, Allowed
  <2> QED
    BY <1>2, <2>1, <2>2, WriteStep DEF JL!Next, JL!Create, JL!Transition
<1> QED
  BY <1>1, <1>2, OneWorkerInvariance, PTL DEF Spec, FollowsLifecycle, JL!Spec

\* No step the invariant allows takes a job out of "completed".
LEMMA OneKeepsCompleted ==
  ASSUME OneEach, OInv, [Next]_vars
  PROVE  \A j \in Jobs : status[j] = "completed" => status'[j] = "completed"
<1>1. TypeInv /\ WritesAllowed
  BY DEF OInv, IInv
<1>2. ASSUME NEW j \in Jobs, NEW t \in JobStatus, MayBecome(status[j], t),
             status' = [status EXCEPT ![j] = t], NEW k \in Jobs, status[k] = "completed"
      PROVE  status'[k] = "completed"
  BY <1>1, <1>2, Table DEF TypeInv, RowsOK
<1>3. ASSUME NEW j \in Jobs, status[j] = "absent", status' = [status EXCEPT ![j] = "queued"],
             NEW k \in Jobs, status[k] = "completed"
      PROVE  status'[k] = "completed"
  BY <1>1, <1>3 DEF TypeInv, RowsOK
<1> QED
  BY <1>1, <1>2, <1>3, WriteStep

\* With one worker per queue, a completed job stays completed.
THEOREM CompletedStaysCompleted == ASSUME OneEach PROVE Spec => CompletedIsFinal
  BY OneKeepsCompleted, OneWorkerInvariance, PTL DEF Spec, CompletedIsFinal

-----------------------------------------------------------------------------
(***************************************************************************)
(* Counting a job's copies: each copy in a queue and each worker that is    *)
(* not about to acknowledge it is due to a publication or to a fault. The   *)
(* count is of finite sets that change by one element at a time.            *)
(***************************************************************************)
Counted(j) ==
    /\ IsFiniteSet(Copies(main, j)) /\ IsFiniteSet(Copies(retry, j)) /\ IsFiniteSet(Copies(dlq, j))
    /\ IsFiniteSet(Active(j))
    /\ LiveCopies(j) <= sent[j] + faults

AInv == TypeInv /\ \A j \in Jobs : Counted(j)

LEMMA CopyNumbers ==
  ASSUME NEW bag \in Bag, NEW j
  PROVE  \A c : c \in Copies(bag, j) <=>
            \E m \in Message, n \in Nat : m.job = j /\ n > 0 /\ n <= bag[m] /\ c = <<m, n>>
BY DEF Copies, Bag

LEMMA SameCopies ==
  ASSUME NEW a \in Bag, NEW b \in Bag, NEW j, \A m \in Message : m.job = j => a[m] = b[m]
  PROVE  Copies(a, j) = Copies(b, j)
<1>1. \A m \in {i \in Message : i.job = j} : {<<m, n>> : n \in 1..a[m]} = {<<m, n>> : n \in 1..b[m]}
  OBVIOUS
<1>2. {{<<m, n>> : n \in 1..a[m]} : m \in {i \in Message : i.job = j}}
        = {{<<m, n>> : n \in 1..b[m]} : m \in {i \in Message : i.job = j}}
  BY <1>1
<1> QED
  BY <1>2 DEF Copies

\* A message more in a queue is one copy more of its job.
LEMMA PutCounts ==
  ASSUME NEW bag \in Bag, NEW m \in Message, NEW j, IsFiniteSet(Copies(bag, j))
  PROVE  /\ IsFiniteSet(Copies(Put(bag, m), j))
         /\ Cardinality(Copies(Put(bag, m), j)) =
              Cardinality(Copies(bag, j)) + (IF m.job = j THEN 1 ELSE 0)
<1> DEFINE c == <<m, bag[m] + 1>>
<1>1. /\ Put(bag, m) \in Bag /\ Put(bag, m)[m] = bag[m] + 1 /\ bag[m] \in Nat
      /\ \A i \in Message : i # m => Put(bag, m)[i] = bag[i]
  BY DEF Put, Bag
<1>2. CASE m.job # j
  <2>1. Copies(Put(bag, m), j) = Copies(bag, j)
    BY <1>1, <1>2, SameCopies
  <2> QED
    BY <1>2, <2>1, FS_CardinalityType
<1>3. CASE m.job = j
  <2>1. \A i \in Message, n \in Nat : n <= Put(bag, m)[i] <=> n <= bag[i] \/ (i = m /\ n = bag[m] + 1)
    BY <1>1 DEF Bag
  <2>2. Copies(Put(bag, m), j) = Copies(bag, j) \union {c}
    <3>1. \A d : d \in Copies(Put(bag, m), j) <=>
             \E i \in Message, n \in Nat : i.job = j /\ n > 0 /\ n <= Put(bag, m)[i] /\ d = <<i, n>>
      BY <1>1, CopyNumbers
    <3>2. \A d : d \in Copies(bag, j) <=>
             \E i \in Message, n \in Nat : i.job = j /\ n > 0 /\ n <= bag[i] /\ d = <<i, n>>
      BY CopyNumbers
    <3>3. bag[m] + 1 \in Nat /\ bag[m] + 1 > 0
      BY <1>1
    <3> QED
      BY <1>3, <2>1, <3>1, <3>2, <3>3
  <2>3. c \notin Copies(bag, j)
    <3>1. \A i \in Message, n \in Nat : c = <<i, n>> => i = m /\ n = bag[m] + 1
      OBVIOUS
    <3>2. ~(bag[m] + 1 <= bag[m])
      BY <1>1
    <3> QED
      BY <3>1, <3>2, CopyNumbers
  <2> QED
    BY <1>3, <2>2, <2>3, FS_AddElement, FS_CardinalityType
<1> QED
  BY <1>2, <1>3

\* A message less in a queue is one copy less of its job.
LEMMA TakeCounts ==
  ASSUME NEW bag \in Bag, NEW m \in Message, bag[m] > 0, NEW j, IsFiniteSet(Copies(bag, j))
  PROVE  /\ IsFiniteSet(Copies(Take(bag, m), j))
         /\ Cardinality(Copies(bag, j)) =
              Cardinality(Copies(Take(bag, m), j)) + (IF m.job = j THEN 1 ELSE 0)
<1>1. /\ Take(bag, m) \in Bag /\ Take(bag, m)[m] = bag[m] - 1 /\ bag[m] \in Nat
      /\ \A i \in Message : i # m => Take(bag, m)[i] = bag[i]
  BY DEF Take, Bag
<1>2. Copies(Take(bag, m), j) \subseteq Copies(bag, j)
  <2>1. \A i \in Message, n \in Nat : n <= Take(bag, m)[i] => n <= bag[i]
    BY <1>1 DEF Bag
  <2> QED
    BY <1>1, <2>1, CopyNumbers
<1>3. IsFiniteSet(Copies(Take(bag, m), j))
  BY <1>2, FS_Subset
<1>4. Put(Take(bag, m), m) = bag
  <2>1. \A i \in Message : Put(Take(bag, m), m)[i] = bag[i]
    BY <1>1 DEF Put, Bag
  <2>2. Put(Take(bag, m), m) \in [Message -> Nat] /\ bag \in [Message -> Nat]
    BY <1>1 DEF Put, Bag
  <2> HIDE DEF Put, Take
  <2> QED
    BY <2>1, <2>2
<1> QED
  BY <1>1, <1>3, <1>4, PutCounts

\* A worker in state s is one of the copies of job j.
On(s, j) == s.job = j /\ s.held /\ s.pc # "ackRouted"
Unit(b) == IF b THEN 1 ELSE 0

\* A worker's step moves it into the set of copies of a job, or out of it.
LEMMA ActiveCounts ==
  ASSUME TypeInv, NEW w \in Workers, NEW s, worker' = [worker EXCEPT ![w] = s],
         NEW j, IsFiniteSet(Active(j))
  PROVE  /\ IsFiniteSet(Active(j)')
         /\ Cardinality(Active(j)') + Unit(On(worker[w], j)) = Cardinality(Active(j)) + Unit(On(s, j))
<1>1. worker'[w] = s /\ \A v \in Workers \ {w} : worker'[v] = worker[v]
  BY DEF TypeInv, WorkersOK
<1>2. /\ w \in Active(j) <=> On(worker[w], j)
      /\ w \in Active(j)' <=> On(s, j)
      /\ Active(j)' \ {w} = Active(j) \ {w}
  BY <1>1 DEF Active, Holders, On
<1> DEFINE A == Active(j) \ {w}
<1>3. /\ w \notin A
      /\ Active(j) = IF On(worker[w], j) THEN A \union {w} ELSE A
      /\ Active(j)' = IF On(s, j) THEN A \union {w} ELSE A
  BY <1>2
<1>4. IsFiniteSet(A) /\ Cardinality(A) \in Nat
  BY FS_Difference, FS_CardinalityType
<1>5. IsFiniteSet(A \union {w}) /\ Cardinality(A \union {w}) = Cardinality(A) + 1
  BY <1>3, <1>4, FS_AddElement
<1> QED
  BY <1>3, <1>4, <1>5 DEF Unit

\* What a step does to the counts of a job adds up.
LEMMA CountsAdd ==
  ASSUME TypeInv, TypeInv', NEW j \in Jobs, Counted(j),
         IsFiniteSet(Copies(main, j)'), IsFiniteSet(Copies(retry, j)'),
         IsFiniteSet(Copies(dlq, j)'), IsFiniteSet(Active(j)'),
         Cardinality(Copies(main, j)') + Cardinality(Copies(retry, j)') + Cardinality(Copies(dlq, j)')
             + Cardinality(Active(j)') + sent[j] + faults
           <= Cardinality(Copies(main, j)) + Cardinality(Copies(retry, j)) + Cardinality(Copies(dlq, j))
             + Cardinality(Active(j)) + sent'[j] + faults'
  PROVE  Counted(j)'
<1>1. /\ sent[j] \in Nat /\ sent'[j] \in Nat /\ faults \in Nat /\ faults' \in Nat
  BY DEF TypeInv, RowsOK
<1>2. /\ Cardinality(Copies(main, j)) \in Nat /\ Cardinality(Copies(retry, j)) \in Nat
      /\ Cardinality(Copies(dlq, j)) \in Nat /\ Cardinality(Active(j)) \in Nat
      /\ Cardinality(Copies(main, j)') \in Nat /\ Cardinality(Copies(retry, j)') \in Nat
      /\ Cardinality(Copies(dlq, j)') \in Nat /\ Cardinality(Active(j)') \in Nat
  BY FS_CardinalityType DEF Counted
<1> QED
  BY <1>1, <1>2 DEF Counted, LiveCopies

\* The counts are numbers.
LEMMA CountsAreNumbers ==
  ASSUME NEW j, Counted(j)
  PROVE  /\ Cardinality(Copies(main, j)) \in Nat /\ Cardinality(Copies(retry, j)) \in Nat
         /\ Cardinality(Copies(dlq, j)) \in Nat /\ Cardinality(Active(j)) \in Nat
  BY FS_CardinalityType DEF Counted

\* A worker goes on, or gives its message up: no queue is touched.
LEMMA WorkerCounts ==
  ASSUME TypeInv, TypeInv', NEW w \in Workers, NEW s, worker' = [worker EXCEPT ![w] = s],
         \A j : On(s, j) => On(worker[w], j),
         UNCHANGED <<queues, sent>>, faults' >= faults,
         NEW j \in Jobs, Counted(j)
  PROVE  Counted(j)'
<1>1. /\ Copies(main, j)' = Copies(main, j) /\ Copies(retry, j)' = Copies(retry, j)
      /\ Copies(dlq, j)' = Copies(dlq, j)
  BY DEF queues, Copies
<1>2. /\ IsFiniteSet(Active(j)') /\ Cardinality(Active(j)') \in Nat
      /\ Cardinality(Active(j)') + Unit(On(worker[w], j)) = Cardinality(Active(j)) + Unit(On(s, j))
  BY ActiveCounts, FS_CardinalityType DEF Counted
<1>3. Cardinality(Active(j)') <= Cardinality(Active(j))
  BY <1>2, CountsAreNumbers DEF Unit
<1>4. faults \in Nat /\ faults' \in Nat /\ sent[j] \in Nat
  BY DEF TypeInv, RowsOK
<1> QED
  BY <1>1, <1>2, <1>3, <1>4, CountsAreNumbers, CountsAdd DEF Counted

\* A message of a worker comes back to the queue by a fault.
LEMMA ReturnCounts ==
  ASSUME TypeInv, TypeInv', NEW w \in Workers, worker[w].pc # "idle",
         NEW s, worker' = [worker EXCEPT ![w] = s], ~s.held,
         Return(w), Fault, UNCHANGED <<retry, dlq, sent>>,
         NEW j \in Jobs, Counted(j)
  PROVE  Counted(j)'
<1>1. /\ Copies(retry, j)' = Copies(retry, j) /\ Copies(dlq, j)' = Copies(dlq, j)
  BY DEF Copies
<1>2. Held(w) \in Message /\ Held(w).job = worker[w].job /\ main \in Bag
  BY HeldMessage DEF TypeInv, BagsOK
<1>3. /\ IsFiniteSet(Copies(main, j)')
      /\ Cardinality(Copies(main, j)') <= Cardinality(Copies(main, j)) + 1
  <2>1. CASE worker[w].held
    <3>1. /\ IsFiniteSet(Copies(Put(main, Held(w)), j))
          /\ Cardinality(Copies(Put(main, Held(w)), j)) =
               Cardinality(Copies(main, j)) + (IF Held(w).job = j THEN 1 ELSE 0)
      BY <1>2, PutCounts DEF Counted
    <3>2. Copies(main, j)' = Copies(Put(main, Held(w)), j)
      BY <2>1 DEF Return, Copies
    <3> QED
      BY <3>1, <3>2, CountsAreNumbers
  <2>2. CASE ~worker[w].held
    <3>1. Copies(main, j)' = Copies(main, j)
      BY <2>2 DEF Return, Copies
    <3> QED
      BY <3>1, CountsAreNumbers DEF Counted
  <2> QED
    BY <2>1, <2>2
<1>4. /\ IsFiniteSet(Active(j)') /\ Cardinality(Active(j)') \in Nat
      /\ Cardinality(Active(j)') + Unit(On(worker[w], j)) = Cardinality(Active(j)) + Unit(On(s, j))
  BY ActiveCounts, FS_CardinalityType DEF Counted
<1>5. Cardinality(Active(j)') <= Cardinality(Active(j))
  BY <1>4, CountsAreNumbers DEF Unit, On
<1>6. faults \in Nat /\ faults' = faults + 1 /\ sent[j] \in Nat /\ Cardinality(Copies(main, j)') \in Nat
  BY <1>3, FS_CardinalityType DEF Fault, TypeInv, RowsOK
<1> QED
  BY <1>1, <1>3, <1>4, <1>5, <1>6, CountsAreNumbers, CountsAdd DEF Counted

LEMMA InitCounts == Init => AInv
<1> SUFFICES ASSUME Init, NEW j \in Jobs PROVE Counted(j)
  BY InitType DEF AInv
<1>1. Empty \in Bag /\ \A m \in Message : Empty[m] = 0
  BY DEF Empty, Bag
<1>2. Copies(Empty, j) = {}
  BY <1>1, CopyNumbers
<1>3. Active(j) = {}
  BY IdleType DEF Init, Active, Holders
<1>4. sent[j] = 0 /\ faults = 0
  BY DEF Init
<1>5. IsFiniteSet({}) /\ Cardinality({}) = 0
  BY FS_EmptySet
<1> QED
  BY <1>2, <1>3, <1>4, <1>5 DEF Init, Counted, LiveCopies

\* Every step keeps the count: the reroute makes a copy as its worker stops
\* being one, a delivery the other way round, and what comes back to a queue
\* besides is a fault.
LEMMA StepCounts == AInv /\ [Next]_vars => AInv'
<1> SUFFICES ASSUME AInv, [Next]_vars, NEW j \in Jobs PROVE Counted(j)'
  BY StepType DEF AInv
<1>t. TypeInv /\ TypeInv' /\ Counted(j) /\ worker \in [Workers -> WorkerState]
  BY StepType DEF AInv, TypeInv, WorkersOK
<1>b. main \in Bag /\ retry \in Bag /\ dlq \in Bag
  BY <1>t DEF TypeInv, BagsOK
<1>n. /\ sent[j] \in Nat /\ faults \in Nat
      /\ Cardinality(Copies(main, j)) \in Nat /\ Cardinality(Copies(retry, j)) \in Nat
      /\ Cardinality(Copies(dlq, j)) \in Nat /\ Cardinality(Active(j)) \in Nat
  BY <1>t, CountsAreNumbers DEF TypeInv, RowsOK
<1>1. CASE UNCHANGED <<queues, sent, worker, faults>>
  <2>1. /\ Copies(main, j)' = Copies(main, j) /\ Copies(retry, j)' = Copies(retry, j)
        /\ Copies(dlq, j)' = Copies(dlq, j) /\ Active(j)' = Active(j)
    BY <1>1 DEF queues, Copies, Active, Holders
  <2> QED
    BY <1>1, <1>t, <2>1 DEF Counted, LiveCopies
<1>2. ASSUME NEW k \in Jobs, Enqueue(k) PROVE Counted(j)'
  <2>1. PICK m \in Message : m.job = k /\ main' = Put(main, m)
    <3>1. [job |-> k, tries |-> 0] \in Message
      BY JobQueueAssumption DEF Message
    <3> QED
      BY <1>2, <3>1 DEF Enqueue
  <2>2. /\ Copies(main, j)' = Copies(Put(main, m), j)
        /\ Copies(retry, j)' = Copies(retry, j)
        /\ Copies(dlq, j)' = Copies(dlq, j) /\ Active(j)' = Active(j) /\ faults' = faults
    BY <1>2, <2>1 DEF Enqueue, Copies, Active, Holders
  <2>3. /\ IsFiniteSet(Copies(main, j)')
        /\ Cardinality(Copies(main, j)') = Cardinality(Copies(main, j)) + (IF m.job = j THEN 1 ELSE 0)
    BY <1>t, <1>b, <2>2, PutCounts DEF Counted
  <2>4. sent'[j] = sent[j] + (IF m.job = j THEN 1 ELSE 0)
    BY <1>2, <1>t, <2>1 DEF Enqueue, TypeInv, RowsOK
  <2> QED
    BY <1>t, <1>n, <2>2, <2>3, <2>4, CountsAdd DEF Counted
<1>3. ASSUME NEW m \in Message, RetryExpires(m) PROVE Counted(j)'
  <2>1. /\ Copies(main, j)' = Copies(Put(main, m), j)
        /\ Copies(retry, j)' = Copies(Take(retry, m), j)
        /\ Copies(dlq, j)' = Copies(dlq, j) /\ Active(j)' = Active(j)
        /\ UNCHANGED <<faults, sent>> /\ retry[m] > 0
    BY <1>3 DEF RetryExpires, Copies, Active, Holders
  <2>2. /\ IsFiniteSet(Copies(main, j)')
        /\ Cardinality(Copies(main, j)') = Cardinality(Copies(main, j)) + (IF m.job = j THEN 1 ELSE 0)
    BY <1>t, <1>b, <2>1, PutCounts DEF Counted
  <2>3. /\ IsFiniteSet(Copies(retry, j)')
        /\ Cardinality(Copies(retry, j)) = Cardinality(Copies(retry, j)') + (IF m.job = j THEN 1 ELSE 0)
    BY <1>t, <1>b, <2>1, TakeCounts DEF Counted
  <2>4. Cardinality(Copies(retry, j)') \in Nat
    BY <2>3, FS_CardinalityType
  <2> QED
    BY <1>t, <1>n, <2>1, <2>2, <2>3, <2>4, CountsAdd DEF Counted
<1>4. ASSUME NEW w \in Workers, Deliver(w) PROVE Counted(j)'
  <2>1. PICK m \in Message :
          /\ main[m] > 0 /\ main' = Take(main, m)
          /\ worker' = [worker EXCEPT ![w] =
                          [pc |-> "get", job |-> m.job, tries |-> m.tries,
                           goal |-> "queued", held |-> TRUE]]
    BY <1>4 DEF Deliver
  <2> DEFINE s == [pc |-> "get", job |-> m.job, tries |-> m.tries,
                   goal |-> "queued", held |-> TRUE]
  <2>2. worker' = [worker EXCEPT ![w] = s] /\ s.job = m.job /\ s.held /\ s.pc = "get"
    BY <2>1
  <2> HIDE DEF s
  <2>3. /\ Copies(main, j)' = Copies(Take(main, m), j)
        /\ Copies(retry, j)' = Copies(retry, j) /\ Copies(dlq, j)' = Copies(dlq, j)
        /\ UNCHANGED <<faults, sent>> /\ worker[w].pc = "idle"
    BY <1>4, <2>1 DEF Deliver, Copies
  <2>4. ~On(worker[w], j) /\ (On(s, j) <=> m.job = j)
    BY <1>t, <2>2, <2>3 DEF On, TypeInv, WorkersOK, MayHold
  <2>5. /\ IsFiniteSet(Active(j)')
        /\ Cardinality(Active(j)') + Unit(On(worker[w], j)) = Cardinality(Active(j)) + Unit(On(s, j))
    BY <1>t, <2>2, ActiveCounts DEF Counted
  <2>6. /\ IsFiniteSet(Copies(main, j)')
        /\ Cardinality(Copies(main, j)) = Cardinality(Copies(main, j)') + (IF m.job = j THEN 1 ELSE 0)
    BY <1>t, <1>b, <2>1, <2>3, TakeCounts DEF Counted
  <2>7. Cardinality(Copies(main, j)') \in Nat /\ Cardinality(Active(j)') \in Nat
    BY <2>5, <2>6, FS_CardinalityType
  <2> QED
    BY <1>t, <1>n, <2>3, <2>4, <2>5, <2>6, <2>7, CountsAdd DEF Counted, Unit
<1>5. ASSUME NEW w \in Workers, NEW s, worker' = [worker EXCEPT ![w] = s],
             \A k : On(s, k) => On(worker[w], k), UNCHANGED <<queues, sent>>, faults' >= faults
      PROVE  Counted(j)'
  BY <1>t, <1>5, WorkerCounts
<1>6. ASSUME NEW w \in Workers, NEW pc \in {"write", "work", "ack", "reroute"},
             worker[w].pc # "ackRouted", Goto(w, pc), UNCHANGED <<queues, sent>>, faults' >= faults
      PROVE  Counted(j)'
  <2> DEFINE s == [worker[w] EXCEPT !.pc = pc]
  <2>1. worker' = [worker EXCEPT ![w] = s] /\ \A k : On(s, k) => On(worker[w], k)
    BY <1>t, <1>6 DEF Goto, On, WorkerState
  <2> HIDE DEF s
  <2> QED
    BY <1>5, <1>6, <2>1
<1>7. ASSUME NEW w \in Workers, NEW goal, worker[w].pc # "ackRouted", Aim(w, goal),
             UNCHANGED <<queues, sent>>, faults' >= faults
      PROVE  Counted(j)'
  <2> DEFINE s == [worker[w] EXCEPT !.pc = "read", !.goal = goal]
  <2>1. worker' = [worker EXCEPT ![w] = s] /\ \A k : On(s, k) => On(worker[w], k)
    BY <1>t, <1>7 DEF Aim, On, WorkerState
  <2> HIDE DEF s
  <2> QED
    BY <1>5, <1>7, <2>1
<1>8. ASSUME NEW w \in Workers, GetJob(w) \/ ReadJob(w) \/ Embed(w) \/ WorkRaises(w) PROVE Counted(j)'
  BY <1>6, <1>7, <1>8, <1>n DEF GetJob, ReadJob, Embed, WorkRaises
<1>9. ASSUME NEW w \in Workers, WriteJob(w) PROVE Counted(j)'
  <2>1. worker[w].goal \in JobStatus
    BY <1>t DEF WorkerState
  <2>2. Aim(w, "running") \/ Goto(w, "work") \/ Goto(w, "ack") \/ Goto(w, "reroute")
    BY <1>9, <2>1 DEF WriteJob, JobStatus
  <2> QED
    BY <1>6, <1>7, <1>9, <1>n, <2>2 DEF WriteJob
<1>10. ASSUME NEW w \in Workers, NEW e \in EmbedJobs, StartEmbedding(w, e) \/ StartEmbeddingRaises(w, e)
       PROVE  Counted(j)'
  BY <1>7, <1>10, <1>n DEF StartEmbedding, StartEmbeddingRaises, Fault
<1>11. ASSUME NEW w \in Workers, DatabaseError(w) PROVE Counted(j)'
  BY <1>6, <1>11, <1>n DEF DatabaseError, Fault
<1>12. ASSUME NEW w \in Workers, Ack(w) \/ ChannelClosed(w) PROVE Counted(j)'
  BY <1>5, <1>12, <1>n, IdleType DEF Ack, ChannelClosed, On
<1>13. ASSUME NEW w \in Workers, Crash(w) PROVE Counted(j)'
  BY <1>t, <1>13, IdleType, ReturnCounts DEF Crash
<1>14. ASSUME NEW w \in Workers, Disconnect(w) PROVE Counted(j)'
  <2>1. worker[w].pc # "idle"
    BY <1>t, <1>14 DEF Disconnect, TypeInv, WorkersOK, MayHold
  <2> DEFINE s == [worker[w] EXCEPT !.held = FALSE]
  <2>2. worker' = [worker EXCEPT ![w] = s] /\ ~s.held
    BY <1>t, <1>14 DEF Disconnect, WorkerState
  <2> HIDE DEF s
  <2> QED
    BY <1>t, <1>14, <2>1, <2>2, ReturnCounts DEF Disconnect
<1>15. ASSUME NEW w \in Workers, Reroute(w) PROVE Counted(j)'
  <2> DEFINE m == [job |-> worker[w].job, tries |-> worker[w].tries + 1]
  <2> DEFINE s == [worker[w] EXCEPT !.pc = "ackRouted"]
  <2>1. m \in Message /\ m.job = worker[w].job
    BY <1>t, <1>15, HeldMessage DEF Reroute, TypeInv
  <2>2. /\ worker' = [worker EXCEPT ![w] = s] /\ s.pc = "ackRouted"
        /\ worker[w].held /\ worker[w].pc = "reroute"
        /\ UNCHANGED <<main, sent, faults>>
        /\ \/ retry' = Put(retry, m) /\ UNCHANGED dlq
           \/ dlq' = Put(dlq, m) /\ UNCHANGED retry
    BY <1>t, <1>15 DEF Reroute, Goto, WorkerState
  <2> HIDE DEF s, m
  <2>3. (On(worker[w], j) <=> m.job = j) /\ ~On(s, j)
    BY <2>1, <2>2 DEF On
  <2>4. /\ IsFiniteSet(Active(j)') /\ Cardinality(Active(j)') \in Nat
        /\ Cardinality(Active(j)') + (IF m.job = j THEN 1 ELSE 0) = Cardinality(Active(j))
    <3>1. /\ IsFiniteSet(Active(j)')
          /\ Cardinality(Active(j)') + Unit(On(worker[w], j)) = Cardinality(Active(j)) + Unit(On(s, j))
      BY <1>t, <2>2, ActiveCounts DEF Counted
    <3> QED
      BY <1>n, <2>3, <3>1, FS_CardinalityType DEF Unit
  <2>5. Copies(main, j)' = Copies(main, j)
    BY <2>2 DEF Copies
  <2>6. CASE retry' = Put(retry, m) /\ UNCHANGED dlq
    <3>1. Copies(retry, j)' = Copies(Put(retry, m), j) /\ Copies(dlq, j)' = Copies(dlq, j)
      BY <2>6 DEF Copies
    <3>2. /\ IsFiniteSet(Copies(retry, j)')
          /\ Cardinality(Copies(retry, j)') = Cardinality(Copies(retry, j)) + (IF m.job = j THEN 1 ELSE 0)
      BY <1>t, <1>b, <2>1, <3>1, PutCounts DEF Counted
    <3> QED
      BY <1>t, <1>n, <2>2, <2>4, <2>5, <3>1, <3>2, CountsAdd DEF Counted
  <2>7. CASE dlq' = Put(dlq, m) /\ UNCHANGED retry
    <3>1. Copies(dlq, j)' = Copies(Put(dlq, m), j) /\ Copies(retry, j)' = Copies(retry, j)
      BY <2>7 DEF Copies
    <3>2. /\ IsFiniteSet(Copies(dlq, j)')
          /\ Cardinality(Copies(dlq, j)') = Cardinality(Copies(dlq, j)) + (IF m.job = j THEN 1 ELSE 0)
      BY <1>t, <1>b, <2>1, <3>1, PutCounts DEF Counted
    <3> QED
      BY <1>t, <1>n, <2>2, <2>4, <2>5, <3>1, <3>2, CountsAdd DEF Counted
  <2> QED
    BY <2>2, <2>6, <2>7
<1>16. ASSUME NEW k \in Jobs, Create(k) PROVE Counted(j)'
  BY <1>1, <1>16 DEF Create
<1>17. CASE UNCHANGED vars
  BY <1>1, <1>17 DEF vars, queues
<1> QED
  BY <1>2, <1>3, <1>4, <1>8, <1>9, <1>10, <1>11, <1>12, <1>13, <1>14, <1>15, <1>16, <1>17
     DEF Next, WorkerStep, WorkerFault

\* Copies of a job that are not about to be acknowledged away are each due to a
\* publication or to a fault: rerouting a message makes none, for any number of
\* retries and workers (workers/common.py 60-69).
THEOREM CopiesAccounted == Spec => []CopiesAreAccountedFor
<1>1. Init => AInv
  BY InitCounts
<1>2. AInv /\ [Next]_vars => AInv'
  BY StepCounts
<1>3. AInv => CopiesAreAccountedFor
  BY DEF AInv, Counted, CopiesAreAccountedFor
<1> QED
  BY <1>1, <1>2, <1>3, PTL DEF Spec
=============================================================================
