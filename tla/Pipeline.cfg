\* The composition: outbox publisher, queues, ingest and embedding worker.
SPECIFICATION Spec
CONSTANTS
    p1 = p1
    p2 = p2
    w1 = w1
    w2 = w2
    v1 = v1
    j1 = j1
    e1 = e1
    e2 = e2
    NoJob = NoJob
    NoEvent = NoEvent
    Publishers <- MCPublishersOne
    IngestWorkers <- MCIngestWorkersOne
    EmbedWorkers <- MCEmbedWorkers
    IngestJobs <- MCIngestJobs
    EmbedJobs <- MCEmbedJobsOne
    BatchSize = 2
    MaxRetries = 1
    MaxOutages = 1
    MaxFaults = 1
INVARIANTS
    EveryJobIsCarried
    NoneIsForgotten
    ExactlyOnceWithoutFaults
PROPERTIES
    JobsSettle
\* All jobs may be completed or dead-lettered.
CHECK_DEADLOCK FALSE
