\* One worker per queue, messages sent twice, and faults.
SPECIFICATION Spec
CONSTANTS
    w1 = w1
    w2 = w2
    v1 = v1
    j1 = j1
    e1 = e1
    e2 = e2
    NoJob = NoJob
    IngestWorkers <- MCWorkersOne
    EmbedWorkers <- MCEmbedWorkers
    IngestJobs <- MCIngestJobs
    EmbedJobs <- MCEmbedJobsOne
    MaxRetries = 1
    MaxSends = 2
    MaxFaults = 1
INVARIANTS
    UnfinishedIsCarried
PROPERTIES
    FollowsLifecycle
    Settles
\* All jobs may be completed or dead-lettered.
CHECK_DEADLOCK FALSE
