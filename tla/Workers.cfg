\* Two ingest workers on one queue, messages sent twice, and faults.
SPECIFICATION Spec
CONSTANTS
    w1 = w1
    w2 = w2
    v1 = v1
    j1 = j1
    e1 = e1
    e2 = e2
    NoJob = NoJob
    IngestWorkers <- MCWorkersTwo
    EmbedWorkers <- MCNone
    IngestJobs <- MCIngestJobs
    EmbedJobs <- MCEmbedJobsTwo
    MaxRetries = 1
    MaxSends = 2
    MaxFaults = 2
SYMMETRY Symmetry
INVARIANTS
    TypeOK
    NoJobLost
    CopiesAreAccountedFor
    EmbeddingFollows
    CleanRunExecutesOnce
    CleanDeadLettersAreFailed
\* All jobs may be completed or dead-lettered.
CHECK_DEADLOCK FALSE
