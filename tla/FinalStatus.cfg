\* Two workers and one lost connection: does completed stay completed?
SPECIFICATION Spec
CONSTANTS
    w1 = w1
    w2 = w2
    v1 = v1
    j1 = j1
    e1 = e1
    e2 = e2
    NoJob = NoJob
    IngestWorkers <- MCWorkersTwo
    EmbedWorkers <- MCEmbedWorkers
    IngestJobs <- MCIngestJobs
    EmbedJobs <- MCEmbedJobsOne
    MaxRetries = 1
    MaxSends = 1
    MaxFaults = 1
PROPERTIES
    CompletedIsFinal
\* All jobs may be completed or dead-lettered.
CHECK_DEADLOCK FALSE
