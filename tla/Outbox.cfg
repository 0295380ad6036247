\* The outbox with faults: what it promises to the rest of the pipeline.
SPECIFICATION Spec
CONSTANTS
    p1 = p1
    p2 = p2
    j1 = j1
    j2 = j2
    c1 = c1
    NoEvent = NoEvent
    Publishers <- MCPublishers
    Jobs <- MCJobs
    Changes <- MCChanges
    BatchSize = 2
    MaxOutages = 2
INVARIANTS
    TypeOK
    PublishedWasSent
    ResendsAreFaults
    ClaimsDisjointWithoutFaults
PROPERTIES
    DeliversAtLeastOnce
\* Once every event is published the publishers only poll.
CHECK_DEADLOCK FALSE
