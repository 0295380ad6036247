------------------------------- MODULE Outbox -------------------------------
(***************************************************************************)
(* The transactional outbox (packages/core/pipeline/outbox.py): the rows of *)
(* tibero_doc.outbox_events and the publisher processes that claim them in  *)
(* batches, hand the pipeline.job.created ones to RabbitMQ and mark them    *)
(* published. Every database statement is a transaction of its own, so each *)
(* one is an action, and the publish between claim and mark is another.     *)
(*                                                                         *)
(* A row's locked_at is kept as its age class: free (NULL), fresh (younger  *)
(* than five minutes) or stale. attempts, last_error and locked_by are left *)
(* out: no statement of the program reads them to decide anything.          *)
(***************************************************************************)
EXTENDS Naturals, FiniteSets

CONSTANTS
    Jobs,        \* pipeline.job.created events, named by the job they announce
    Changes,     \* document.upserted / document.deleted events of the trigger
    Publishers,  \* outbox worker processes
    NoEvent,     \* "no event is being handled"
    BatchSize,   \* OUTBOX_BATCH_SIZE
    MaxOutages   \* bound on crashes, slow batches, broker and database errors

Events == Jobs \union Changes

ASSUME OutboxAssumption ==
    /\ Jobs \intersect Changes = {}
    /\ NoEvent \notin Events
    /\ IsFiniteSet(Publishers)
    /\ BatchSize \in Nat \ {0}
    /\ MaxOutages \in Nat

VARIABLES
    event,      \* event[e]: absent, pending (published_at IS NULL) or published
    lock,       \* lock[e]: the age class of locked_at
    publisher,  \* publisher[p]: where the process is, its batch, its event
    sent,       \* history: sent[e] counts the messages the broker accepted
    outages     \* history: faults so far, capped by MaxOutages

rows == <<event, lock>>
vars == <<event, lock, publisher, sent, outages>>

Ages == {"free", "fresh", "stale"}

PublisherState ==
    [pc: {"poll", "route", "mark", "fail"},
     batch: SUBSET Events,
     current: Events \union {NoEvent}]

\* A publisher polls when its batch is done, and handles one job of the batch
\* at a time.
Consistent(s) ==
    /\ s.pc = "poll" <=> s.batch = {}
    /\ IF s.pc \in {"mark", "fail"}
         THEN s.current \in s.batch \intersect Jobs
         ELSE s.current = NoEvent

Polling == [pc |-> "poll", batch |-> {}, current |-> NoEvent]

TypeOK ==
    /\ event \in [Events -> {"absent", "pending", "published"}]
    /\ lock \in [Events -> Ages]
    /\ publisher \in [Publishers -> PublisherState]
    /\ \A p \in Publishers : Consistent(publisher[p])
    /\ sent \in [Jobs -> Nat]
    /\ outages \in 0..MaxOutages

Init ==
    /\ event = [e \in Events |-> "absent"]
    /\ lock = [e \in Events |-> "free"]
    /\ publisher = [p \in Publishers |-> Polling]
    /\ sent = [j \in Jobs |-> 0]
    /\ outages = 0

-----------------------------------------------------------------------------
\* Faults draw on one budget.
Outage ==
    /\ outages < MaxOutages
    /\ outages' = outages + 1

\* Plausible faults of the code, for checking the properties: the claim looks at
\* published_at only; the claim takes unlocked rows only.
ClaimableLockIgnored == {e \in Events : event[e] = "pending"}
ClaimableNeverStale == {e \in Events : event[e] = "pending" /\ lock[e] = "free"}

Claimable == {e \in Events : event[e] = "pending" /\ lock[e] \in {"free", "stale"}}

Holders(e) == {p \in Publishers : e \in publisher[p].batch}

\* Fault for checking: the loop does not end with the batch.
NextEventForEver(p, e) ==
    [pc |-> "route", batch |-> publisher[p].batch \ {e}, current |-> NoEvent]

\* The loop over the batch goes on, or publish_once returns and polls again.
NextEvent(p, e) ==
    LET rest == publisher[p].batch \ {e}
    IN  [pc |-> IF rest = {} THEN "poll" ELSE "route",
         batch |-> rest,
         current |-> NoEvent]

-----------------------------------------------------------------------------
\* The row is inserted by the transaction that creates the job, or by the
\* trigger in the transaction that changes the document.
Insert(e) ==
    /\ event[e] = "absent"
    /\ event' = [event EXCEPT ![e] = "pending"]
    /\ UNCHANGED <<lock, publisher, sent, outages>>

\* Fault for checking: the claim does not set locked_at.
ClaimUnlocked(p) ==
    /\ publisher[p].pc = "poll"
    /\ \E batch \in (SUBSET Claimable) \ {{}} :
        /\ Cardinality(batch) <= BatchSize
        /\ publisher' = [publisher EXCEPT ![p] =
                            [pc |-> "route", batch |-> batch, current |-> NoEvent]]
    /\ UNCHANGED <<event, lock, sent, outages>>

\* claim_batch: one UPDATE ... FOR UPDATE SKIP LOCKED. Rows that another open
\* transaction has locked are skipped and RETURNING gives no order, so a batch
\* is any set of claimable rows within the limit. An empty claim only sleeps.
Claim(p) ==
    /\ publisher[p].pc = "poll"
    /\ \E batch \in (SUBSET Claimable) \ {{}} :
        /\ Cardinality(batch) <= BatchSize
        /\ lock' = [e \in Events |-> IF e \in batch THEN "fresh" ELSE lock[e]]
        /\ publisher' = [publisher EXCEPT ![p] =
                            [pc |-> "route", batch |-> batch, current |-> NoEvent]]
    /\ UNCHANGED <<event, sent, outages>>

\* A captured document change has no route: it is marked published unsent.
RetainChange(p, c) ==
    /\ publisher[p].pc = "route"
    /\ c \in publisher[p].batch \intersect Changes
    /\ event' = [event EXCEPT ![c] = "published"]
    /\ lock' = [lock EXCEPT ![c] = "free"]
    /\ publisher' = [publisher EXCEPT ![p] = NextEvent(p, c)]
    /\ UNCHANGED <<sent, outages>>

\* publisher.publish: the broker accepts the message.
Send(p, j) ==
    /\ publisher[p].pc = "route"
    /\ j \in publisher[p].batch \intersect Jobs
    /\ sent' = [sent EXCEPT ![j] = @ + 1]
    /\ publisher' = [publisher EXCEPT ![p].pc = "mark", ![p].current = j]
    /\ UNCHANGED <<event, lock, outages>>

\* publish raises before the broker has the message.
SendFails(p, j) ==
    /\ publisher[p].pc = "route"
    /\ j \in publisher[p].batch \intersect Jobs
    /\ Outage
    /\ publisher' = [publisher EXCEPT ![p].pc = "fail", ![p].current = j]
    /\ UNCHANGED <<event, lock, sent>>

\* publish raises after the broker has the message (closing the connection
\* fails): the publisher cannot tell this from SendFails.
SendUnconfirmed(p, j) ==
    /\ publisher[p].pc = "route"
    /\ j \in publisher[p].batch \intersect Jobs
    /\ Outage
    /\ sent' = [sent EXCEPT ![j] = @ + 1]
    /\ publisher' = [publisher EXCEPT ![p].pc = "fail", ![p].current = j]
    /\ UNCHANGED <<event, lock>>

\* Fault for checking: published() unlocks the row and leaves published_at.
MarkPublishedOnlyUnlocks(p) ==
    LET e == publisher[p].current
    IN  /\ publisher[p].pc = "mark"
        /\ lock' = [lock EXCEPT ![e] = "free"]
        /\ publisher' = [publisher EXCEPT ![p] = NextEvent(p, e)]
        /\ UNCHANGED <<event, sent, outages>>

\* published(): by event_id alone, whoever holds the row by now.
MarkPublished(p) ==
    LET e == publisher[p].current
    IN  /\ publisher[p].pc = "mark"
        /\ event' = [event EXCEPT ![e] = "published"]
        /\ lock' = [lock EXCEPT ![e] = "free"]
        /\ publisher' = [publisher EXCEPT ![p] = NextEvent(p, e)]
        /\ UNCHANGED <<sent, outages>>

\* published() raises, before or after its commit took effect; the handler
\* that treats a failed publish then runs for a message that was sent.
MarkRaises(p) ==
    LET e == publisher[p].current
    IN  /\ publisher[p].pc = "mark"
        /\ Outage
        /\ \/ /\ event' = [event EXCEPT ![e] = "published"]
              /\ lock' = [lock EXCEPT ![e] = "free"]
           \/ UNCHANGED rows
        /\ publisher' = [publisher EXCEPT ![p].pc = "fail"]
        /\ UNCHANGED sent

\* Fault for checking: a failed event is marked published like a sent one.
MarkFailedAsPublished(p) ==
    LET e == publisher[p].current
    IN  /\ publisher[p].pc = "fail"
        /\ event' = [event EXCEPT ![e] = "published"]
        /\ lock' = [lock EXCEPT ![e] = "free"]
        /\ publisher' = [publisher EXCEPT ![p] = NextEvent(p, e)]
        /\ UNCHANGED <<sent, outages>>

\* failed(): clears the lock by event_id alone, also a lock that another
\* publisher took after this one's went stale.
MarkFailed(p) ==
    LET e == publisher[p].current
    IN  /\ publisher[p].pc = "fail"
        /\ lock' = [lock EXCEPT ![e] = "free"]
        /\ publisher' = [publisher EXCEPT ![p] = NextEvent(p, e)]
        /\ UNCHANGED <<event, sent, outages>>

\* The process dies: by itself, or because claim_batch, failed or the
\* published of a document change raises, which nothing catches. Its rows
\* stay locked.
Crash(p) ==
    /\ publisher[p].pc # "poll"
    /\ Outage
    /\ publisher' = [publisher EXCEPT ![p] = Polling]
    /\ UNCHANGED <<event, lock, sent>>

\* Five minutes pass over the lock of a process that is gone.
AbandonedLockExpires(e) ==
    /\ lock[e] = "fresh"
    /\ Holders(e) = {}
    /\ lock' = [lock EXCEPT ![e] = "stale"]
    /\ UNCHANGED <<event, publisher, sent, outages>>

\* Five minutes pass over the lock of a process that is still working through
\* its batch.
SlowLockExpires(e) ==
    /\ lock[e] = "fresh"
    /\ Holders(e) # {}
    /\ Outage
    /\ lock' = [lock EXCEPT ![e] = "stale"]
    /\ UNCHANGED <<event, publisher, sent>>

-----------------------------------------------------------------------------
PublisherStep(p) ==
    \/ Claim(p)
    \/ \E c \in Changes : RetainChange(p, c)
    \/ \E j \in Jobs : Send(p, j)
    \/ MarkPublished(p)
    \/ MarkFailed(p)

Fault ==
    \/ \E p \in Publishers, j \in Jobs : SendFails(p, j) \/ SendUnconfirmed(p, j)
    \/ \E p \in Publishers : MarkRaises(p) \/ Crash(p)
    \/ \E e \in Events : SlowLockExpires(e)

Next ==
    \/ \E e \in Events : Insert(e) \/ AbandonedLockExpires(e)
    \/ \E p \in Publishers : PublisherStep(p)
    \/ Fault

\* run_forever polls for ever and a supervisor restarts a dead publisher;
\* time passes. Nothing obliges a client to insert or a fault to happen.
Fairness ==
    /\ \A p \in Publishers : WF_vars(PublisherStep(p))
    /\ WF_vars(\E e \in Events : AbandonedLockExpires(e))

Spec == Init /\ [][Next]_vars /\ Fairness

-----------------------------------------------------------------------------
\* A job's event is never marked published before the broker accepted a
\* message for it, whatever publishers crash, time out or repeat each other:
\* no commit of a job is left without its message (outbox.py 98-100).
PublishedWasSent ==
    \A j \in Jobs : event[j] = "published" => sent[j] > 0

\* Each message beyond the first is paid for by a fault of its own: SKIP LOCKED,
\* the lock age and published_at otherwise keep publishers from repeating one
\* another (outbox.py 34-56).
ResendsAreFaults ==
    \A j \in Jobs : sent[j] <= 1 + outages

\* Two publishers have the same event in hand only after some fault.
ClaimsDisjointWithoutFaults ==
    outages = 0 => \A e \in Events : Cardinality(Holders(e)) <= 1

\* The outbox delivers every job event at least once and confirms it only
\* afterwards, and it gets there: the refinement of AtLeastOnce.
AL == INSTANCE AtLeastOnce WITH
        Events <- Jobs,
        recorded <- {j \in Jobs : event[j] # "absent"},
        delivered <- sent,
        confirmed <- {j \in Jobs : event[j] = "published"}

DeliversAtLeastOnce == AL!Spec

=============================================================================
