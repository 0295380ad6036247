---------------------------- MODULE ObjectTiers ----------------------------
(***************************************************************************)
(* Originals in the hot, warm and cold buckets of MinIO: uploads            *)
(* (save_upload, store.py), reads (object_storage.py) and the runs that     *)
(* move what was not accessed for long (MinIOTierManager in                 *)
(* packages/core/lifecycle.py, started by Airflow, by managers and by       *)
(* hand). A run moves objects one by one and records the moves in one       *)
(* transaction, which rolls back as a whole while the objects stay moved.   *)
(***************************************************************************)
EXTENDS Naturals, FiniteSets

CONSTANTS
    Keys,         \* object keys; a key stands for its contents
    Movers,       \* runs of transition_due that may overlap
    Uploaders,
    Readers,
    WarmDays,     \* LIFECYCLE_WARM_DAYS
    ColdDays,     \* LIFECYCLE_COLD_DAYS
    MaxFaults,    \* bound on crashes of runs and errors of S3 within them
    None          \* "nothing"

Tiers == {"hot", "warm", "cold"}
Move == [key: Keys, target: Tiers]

ASSUME ObjectTiersAssumption ==
    /\ None \notin Keys \union Tiers \union Move
    /\ WarmDays \in Nat /\ ColdDays \in Nat /\ WarmDays < ColdDays
    /\ MaxFaults \in Nat

VARIABLES
    held,         \* held[k]: the buckets that have the object
    tier,         \* tier[k]: storage_tier of its object_lifecycle row, or None
    age,          \* age[k]: days since last_accessed_at, as far as ColdDays; only
                  \* uploads renew it, not reads
    upload,       \* upload[u]: the key put whose row is not written yet, or None
    run,          \* run[m]: a run of transition_due
    read,         \* read[r]: a read of an object
    faults,       \* number of faults so far
    displaced,    \* history: keys whose move was rolled back after the object had moved
    doubled       \* history: keys put again, or left by a run, in two buckets

history == <<displaced, doubled>>
vars == <<held, tier, age, upload, run, read, faults, displaced, doubled>>

Run == [pc: {"idle", "copy", "head"}, locked: SUBSET Keys,
        todo: SUBSET Move, current: Move \union {None}, done: SUBSET Move]
NoRun == [pc |-> "idle", locked |-> {}, todo |-> {}, current |-> None, done |-> {}]
\* bucket: where a read looks next.
Read == [pc: {"idle", "look", "lost"}, key: Keys \union {None}, bucket: Tiers]
NoRead == [pc |-> "idle", key |-> None, bucket |-> "hot"]

LockedBy(m) == run[m].locked
Locked(k) == \E m \in Movers : k \in LockedBy(m)

TypeOK ==
    /\ held \in [Keys -> SUBSET Tiers]
    /\ tier \in [Keys -> Tiers \union {None}]
    /\ age \in [Keys -> 0..ColdDays]
    /\ upload \in [Uploaders -> Keys \union {None}]
    /\ run \in [Movers -> Run]
    /\ \A m \in Movers : \A v, w \in run[m].todo \union run[m].done : v.key = w.key => v = w
    /\ \A m, n \in Movers : m # n => LockedBy(m) \intersect LockedBy(n) = {}
    /\ read \in [Readers -> Read]
    /\ faults \in 0..MaxFaults
    /\ displaced \subseteq doubled /\ doubled \subseteq Keys

Init ==
    /\ held = [k \in Keys |-> {}]
    /\ tier = [k \in Keys |-> None]
    /\ age = [k \in Keys |-> 0]
    /\ upload = [u \in Uploaders |-> None]
    /\ run = [m \in Movers |-> NoRun]
    /\ read = [r \in Readers |-> NoRead]
    /\ faults = 0
    /\ displaced = {} /\ doubled = {}

-----------------------------------------------------------------------------
(***************************************************************************)
(* Uploads and time.                                                        *)
(***************************************************************************)
\* The object goes to the hot bucket, wherever else it is.
Put(u, k) ==
    /\ upload[u] = None
    /\ held' = [held EXCEPT ![k] = @ \union {"hot"}]
    /\ upload' = [upload EXCEPT ![u] = k]
    /\ doubled' = IF held[k] \subseteq {"hot"} THEN doubled ELSE doubled \union {k}
    /\ UNCHANGED <<tier, age, run, read, faults, displaced>>

\* The row is inserted hot; of an existing one only the access is renewed, once
\* no run has it locked.
WriteRow(u) ==
    LET k == upload[u]
    IN  /\ k # None
        /\ ~Locked(k)
        /\ tier' = [tier EXCEPT ![k] = IF @ = None THEN "hot" ELSE @]
        /\ age' = [age EXCEPT ![k] = 0]
        /\ upload' = [upload EXCEPT ![u] = None]
        /\ UNCHANGED <<held, run, read, faults, displaced, doubled>>

UploadDies(u) ==
    /\ upload[u] # None
    /\ upload' = [upload EXCEPT ![u] = None]
    /\ UNCHANGED <<held, tier, age, run, read, faults, displaced, doubled>>

\* Of a cold object no run asks how long ago it was accessed.
Day ==
    /\ age' = [k \in Keys |-> IF tier[k] \notin {None, "cold"} /\ age[k] < ColdDays
                              THEN age[k] + 1 ELSE age[k]]
    /\ age' # age
    /\ UNCHANGED <<held, tier, upload, run, read, faults, displaced, doubled>>

-----------------------------------------------------------------------------
(***************************************************************************)
(* Reads go through the buckets from hot to cold.                           *)
(***************************************************************************)
\* Fault for checking: the cold bucket before the warm one.
NextBucketColdFirst(t) == CASE t = "hot" -> "cold" [] t = "cold" -> "warm" [] t = "warm" -> None

NextBucket(t) == CASE t = "hot" -> "warm" [] t = "warm" -> "cold" [] t = "cold" -> None

Missed(q) == IF NextBucket(q.bucket) = None THEN [q EXCEPT !.pc = "lost"]
             ELSE [q EXCEPT !.bucket = NextBucket(q.bucket)]

\* A read begins in the hot bucket.
BeginRead(r) ==
    /\ read[r].pc = "idle"
    /\ \E k \in Keys :
        /\ held[k] # {}
        /\ read' = [read EXCEPT ![r] = [NoRead EXCEPT !.pc = "look", !.key = k]]
    /\ UNCHANGED <<held, tier, age, upload, run, faults, displaced, doubled>>

\* get reads the object, download_url makes a link to the bucket it is in.
Look(r) ==
    /\ read[r].pc = "look"
    /\ read' = [read EXCEPT ![r] = IF @.bucket \in held[@.key] THEN NoRead ELSE Missed(@)]
    /\ UNCHANGED <<held, tier, age, upload, run, faults, displaced, doubled>>

-----------------------------------------------------------------------------
(***************************************************************************)
(* transition_due.                                                          *)
(***************************************************************************)
Target(k) ==
    CASE age[k] >= ColdDays -> "cold"
      [] age[k] < ColdDays /\ tier[k] = "hot" /\ age[k] >= WarmDays -> "warm"
      [] OTHER -> tier[k]

\* Fault for checking: the rows are read without FOR UPDATE.
SelectedUnlocked == {k \in Keys : tier[k] \notin {None, "cold"}}

\* Fault for checking: only what is hot is looked at.
SelectedHot == {k \in Keys : tier[k] = "hot" /\ ~Locked(k)}

\* FOR UPDATE SKIP LOCKED.
Selected == {k \in Keys : tier[k] \notin {None, "cold"} /\ ~Locked(k)}

Begin(m) ==
    LET due == {k \in Selected : Target(k) # tier[k]}
    IN  /\ run[m].pc = "idle"
        /\ due # {}
        /\ run' = [run EXCEPT ![m] = [pc |-> "copy", locked |-> Selected, current |-> None, done |-> {},
                                      todo |-> {[key |-> k, target |-> Target(k)] : k \in due}]]
        /\ UNCHANGED <<held, tier, age, upload, read, faults, displaced, doubled>>

\* The transaction rolls back; what has moved has moved.
Abort(m) ==
    /\ run' = [run EXCEPT ![m] = NoRun]
    /\ displaced' = displaced \union {k \in LockedBy(m) : tier[k] \notin held[k]}
    /\ doubled' = doubled \union {k \in LockedBy(m) : held[k] # {tier[k]}}

StartMove(m, v) == run' = [run EXCEPT ![m].pc = "head", ![m].todo = @ \ {v}, ![m].current = v]

\* Copying from a bucket the object has left raises NoSuchKey.
Copy(m) ==
    /\ run[m].pc = "copy"
    /\ \E v \in run[m].todo :
        \/ tier[v.key] \notin held[v.key] /\ Abort(m) /\ UNCHANGED held
        \/ /\ tier[v.key] \in held[v.key]
           /\ held' = [held EXCEPT ![v.key] = @ \union {v.target}]
           /\ StartMove(m, v)
           /\ UNCHANGED history
    /\ UNCHANGED <<tier, age, upload, read, faults>>

\* A copy that raises, or that reports success without an object.
CopyFails(m) ==
    /\ run[m].pc = "copy" /\ faults < MaxFaults
    /\ faults' = faults + 1
    /\ \E v \in run[m].todo :
        \/ Abort(m)
        \/ tier[v.key] \in held[v.key] /\ StartMove(m, v) /\ UNCHANGED history
    /\ UNCHANGED <<held, tier, age, upload, read>>

\* Fault for checking: the source stays.
DeleteSourceNot(m, v) ==
    /\ run' = [run EXCEPT ![m].pc = "copy", ![m].current = None, ![m].done = @ \union {v}]
    /\ UNCHANGED <<held, displaced, doubled>>

\* The source goes; the new tier is written and not yet committed.
DeleteSource(m, v) ==
    /\ held' = [held EXCEPT ![v.key] = @ \ {tier[v.key]}]
    /\ run' = [run EXCEPT ![m].pc = "copy", ![m].current = None, ![m].done = @ \union {v}]
    /\ UNCHANGED history

\* Fault for checking: the source goes without a look at the target.
HeadSkipped(m) ==
    /\ run[m].pc = "head"
    /\ DeleteSource(m, run[m].current)
    /\ UNCHANGED <<tier, age, upload, read, faults>>

\* The target is verified before the source is deleted.
Head(m) ==
    LET v == run[m].current
    IN  /\ run[m].pc = "head"
        /\ \/ v.target \notin held[v.key] /\ Abort(m) /\ UNCHANGED held
           \/ v.target \in held[v.key] /\ DeleteSource(m, v)
        /\ UNCHANGED <<tier, age, upload, read, faults>>

Commit(m) ==
    /\ run[m].pc = "copy" /\ run[m].todo = {}
    /\ tier' = [k \in Keys |-> IF \E v \in run[m].done : v.key = k
                               THEN (CHOOSE v \in run[m].done : v.key = k).target ELSE tier[k]]
    /\ run' = [run EXCEPT ![m] = NoRun]
    /\ UNCHANGED <<held, age, upload, read, faults, displaced, doubled>>

Crash(m) ==
    /\ run[m].pc # "idle" /\ faults < MaxFaults
    /\ faults' = faults + 1
    /\ Abort(m)
    /\ UNCHANGED <<held, tier, age, upload, read>>
-----------------------------------------------------------------------------
ReadStep(r) == BeginRead(r) \/ Look(r)
RunStep(m) == Copy(m) \/ Head(m) \/ Commit(m)

Next ==
    \/ \E u \in Uploaders : WriteRow(u) \/ UploadDies(u) \/ \E k \in Keys : Put(u, k)
    \/ Day
    \/ \E r \in Readers : ReadStep(r)
    \/ \E m \in Movers : Begin(m) \/ RunStep(m) \/ CopyFails(m) \/ Crash(m)

\* Airflow starts a run every day, and a run goes on until it commits or raises. It
\* is enough that of all the runs one is started or goes on.
Fairness == WF_vars(Day) /\ WF_vars(\E m \in Movers : Begin(m) \/ RunStep(m))

Spec == Init /\ [][Next]_vars
FairSpec == Spec /\ Fairness

-----------------------------------------------------------------------------
(***************************************************************************)
(* Properties.                                                              *)
(***************************************************************************)
\* A read of an object that was stored finds it, in whatever bucket a run that
\* is moving it has it by then.
ReadsFind == \A r \in Readers : read[r].pc # "lost"

\* No object is gone from all buckets: no step takes the last copy.
ObjectsKept == [][\A k \in Keys : held[k] # {} => held'[k] # {}]_held

\* Outside of runs the recorded tier tells the bucket, and the only one, unless
\* a run was interrupted over the object or it was uploaded again after a move.
TierTellsBucket ==
    \A k \in Keys : (tier[k] # None /\ ~Locked(k)) =>
        /\ tier[k] \in held[k] \/ k \in displaced
        /\ held[k] = {tier[k]} \/ k \in doubled

\* An upload of k ends, or a read of it that found it.
Accessed(k) ==
    \/ \E u \in Uploaders : upload[u] = k /\ upload'[u] = None
    \/ \E r \in Readers : read[r].key = k /\ read'[r] = NoRead

\* What nobody uploads or reads any more is cold in the end ("Cold: 90 days
\* without access", data-platform-operations.md), unless a run interrupted over
\* some object has left a row that makes all later runs raise.
DueIsMoved ==
    \A k \in Keys :
        \/ []<><<Accessed(k)>>_vars
        \/ <>[](tier[k] \in {None, "cold"})
        \/ <>[](displaced # {})
=============================================================================
