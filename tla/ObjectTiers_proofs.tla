------------------------- MODULE ObjectTiers_proofs -------------------------
(***************************************************************************)
(* Proofs about ObjectTiers, for any sets of objects, runs, uploaders and   *)
(* readers and any number of faults: type correctness, that no step takes   *)
(* the last copy of an object, that no read misses one, and that the        *)
(* recorded tier is wrong for named causes only.                            *)
(***************************************************************************)
EXTENDS ObjectTiers, TLAPS

\* A move goes away from where reads begin.
Beyond(a, b) == <<a, b>> \in {<<"hot", "warm">>, <<"hot", "cold">>, <<"warm", "cold">>}

MovesOf(q) == q.todo \union ({q.current} \ {None}) \union q.done

\* The rows a run has locked keep their tier until it commits, so its moves
\* stay what they were when it selected them: one per object, each away from
\* the recorded tier, and each at one stage.
RunOK(q) ==
    /\ q \in Run
    /\ q.pc = "idle" => q = NoRun
    /\ q.pc = "head" <=> q.current # None
    /\ \A k \in q.locked : tier[k] \in {"hot", "warm"}
    /\ \A v \in MovesOf(q) : v.key \in q.locked /\ Beyond(tier[v.key], v.target)
    /\ \A v, w \in MovesOf(q) : v.key = w.key => v = w
    /\ q.todo \intersect q.done = {}
    /\ q.current \notin q.todo \union q.done

RunsOK ==
    /\ run \in [Movers -> Run]
    /\ \A m \in Movers : RunOK(run[m])
    /\ \A m, n \in Movers : m # n => LockedBy(m) \intersect LockedBy(n) = {}

TypeInv ==
    /\ held \in [Keys -> SUBSET Tiers]
    /\ tier \in [Keys -> Tiers \union {None}]
    /\ age \in [Keys -> 0..ColdDays]
    /\ upload \in [Uploaders -> Keys \union {None}]
    /\ RunsOK
    /\ read \in [Readers -> Read]
    /\ \A r \in Readers : read[r].pc = "look" => read[r].key \in Keys
    /\ faults \in 0..MaxFaults
    /\ displaced \subseteq doubled /\ doubled \subseteq Keys

\* Where an object is, by what its row and the runs say of it. Without a row it
\* has been put at most; a row and an upload that is about to write one stand
\* for an object that is there. While it is moved it is in both buckets, after
\* that in the target, and otherwise in the bucket of its tier.
InHand(q) == q.done \union ({q.current} \ {None})

Resting(k) == tier[k] # None /\ \A m \in Movers : \A v \in InHand(run[m]) : v.key # k

Agrees(k) ==
    /\ tier[k] \in held[k] \/ k \in displaced
    /\ held[k] = {tier[k]} \/ k \in doubled

Buckets ==
    /\ \A k \in Keys : tier[k] = None => held[k] \subseteq {"hot"}
    /\ \A k \in Keys : tier[k] # None => held[k] # {}
    /\ \A u \in Uploaders : upload[u] # None => held[upload[u]] # {}

Moves ==
    \A m \in Movers :
        /\ run[m].current # None => LET v == run[m].current IN
            /\ tier[v.key] \in held[v.key]
            /\ held[v.key] \subseteq {tier[v.key], v.target} \/ v.key \in doubled
        /\ \A v \in run[m].done :
            /\ v.target \in held[v.key]
            /\ held[v.key] = {v.target} \/ v.key \in doubled

Rests == \A k \in Keys : Resting(k) => Agrees(k)

\* The object a read is after is in the bucket it looks into next or in one
\* beyond it.
Reachable(q) == \E b \in held[q.key] : b = q.bucket \/ Beyond(q.bucket, b)

ReadsReach == \A r \in Readers : read[r].pc = "look" => Reachable(read[r])

Where == Buckets /\ Moves /\ Rests

IInv == TypeInv /\ Where /\ ReadsReach /\ ReadsFind

-----------------------------------------------------------------------------
(***************************************************************************)
(* Types, and what the runs have in hand.                                   *)
(***************************************************************************)
\* "Nothing" is none of what it stands beside.
LEMMA NoneIsNothing ==
  /\ \A k \in Keys : k # None
  /\ \A t \in Tiers : t # None
  /\ \A v \in Move : v # None
  BY ObjectTiersAssumption

\* Initially every variable has its type.
LEMMA InitType == Init => TypeInv
  BY ObjectTiersAssumption
  DEF Init, TypeInv, RunsOK, RunOK, Run, NoRun, Read, NoRead, MovesOf, LockedBy, Tiers

\* Runs stay in order while the rows they have locked keep their tier.
LEMMA RunsStay ==
  ASSUME RunsOK, run' = run, \A k \in Keys : Locked(k) => tier'[k] = tier[k]
  PROVE  RunsOK'
<1>1. \A m \in Movers : \A k \in run[m].locked : tier'[k] = tier[k]
  BY DEF Locked, LockedBy, RunsOK, Run
<1> QED
  BY <1>1 DEF RunsOK, RunOK, LockedBy, MovesOf

\* One run goes on to a state that is in order and locks nothing that another
\* run has locked.
LEMMA RunGoesOn ==
  ASSUME RunsOK, tier' = tier, NEW m \in Movers, NEW q, RunOK(q),
         \A n \in Movers \ {m} : q.locked \intersect LockedBy(n) = {},
         run' = [run EXCEPT ![m] = q]
  PROVE  RunsOK'
<1>1. \A n \in Movers : run'[n] = IF n = m THEN q ELSE run[n]
  BY DEF RunsOK
<1>2. run' \in [Movers -> Run]
  BY DEF RunsOK, RunOK
<1>3. \A n \in Movers : RunOK(run[n])'
  BY <1>1 DEF RunsOK, RunOK, MovesOf
<1>4. \A n, o \in Movers : n # o => LockedBy(n)' \intersect LockedBy(o)' = {}
  BY <1>1 DEF RunsOK, LockedBy
<1> QED
  BY <1>2, <1>3, <1>4 DEF RunsOK

\* What Begin selects is in order: the moves lead away from the recorded tier.
LEMMA BeginRuns ==
  ASSUME TypeInv, NEW m \in Movers, Begin(m)
  PROVE  RunsOK'
<1> DEFINE due == {k \in Selected : Target(k) # tier[k]}
           todo == {[key |-> k, target |-> Target(k)] : k \in due}
           q == [pc |-> "copy", locked |-> Selected, current |-> None, done |-> {}, todo |-> todo]
<1>1. \A k \in Selected : k \in Keys /\ tier[k] \in {"hot", "warm"}
  BY DEF Selected, TypeInv, Tiers
<1>2. \A k \in due : Target(k) \in Tiers /\ Beyond(tier[k], Target(k))
  BY <1>1, ObjectTiersAssumption DEF Target, TypeInv, Tiers, Beyond
<1>3. todo \subseteq Move
  BY <1>1, <1>2 DEF Move
<1>4. q \in Run
  BY <1>1, <1>3 DEF Run
<1>5. MovesOf(q) = todo
  BY DEF MovesOf
<1>6. \A v \in todo : v.key \in due /\ v.target = Target(v.key) /\ v = [key |-> v.key, target |-> v.target]
  OBVIOUS
<1>7. RunOK(q)
  <2>1. \A v \in MovesOf(q) : v.key \in q.locked /\ Beyond(tier[v.key], v.target)
    BY <1>2, <1>5, <1>6
  <2>2. \A v, w \in MovesOf(q) : v.key = w.key => v = w
    BY <1>5, <1>6
  <2>3. q.current \notin q.todo
    BY <1>3, NoneIsNothing
  <2> QED
    BY <1>1, <1>4, <2>1, <2>2, <2>3 DEF RunOK
<1>8. \A n \in Movers \ {m} : q.locked \intersect LockedBy(n) = {}
  BY DEF Selected, Locked
<1>9. run' = [run EXCEPT ![m] = q] /\ tier' = tier /\ RunsOK
  BY DEF Begin, TypeInv
<1> HIDE DEF q
<1> QED
  BY <1>7, <1>8, <1>9, RunGoesOn

\* A run that starts a move takes it off its list.
LEMMA StartRuns ==
  ASSUME TypeInv, NEW m \in Movers, run[m].pc = "copy", NEW v \in run[m].todo,
         StartMove(m, v), tier' = tier
  PROVE  RunsOK'
<1> DEFINE q == [run[m] EXCEPT !.pc = "head", !.todo = @ \ {v}, !.current = v]
<1>1. RunOK(run[m]) /\ run[m] \in Run /\ v \in Move /\ v # None
  BY NoneIsNothing DEF TypeInv, RunsOK, Run
<1>2. run' = [run EXCEPT ![m] = q]
  BY DEF StartMove, TypeInv, RunsOK
<1>3. q \in Run /\ q.locked = LockedBy(m) /\ q.done = run[m].done
  BY <1>1 DEF Run, LockedBy
<1>4. run[m].current = None
  BY <1>1 DEF RunOK
<1>5. MovesOf(q) = MovesOf(run[m])
  BY <1>1, <1>4 DEF MovesOf, Run
<1>6. RunOK(q)
  BY <1>1, <1>3, <1>5 DEF RunOK, Run, LockedBy
<1> HIDE DEF q
<1> QED
  BY <1>2, <1>3, <1>6, RunGoesOn DEF TypeInv, RunsOK

\* A run that has verified a copy puts the move to those it is done with.
LEMMA DoneRuns ==
  ASSUME TypeInv, NEW m \in Movers, run[m].pc = "head",
         DeleteSource(m, run[m].current), tier' = tier
  PROVE  RunsOK'
<1> DEFINE v == run[m].current
           q == [run[m] EXCEPT !.pc = "copy", !.current = None, !.done = @ \union {v}]
<1>1. RunOK(run[m]) /\ run[m] \in Run /\ v \in Move /\ v # None
  BY DEF TypeInv, RunsOK, RunOK, Run
<1>2. run' = [run EXCEPT ![m] = q]
  BY DEF DeleteSource, TypeInv, RunsOK
<1>3. q \in Run /\ q.locked = LockedBy(m) /\ q.todo = run[m].todo
  BY <1>1 DEF Run, LockedBy
<1>4. MovesOf(q) = MovesOf(run[m])
  BY <1>1 DEF MovesOf, Run
<1>5. None \notin q.todo \union q.done
  BY <1>1, NoneIsNothing DEF Run
<1>6. RunOK(q)
  BY <1>1, <1>3, <1>4, <1>5 DEF RunOK, Run, LockedBy
<1> HIDE DEF q
<1> QED
  BY <1>2, <1>3, <1>6, RunGoesOn DEF TypeInv, RunsOK

\* A run that ends has nothing locked and nothing in hand.
LEMMA EndRuns ==
  ASSUME TypeInv, NEW m \in Movers, run' = [run EXCEPT ![m] = NoRun], tier' = tier
  PROVE  RunsOK'
<1>1. RunOK(NoRun) /\ NoRun.locked = {}
  BY DEF RunOK, Run, NoRun, MovesOf
<1> QED
  BY <1>1, RunGoesOn DEF TypeInv

\* A run has locked the objects of its moves, and each move leads away from the
\* tier the row still has.
LEMMA MovesAreLocked ==
  ASSUME TypeInv, NEW m \in Movers, NEW v \in MovesOf(run[m])
  PROVE  v \in Move /\ v.key \in LockedBy(m) /\ v.key \in Keys /\ Beyond(tier[v.key], v.target)
<1>1. RunOK(run[m])
  BY DEF TypeInv, RunsOK
<1> QED
  BY <1>1 DEF RunOK, Run, Move, MovesOf, LockedBy

\* A commit gives each object the target of its move, and no other run has the
\* object.
LEMMA CommitTiers ==
  ASSUME TypeInv, NEW m \in Movers, Commit(m)
  PROVE  /\ \A v \in run[m].done : v.key \in Keys /\ tier'[v.key] = v.target
         /\ \A k \in Keys : (\A v \in run[m].done : v.key # k) => tier'[k] = tier[k]
         /\ tier' \in [Keys -> Tiers \union {None}]
<1>1. run[m] \in Run /\ \A v, w \in run[m].done : v.key = w.key => v = w
  BY DEF TypeInv, RunsOK, RunOK, MovesOf
<1>2. \A v \in run[m].done : v.key \in Keys /\ v.target \in Tiers
  BY <1>1 DEF Run, Move
<1>3. \A v \in run[m].done : (CHOOSE w \in run[m].done : w.key = v.key) = v
  BY <1>1
<1>4. tier' = [k \in Keys |-> IF \E v \in run[m].done : v.key = k
                              THEN (CHOOSE v \in run[m].done : v.key = k).target ELSE tier[k]]
  BY DEF Commit
<1>5. \A v \in run[m].done : tier'[v.key] = v.target
  BY <1>2, <1>3, <1>4
<1>6. \A k \in Keys : (\A v \in run[m].done : v.key # k) => tier'[k] = tier[k]
  BY <1>4
<1>7. tier' \in [Keys -> Tiers \union {None}]
  <2>1. \A k \in Keys : tier'[k] \in Tiers \union {None}
    BY <1>2, <1>5, <1>6 DEF TypeInv
  <2> QED
    BY <1>4, <2>1
<1> QED
  BY <1>2, <1>5, <1>6, <1>7

LEMMA CommitRuns ==
  ASSUME TypeInv, NEW m \in Movers, Commit(m)
  PROVE  RunsOK'
<1>1. run' = [run EXCEPT ![m] = NoRun] /\ run \in [Movers -> Run]
  BY DEF Commit, TypeInv, RunsOK
<1>2. run'[m] = NoRun /\ \A n \in Movers : n # m => run'[n] = run[n]
  BY <1>1
<1>3. RunOK(NoRun)'
  BY DEF RunOK, Run, NoRun, MovesOf
<1>4. ASSUME NEW n \in Movers, n # m PROVE \A k \in run[n].locked : tier'[k] = tier[k]
  <2>1. \A v \in run[m].done : v.key \in LockedBy(m)
    BY MovesAreLocked DEF MovesOf
  <2>2. LockedBy(n) \subseteq Keys /\ LockedBy(n) \intersect LockedBy(m) = {}
    BY <1>4 DEF TypeInv, RunsOK, Run, LockedBy
  <2> QED
    BY <2>1, <2>2, CommitTiers DEF LockedBy
<1>5. ASSUME NEW n \in Movers, n # m PROVE RunOK(run[n])'
  <2>1. RunOK(run[n]) /\ run'[n] = run[n]
    BY <1>2, <1>5 DEF TypeInv, RunsOK
  <2>2. \A k \in run[n].locked : tier'[k] = tier[k]
    BY <1>4, <1>5
  <2> QED
    BY <2>1, <2>2 DEF RunOK, MovesOf
<1>6. run' \in [Movers -> Run]
  BY <1>1 DEF Run, NoRun
<1>7. \A n, o \in Movers : n # o => LockedBy(n)' \intersect LockedBy(o)' = {}
  BY <1>2 DEF TypeInv, RunsOK, LockedBy, NoRun
<1> QED
  BY <1>2, <1>3, <1>5, <1>6, <1>7 DEF RunsOK

\* An interrupted run only adds to the history.
LEMMA AbortType ==
  ASSUME TypeInv, NEW m \in Movers, Abort(m), tier' = tier, held' = held
  PROVE  RunsOK' /\ displaced' \subseteq doubled' /\ doubled' \subseteq Keys
<1>1. RunsOK'
  BY EndRuns DEF Abort
<1>2. LockedBy(m) \subseteq Keys
  BY DEF TypeInv, RunsOK, Run, LockedBy
<1>3. \A k \in Keys : tier[k] \notin held[k] => held[k] # {tier[k]}
  OBVIOUS
<1> QED
  BY <1>1, <1>2, <1>3 DEF Abort, TypeInv

\* A read that has missed goes on to the next bucket or is lost.
LEMMA MissedType ==
  ASSUME NEW q \in Read, q.pc = "look"
  PROVE  /\ Missed(q) \in Read
         /\ Missed(q).key = q.key
  BY NoneIsNothing DEF Read, Missed, NextBucket, Tiers

\* Every step keeps the types and the order of the runs.
LEMMA StepType == TypeInv /\ [Next]_vars => TypeInv'
<1> SUFFICES ASSUME TypeInv, [Next]_vars PROVE TypeInv'
  OBVIOUS
<1> USE ObjectTiersAssumption
<1>1. ASSUME NEW u \in Uploaders, NEW k \in Keys, Put(u, k) PROVE TypeInv'
  <2>1. RunsOK'
    BY <1>1, RunsStay DEF Put, TypeInv
  <2> QED
    BY <1>1, <2>1 DEF Put, TypeInv, Tiers
<1>2. ASSUME NEW u \in Uploaders, WriteRow(u) PROVE TypeInv'
  <2>1. upload[u] \in Keys /\ ~Locked(upload[u])
    BY <1>2 DEF WriteRow, TypeInv
  <2>2. RunsOK'
    BY <1>2, <2>1, RunsStay DEF WriteRow, TypeInv
  <2> QED
    BY <1>2, <2>1, <2>2 DEF WriteRow, TypeInv, Tiers
<1>3. ASSUME NEW u \in Uploaders, UploadDies(u) PROVE TypeInv'
  <2>1. RunsOK'
    BY <1>3, RunsStay DEF UploadDies, TypeInv
  <2> QED
    BY <1>3, <2>1 DEF UploadDies, TypeInv
<1>4. CASE Day
  <2>1. RunsOK'
    BY <1>4, RunsStay DEF Day, TypeInv
  <2> QED
    BY <1>4, <2>1 DEF Day, TypeInv
<1>5. ASSUME NEW r \in Readers, BeginRead(r) PROVE TypeInv'
  <2>1. RunsOK'
    BY <1>5, RunsStay DEF BeginRead, TypeInv
  <2> DEFINE q(k) == [NoRead EXCEPT !.pc = "look", !.key = k]
  <2>2. PICK k \in Keys : read' = [read EXCEPT ![r] = q(k)]
    BY <1>5 DEF BeginRead
  <2>3. q(k) \in Read /\ q(k).pc = "look" /\ q(k).key = k
    BY DEF NoRead, Read, Tiers
  <2> HIDE DEF q
  <2> QED
    BY <1>5, <2>1, <2>2, <2>3 DEF BeginRead, TypeInv
<1>6. ASSUME NEW r \in Readers, Look(r) PROVE TypeInv'
  <2>1. RunsOK'
    BY <1>6, RunsStay DEF Look, TypeInv
  <2>2. NoRead \in Read /\ NoRead.pc # "look"
    BY DEF NoRead, Read, Tiers
  <2> QED
    BY <1>6, <2>1, <2>2, MissedType DEF Look, TypeInv
<1>7. ASSUME NEW m \in Movers, Begin(m) PROVE TypeInv'
  BY <1>7, BeginRuns DEF Begin, TypeInv
<1>8. ASSUME NEW m \in Movers, Copy(m) PROVE TypeInv'
  <2>1. PICK v \in run[m].todo :
          \/ Abort(m) /\ UNCHANGED held
          \/ /\ held' = [held EXCEPT ![v.key] = @ \union {v.target}]
             /\ StartMove(m, v)
             /\ UNCHANGED history
    BY <1>8 DEF Copy
  <2>2. run[m].pc = "copy" /\ tier' = tier /\ UNCHANGED <<age, upload, read, faults>>
    BY <1>8 DEF Copy
  <2>3. v \in Move
    BY DEF TypeInv, RunsOK, Run
  <2>4. held' \in [Keys -> SUBSET Tiers]
    BY <2>1, <2>3 DEF TypeInv, Move
  <2>5. RunsOK' /\ displaced' \subseteq doubled' /\ doubled' \subseteq Keys
    BY <2>1, <2>2, AbortType, StartRuns DEF TypeInv, history
  <2> QED
    BY <2>2, <2>4, <2>5 DEF TypeInv
<1>9. ASSUME NEW m \in Movers, CopyFails(m) PROVE TypeInv'
  <2>1. PICK v \in run[m].todo : Abort(m) \/ (StartMove(m, v) /\ UNCHANGED history)
    BY <1>9 DEF CopyFails
  <2>2. run[m].pc = "copy" /\ UNCHANGED <<held, tier, age, upload, read>> /\ faults' \in 0..MaxFaults
    BY <1>9 DEF CopyFails, TypeInv
  <2>3. RunsOK' /\ displaced' \subseteq doubled' /\ doubled' \subseteq Keys
    BY <2>1, <2>2, AbortType, StartRuns DEF TypeInv, history
  <2> QED
    BY <2>2, <2>3 DEF TypeInv
<1>10. ASSUME NEW m \in Movers, Head(m) PROVE TypeInv'
  <2>1. run[m].pc = "head" /\ UNCHANGED <<tier, age, upload, read, faults>>
    BY <1>10 DEF Head
  <2>2. CASE Abort(m) /\ UNCHANGED held
    BY <2>1, <2>2, AbortType DEF TypeInv
  <2>3. CASE DeleteSource(m, run[m].current)
    <3>1. RunsOK'
      BY <2>1, <2>3, DoneRuns
    <3>2. held' \in [Keys -> SUBSET Tiers] /\ UNCHANGED history
      BY <2>3 DEF DeleteSource, TypeInv
    <3> QED
      BY <2>1, <3>1, <3>2 DEF TypeInv, history
  <2> QED
    BY <1>10, <2>2, <2>3 DEF Head
<1>11. ASSUME NEW m \in Movers, Commit(m) PROVE TypeInv'
  BY <1>11, CommitTiers, CommitRuns DEF Commit, TypeInv
<1>12. ASSUME NEW m \in Movers, Crash(m) PROVE TypeInv'
  BY <1>12, AbortType DEF Crash, TypeInv
<1>13. CASE UNCHANGED vars
  BY <1>13, RunsStay DEF vars, TypeInv
<1> QED
  BY <1>1, <1>2, <1>3, <1>4, <1>5, <1>6, <1>7, <1>8, <1>9, <1>10, <1>11, <1>12, <1>13
  DEF Next, ReadStep, RunStep

-----------------------------------------------------------------------------
(***************************************************************************)
(* Where the objects are.                                                   *)
(***************************************************************************)
\* At first there are no objects and no reads.
LEMMA InitWhere == Init => Where /\ ReadsReach /\ ReadsFind
  BY DEF Init, Where, Buckets, Moves, Rests, Resting, ReadsReach, ReadsFind, NoRun, NoRead

\* An upload adds an object to the hot bucket; the object is then in two
\* buckets if it had left that one.
LEMMA PutWhere ==
  ASSUME TypeInv, Where, NEW u \in Uploaders, NEW k \in Keys, Put(u, k)
  PROVE  Where'
<1>1. /\ \A j \in Keys : held'[j] = IF j = k THEN held[j] \union {"hot"} ELSE held[j]
      /\ UNCHANGED <<tier, run, displaced>>
      /\ \A w \in Uploaders : upload'[w] = IF w = u THEN k ELSE upload[w]
      /\ doubled \subseteq doubled'
      /\ k \in doubled' \/ held[k] \subseteq {"hot"}
  BY DEF Put, TypeInv
<1>2. \A j \in Keys : held[j] \subseteq held'[j]
  BY <1>1
<1>3. \A j \in Keys : j \in doubled' \/ held'[j] = held[j] \/ (held[j] = {} /\ held'[j] = {"hot"})
  BY <1>1
<1>4. Buckets'
  BY <1>1 DEF Where, Buckets, TypeInv
<1>5. Moves'
  <2> SUFFICES ASSUME NEW m \in Movers
               PROVE  /\ run[m].current # None =>
                           LET v == run[m].current
                           IN  /\ tier[v.key] \in held'[v.key]
                               /\ held'[v.key] \subseteq {tier[v.key], v.target} \/ v.key \in doubled'
                      /\ \A v \in run[m].done :
                           /\ v.target \in held'[v.key]
                           /\ held'[v.key] = {v.target} \/ v.key \in doubled'
    BY <1>1 DEF Moves
  <2>1. \A v \in MovesOf(run[m]) : v.key \in Keys /\ Beyond(tier[v.key], v.target)
    BY MovesAreLocked
  <2>2. run[m].current # None => run[m].current \in MovesOf(run[m])
    BY DEF MovesOf
  <2>3. run[m].done \subseteq MovesOf(run[m])
    BY DEF MovesOf
  <2>4. ASSUME run[m].current # None
        PROVE  LET v == run[m].current
               IN  /\ tier[v.key] \in held'[v.key]
                   /\ held'[v.key] \subseteq {tier[v.key], v.target} \/ v.key \in doubled'
    BY <1>1, <1>2, <1>3, <2>1, <2>2, <2>4 DEF Where, Moves
  <2>5. ASSUME NEW v \in run[m].done
        PROVE  v.target \in held'[v.key] /\ (held'[v.key] = {v.target} \/ v.key \in doubled')
    BY <1>1, <1>2, <1>3, <2>1, <2>3, <2>5 DEF Where, Moves
  <2> QED
    BY <2>4, <2>5
<1>6. ASSUME NEW j \in Keys, Resting(j)' PROVE Agrees(j)'
  <2>1. Resting(j) /\ held[j] # {}
    BY <1>1, <1>6 DEF Resting, Where, Buckets
  <2>2. Agrees(j)
    BY <2>1 DEF Where, Rests
  <2> QED
    BY <1>1, <1>2, <1>3, <2>1, <2>2 DEF Agrees
<1> QED
  BY <1>4, <1>5, <1>6 DEF Where, Rests

\* The row an upload writes says where it has put the object.
LEMMA WriteRowWhere ==
  ASSUME TypeInv, Where, NEW u \in Uploaders, WriteRow(u)
  PROVE  Where'
<1> DEFINE k == upload[u]
<1>1. /\ k \in Keys /\ ~Locked(k) /\ held[k] # {}
      /\ UNCHANGED <<held, run, displaced, doubled>>
      /\ \A j \in Keys : tier'[j] = IF j = k /\ tier[j] = None THEN "hot" ELSE tier[j]
      /\ \A w \in Uploaders : upload'[w] = IF w = u THEN None ELSE upload[w]
  BY DEF WriteRow, TypeInv, Where, Buckets
<1>2. tier[k] = None => held[k] = {"hot"}
  BY <1>1 DEF Where, Buckets
<1>3. Buckets'
  BY <1>1 DEF Where, Buckets
<1>4. \A m \in Movers : \A v \in MovesOf(run[m]) : v.key \in Keys /\ v.key # k
  BY <1>1, MovesAreLocked DEF Locked
<1>5. Moves'
  BY <1>1, <1>4 DEF Where, Moves, MovesOf
<1>6. Rests'
  BY <1>1, <1>2, NoneIsNothing DEF Where, Rests, Resting, Agrees
<1> QED
  BY <1>3, <1>5, <1>6 DEF Where

\* A run that begins has nothing in hand yet.
LEMMA BeginWhere ==
  ASSUME TypeInv, Where, NEW m \in Movers, Begin(m)
  PROVE  Where'
<1>1. /\ UNCHANGED <<held, tier, upload, displaced, doubled>>
      /\ run'[m].current = None /\ run'[m].done = {}
      /\ \A n \in Movers : n # m => run'[n] = run[n]
      /\ run[m] = NoRun
  BY DEF Begin, TypeInv, RunsOK, RunOK
<1>2. \A n \in Movers : InHand(run[n])' = InHand(run[n])
  BY <1>1 DEF InHand, NoRun
<1> QED
  BY <1>1, <1>2 DEF Where, Buckets, Moves, Rests, Resting, Agrees

\* A run that is interrupted leaves the objects where they are and is the
\* cause of what its rows do not tell.
LEMMA AbortWhere ==
  ASSUME TypeInv, Where, NEW m \in Movers, Abort(m), UNCHANGED <<held, tier, upload>>
  PROVE  Where'
<1>1. /\ run'[m] = NoRun
      /\ \A n \in Movers : n # m => run'[n] = run[n]
      /\ displaced' = displaced \union {k \in LockedBy(m) : tier[k] \notin held[k]}
      /\ doubled' = doubled \union {k \in LockedBy(m) : held[k] # {tier[k]}}
  BY DEF Abort, TypeInv, RunsOK
<1>2. Buckets'
  BY DEF Where, Buckets
<1>3. Moves'
  BY <1>1 DEF Where, Moves, NoRun
<1>4. ASSUME NEW k \in Keys, Resting(k)' PROVE Agrees(k)'
  <2>1. CASE k \in LockedBy(m)
    BY <1>1, <2>1 DEF Agrees
  <2>2. CASE k \notin LockedBy(m)
    <3>1. \A v \in InHand(run[m]) : v.key # k
      BY <2>2, MovesAreLocked DEF InHand, MovesOf
    <3>2. Resting(k)
      BY <1>1, <1>4, <3>1 DEF Resting
    <3> QED
      BY <1>1, <3>2 DEF Where, Rests, Agrees
  <2> QED
    BY <2>1, <2>2
<1> QED
  BY <1>2, <1>3, <1>4 DEF Where, Rests

\* While no run has moves in hand for it, an object of a locked row rests in
\* the bucket of its tier.
LEMMA PendingRests ==
  ASSUME TypeInv, Where, NEW m \in Movers, NEW v \in run[m].todo
  PROVE  v.key \in Keys /\ tier[v.key] # None /\ Resting(v.key) /\ Agrees(v.key)
<1>1. v \in MovesOf(run[m]) /\ RunOK(run[m])
  BY DEF MovesOf, TypeInv, RunsOK
<1>2. v.key \in Keys /\ v.key \in LockedBy(m) /\ tier[v.key] # None
  BY <1>1, MovesAreLocked, NoneIsNothing DEF RunOK, LockedBy, Tiers
<1>3. \A n \in Movers : \A w \in InHand(run[n]) : w.key # v.key
  <2> SUFFICES ASSUME NEW n \in Movers, NEW w \in InHand(run[n]), w.key = v.key
               PROVE  FALSE
    OBVIOUS
  <2>1. w \in MovesOf(run[n])
    BY DEF InHand, MovesOf
  <2>2. n = m
    BY <1>2, <2>1, MovesAreLocked DEF TypeInv, RunsOK
  <2>3. w = v
    BY <1>1, <2>1, <2>2 DEF RunOK
  <2> QED
    BY <1>1, <2>2, <2>3 DEF RunOK, InHand
<1> QED
  BY <1>2, <1>3 DEF Resting, Where, Rests

\* A run that starts a move has the object in the bucket of its tier, and in the
\* target when the copy is there.
LEMMA StartWhere ==
  ASSUME TypeInv, Where, NEW m \in Movers, run[m].pc = "copy", NEW v \in run[m].todo,
         tier[v.key] \in held[v.key],
         held' = held \/ held' = [held EXCEPT ![v.key] = @ \union {v.target}],
         StartMove(m, v), UNCHANGED <<tier, upload, history>>
  PROVE  Where'
<1>1. /\ v.key \in Keys /\ Agrees(v.key) /\ v # None /\ RunOK(run[m])
      /\ run[m].current = None
  BY PendingRests, NoneIsNothing DEF TypeInv, RunsOK, RunOK, Run
<1>2. /\ run'[m].current = v /\ run'[m].done = run[m].done
      /\ \A n \in Movers : n # m => run'[n] = run[n]
  BY DEF StartMove, TypeInv, RunsOK, Run
<1>3. \A j \in Keys : j # v.key => held'[j] = held[j]
  BY DEF TypeInv
<1>4. held[v.key] \subseteq held'[v.key] /\ held'[v.key] \subseteq held[v.key] \union {v.target}
  BY <1>1 DEF TypeInv
<1>5. UNCHANGED <<tier, upload, displaced, doubled>>
  BY DEF history
<1>6. Buckets'
  <2>1. tier[v.key] # None /\ \A j \in Keys : held[j] \subseteq held'[j]
    BY <1>3, <1>4, PendingRests
  <2>2. \A j \in Keys : tier[j] = None => held'[j] \subseteq {"hot"}
    BY <1>3, <2>1 DEF Where, Buckets
  <2>3. \A j \in Keys : held[j] # {} => held'[j] # {}
    BY <2>1
  <2>4. \A w \in Uploaders : upload[w] # None => upload[w] \in Keys
    BY DEF TypeInv
  <2> QED
    BY <1>5, <2>2, <2>3, <2>4 DEF Where, Buckets
<1>7. \A n \in Movers : \A w \in InHand(run[n]) : w.key \in Keys /\ w.key # v.key
  BY PendingRests, MovesAreLocked DEF Resting, InHand, MovesOf
<1>8. Moves'
  <2> SUFFICES ASSUME NEW n \in Movers
               PROVE  /\ run'[n].current # None =>
                           LET w == run'[n].current
                           IN  /\ tier[w.key] \in held'[w.key]
                               /\ held'[w.key] \subseteq {tier[w.key], w.target} \/ w.key \in doubled
                      /\ \A w \in run'[n].done :
                           /\ w.target \in held'[w.key]
                           /\ held'[w.key] = {w.target} \/ w.key \in doubled
    BY <1>5 DEF Moves
  <2>1. CASE n = m
    BY <1>1, <1>2, <1>3, <1>4, <1>7, <2>1 DEF Where, Moves, InHand, Agrees
  <2>2. CASE n # m
    BY <1>2, <1>3, <1>7, <2>2 DEF Where, Moves, InHand
  <2> QED
    BY <2>1, <2>2
<1>9. Rests'
  <2> SUFFICES ASSUME NEW k \in Keys, Resting(k)' PROVE Agrees(k)'
    BY DEF Rests
  <2>1. k # v.key
    BY <1>1, <1>2 DEF Resting, InHand
  <2>2. \A n \in Movers : InHand(run[n]) \subseteq InHand(run'[n])
    BY <1>1, <1>2 DEF InHand
  <2>3. Resting(k)
    BY <1>5, <2>2 DEF Resting
  <2> QED
    BY <1>3, <1>5, <2>1, <2>3 DEF Where, Rests, Agrees
<1> QED
  BY <1>6, <1>8, <1>9 DEF Where

\* A run deletes the source of a move only beside a copy in the target.
LEMMA DeleteKeeps ==
  ASSUME TypeInv, NEW m \in Movers, run[m].pc = "head",
         run[m].current.target \in held[run[m].current.key],
         DeleteSource(m, run[m].current)
  PROVE  LET v == run[m].current
         IN  /\ v \in Move /\ v.key \in Keys /\ Beyond(tier[v.key], v.target)
             /\ v.key \in LockedBy(m)
             /\ v \in MovesOf(run[m])
             /\ held' = [held EXCEPT ![v.key] = @ \ {tier[v.key]}]
             /\ v.target \in held'[v.key]
<1> DEFINE v == run[m].current
<1>1. run[m] \in Run /\ v # None
  BY DEF TypeInv, RunsOK, RunOK
<1>2. v \in MovesOf(run[m])
  BY <1>1 DEF MovesOf, Run
<1>3. v \in Move /\ v.key \in Keys /\ v.key \in LockedBy(m) /\ Beyond(tier[v.key], v.target)
  BY <1>2, MovesAreLocked
<1>4. held' = [held EXCEPT ![v.key] = @ \ {tier[v.key]}]
  BY DEF DeleteSource
<1>5. tier[v.key] # v.target
  BY <1>3 DEF Beyond
<1> QED
  BY <1>2, <1>3, <1>4, <1>5 DEF TypeInv

\* The object is then in the target, and only there if it was not in more than
\* the two buckets of the move.
LEMMA DeleteWhere ==
  ASSUME TypeInv, Where, NEW m \in Movers, run[m].pc = "head",
         run[m].current.target \in held[run[m].current.key],
         DeleteSource(m, run[m].current), UNCHANGED <<tier, upload>>
  PROVE  Where'
<1> DEFINE v == run[m].current
<1>1. /\ v.key \in Keys /\ Beyond(tier[v.key], v.target) /\ v \in MovesOf(run[m])
      /\ v.target \in held'[v.key]
      /\ held'[v.key] = held[v.key] \ {tier[v.key]}
      /\ \A j \in Keys : j # v.key => held'[j] = held[j]
  BY DeleteKeeps DEF TypeInv
<1>2. /\ run'[m].current = None /\ run'[m].done = run[m].done \union {v}
      /\ \A n \in Movers : n # m => run'[n] = run[n]
      /\ UNCHANGED <<displaced, doubled>>
  BY DEF DeleteSource, TypeInv, RunsOK, Run, history
<1>3. v # None /\ v \notin run[m].done /\ RunOK(run[m])
  BY DEF TypeInv, RunsOK, RunOK
<1>4. tier[v.key] # None /\ tier[v.key] \in held[v.key]
      /\ (held'[v.key] = {v.target} \/ v.key \in doubled)
  <2>1. /\ tier[v.key] \in held[v.key]
        /\ held[v.key] \subseteq {tier[v.key], v.target} \/ v.key \in doubled
    BY <1>3 DEF Where, Moves
  <2>2. tier[v.key] # None
    BY <1>1, <2>1, NoneIsNothing DEF TypeInv
  <2> QED
    BY <1>1, <2>1, <2>2
<1>5. \A n \in Movers : \A w \in MovesOf(run[n]) : w.key = v.key => n = m /\ w = v
  <2> SUFFICES ASSUME NEW n \in Movers, NEW w \in MovesOf(run[n]), w.key = v.key
               PROVE  n = m /\ w = v
    OBVIOUS
  <2>1. w.key \in LockedBy(n) /\ v.key \in LockedBy(m)
    BY <1>1, MovesAreLocked
  <2>2. n = m
    BY <2>1 DEF TypeInv, RunsOK
  <2> QED
    BY <1>1, <1>3, <2>2 DEF RunOK
<1>6. Buckets'
  <2>1. \A j \in Keys : held'[j] \subseteq held[j]
    BY <1>1
  <2>2. \A j \in Keys : held[j] # {} => held'[j] # {}
    BY <1>1
  <2>3. \A w \in Uploaders : upload[w] # None => upload[w] \in Keys
    BY DEF TypeInv
  <2>4. \A j \in Keys : tier[j] = None => held'[j] \subseteq {"hot"}
    BY <2>1 DEF Where, Buckets
  <2> QED
    BY <2>2, <2>3, <2>4 DEF Where, Buckets
<1>7. Moves'
  <2> SUFFICES ASSUME NEW n \in Movers
               PROVE  /\ run'[n].current # None =>
                           LET w == run'[n].current
                           IN  /\ tier[w.key] \in held'[w.key]
                               /\ held'[w.key] \subseteq {tier[w.key], w.target} \/ w.key \in doubled
                      /\ \A w \in run'[n].done :
                           /\ w.target \in held'[w.key]
                           /\ held'[w.key] = {w.target} \/ w.key \in doubled
    BY <1>2 DEF Moves
  <2>1. \A w \in MovesOf(run[n]) : w.key \in Keys
    BY MovesAreLocked
  <2>2. \A w \in run[n].done : w \in MovesOf(run[n]) /\ w.key # v.key
    BY <1>3, <1>5 DEF MovesOf
  <2>3. n # m /\ run[n].current # None => run[n].current \in MovesOf(run[n])
    BY DEF MovesOf
  <2>4. \A w \in run[n].done : /\ w.target \in held'[w.key]
                               /\ held'[w.key] = {w.target} \/ w.key \in doubled
    BY <1>1, <2>1, <2>2 DEF Where, Moves
  <2>5. CASE n = m
    BY <1>1, <1>2, <1>4, <2>4, <2>5
  <2>6. CASE n # m
    BY <1>1, <1>2, <1>5, <2>1, <2>3, <2>4, <2>6 DEF Where, Moves
  <2> QED
    BY <2>5, <2>6
<1>8. Rests'
  <2> SUFFICES ASSUME NEW k \in Keys, Resting(k)' PROVE Agrees(k)'
    BY DEF Rests
  <2>1. k # v.key
    BY <1>2, <1>3 DEF Resting, InHand
  <2>2. \A n \in Movers : InHand(run[n]) \subseteq InHand(run'[n])
    BY <1>2 DEF InHand
  <2>3. Resting(k)
    BY <2>2 DEF Resting
  <2> QED
    BY <1>1, <1>2, <2>1, <2>3 DEF Where, Rests, Agrees
<1> QED
  BY <1>6, <1>7, <1>8 DEF Where

\* A run that commits writes where its objects are.
LEMMA CommitWhere ==
  ASSUME TypeInv, Where, NEW m \in Movers, Commit(m)
  PROVE  Where'
<1>1. /\ run'[m] = NoRun
      /\ \A n \in Movers : n # m => run'[n] = run[n]
      /\ UNCHANGED <<held, upload, displaced, doubled>>
      /\ run[m].current = None
  BY DEF Commit, TypeInv, RunsOK, RunOK
<1>2. \A v \in run[m].done :
        /\ v.key \in Keys /\ v.key \in LockedBy(m) /\ tier[v.key] # None
        /\ tier'[v.key] = v.target
        /\ Agrees(v.key)' /\ held[v.key] # {}
  <2> SUFFICES ASSUME NEW v \in run[m].done
               PROVE  /\ v.key \in Keys /\ v.key \in LockedBy(m) /\ tier[v.key] # None
                      /\ tier'[v.key] = v.target
                      /\ Agrees(v.key)' /\ held[v.key] # {}
    OBVIOUS
  <2>1. v.key \in Keys /\ v.key \in LockedBy(m) /\ tier'[v.key] = v.target
    BY CommitTiers, MovesAreLocked DEF MovesOf
  <2>2. tier[v.key] # None
    BY <2>1, NoneIsNothing DEF TypeInv, RunsOK, RunOK, LockedBy, Tiers
  <2> QED
    BY <1>1, <2>1, <2>2 DEF Where, Moves, Agrees
<1>3. \A k \in Keys : (\A v \in run[m].done : v.key # k) => tier'[k] = tier[k]
  BY CommitTiers
<1>4. \A k \in Keys : tier[k] = None => tier'[k] = None
  BY <1>2, <1>3
<1>5. Buckets'
  <2>1. \A k \in Keys : tier'[k] = None => tier[k] = None
    BY <1>2, <1>3, NoneIsNothing, MovesAreLocked DEF MovesOf, Move
  <2> QED
    BY <1>1, <1>4, <2>1 DEF Where, Buckets
<1>6. Moves'
  <2>1. ASSUME NEW n \in Movers, n # m, NEW v \in MovesOf(run[n])
        PROVE  tier'[v.key] = tier[v.key]
    <3>1. v.key \in Keys /\ v.key \in LockedBy(n)
      BY <2>1, MovesAreLocked
    <3>2. v.key \notin LockedBy(m)
      BY <2>1, <3>1 DEF TypeInv, RunsOK
    <3> QED
      BY <1>2, <1>3, <3>1, <3>2
  <2> QED
    BY <1>1, <2>1 DEF Where, Moves, MovesOf, NoRun
<1>7. Rests'
  <2> SUFFICES ASSUME NEW k \in Keys, Resting(k)' PROVE Agrees(k)'
    BY DEF Rests
  <2>1. CASE \E v \in run[m].done : v.key = k
    BY <1>2, <2>1
  <2>2. CASE \A v \in run[m].done : v.key # k
    <3>1. Resting(k)
      BY <1>1, <1>3, <2>2 DEF Resting, InHand
    <3> QED
      BY <1>1, <1>3, <2>2, <3>1 DEF Where, Rests, Agrees
  <2> QED
    BY <2>1, <2>2
<1> QED
  BY <1>5, <1>6, <1>7 DEF Where

-----------------------------------------------------------------------------
(***************************************************************************)
(* Reads, and the theorems.                                                 *)
(***************************************************************************)
\* A read that misses a bucket is not lost while the object is in one beyond.
LEMMA MissedReaches ==
  ASSUME NEW q \in Read, q.pc = "look", q.key \in Keys, held \in [Keys -> SUBSET Tiers],
         Reachable(q), q.bucket \notin held[q.key]
  PROVE  Missed(q).pc = "look" /\ Reachable(Missed(q))
<1>1. PICK b \in held[q.key] : Beyond(q.bucket, b)
  BY DEF Reachable
<1>2. b \in Tiers /\ q.bucket \in Tiers
  BY DEF Read
<1>3. CASE q.bucket = "hot"
  BY <1>1, <1>3, NoneIsNothing DEF Missed, NextBucket, Reachable, Beyond, Read, Tiers
<1>4. CASE q.bucket = "warm"
  BY <1>1, <1>4, NoneIsNothing DEF Missed, NextBucket, Reachable, Beyond, Read, Tiers
<1> QED
  BY <1>1, <1>2, <1>3, <1>4 DEF Beyond, Tiers

\* What a read can reach stays in reach while nothing is taken away.
LEMMA ReachStays ==
  ASSUME TypeInv, ReadsReach, ReadsFind, read' = read,
         \A k \in Keys : held[k] \subseteq held'[k]
  PROVE  ReadsReach' /\ ReadsFind'
  BY DEF TypeInv, ReadsReach, ReadsFind, Reachable

\* Only the deletion of a source takes a bucket from an object.
LEMMA OnlyDeleteTakes ==
  ASSUME TypeInv, [Next]_vars
  PROVE  \/ \A k \in Keys : held[k] \subseteq held'[k]
         \/ \E m \in Movers : /\ run[m].pc = "head"
                              /\ run[m].current.target \in held[run[m].current.key]
                              /\ DeleteSource(m, run[m].current)
                              /\ read' = read
<1>1. ASSUME NEW u \in Uploaders, NEW k \in Keys, Put(u, k)
      PROVE  \A j \in Keys : held[j] \subseteq held'[j]
  BY <1>1 DEF Put, TypeInv
<1>2. ASSUME NEW m \in Movers, Copy(m) PROVE \A k \in Keys : held[k] \subseteq held'[k]
  <2>1. PICK v \in run[m].todo : \/ UNCHANGED held
                                 \/ held' = [held EXCEPT ![v.key] = @ \union {v.target}]
    BY <1>2 DEF Copy
  <2> QED
    BY <2>1 DEF TypeInv
<1>3. ASSUME NEW m \in Movers, Head(m)
      PROVE  \/ UNCHANGED held
             \/ /\ run[m].pc = "head"
                /\ run[m].current.target \in held[run[m].current.key]
                /\ DeleteSource(m, run[m].current)
                /\ read' = read
  BY <1>3 DEF Head
<1>4. \/ UNCHANGED held
      \/ \E u \in Uploaders, k \in Keys : Put(u, k)
      \/ \E m \in Movers : Copy(m) \/ Head(m)
  BY DEF Next, ReadStep, RunStep, WriteRow, UploadDies, Day, BeginRead, Look, Begin, Commit,
         CopyFails, Crash, vars
<1> QED
  BY <1>1, <1>2, <1>3, <1>4

\* No step takes a copy that a read still needs: the target of a move lies
\* beyond its source.
LEMMA StepReads == TypeInv /\ ReadsReach /\ ReadsFind /\ [Next]_vars => ReadsReach' /\ ReadsFind'
<1> SUFFICES ASSUME TypeInv, ReadsReach, ReadsFind, [Next]_vars PROVE ReadsReach' /\ ReadsFind'
  OBVIOUS
<1>1. ASSUME NEW r \in Readers, BeginRead(r) PROVE ReadsReach' /\ ReadsFind'
  <2> DEFINE q(k) == [NoRead EXCEPT !.pc = "look", !.key = k]
  <2>1. PICK k \in Keys : held[k] # {} /\ read' = [read EXCEPT ![r] = q(k)]
    BY <1>1 DEF BeginRead
  <2>2. q(k) \in Read /\ q(k).pc = "look" /\ q(k).key = k /\ q(k).bucket = "hot"
    BY DEF NoRead, Read, Tiers
  <2>3. Reachable(q(k))
    BY <2>1, <2>2 DEF Reachable, Beyond, TypeInv, Tiers
  <2> HIDE DEF q
  <2>4. read'[r] = q(k) /\ held' = held /\ \A s \in Readers : s # r => read'[s] = read[s]
    BY <1>1, <2>1 DEF BeginRead, TypeInv
  <2> QED
    BY <2>2, <2>3, <2>4 DEF ReadsReach, ReadsFind, Reachable
<1>2. ASSUME NEW r \in Readers, Look(r) PROVE ReadsReach' /\ ReadsFind'
  <2>1. read[r] \in Read /\ read[r].pc = "look" /\ read[r].key \in Keys /\ Reachable(read[r])
    BY <1>2 DEF Look, TypeInv, ReadsReach
  <2>2. /\ read'[r] = IF read[r].bucket \in held[read[r].key] THEN NoRead ELSE Missed(read[r])
        /\ held' = held
        /\ \A s \in Readers : s # r => read'[s] = read[s]
    BY <1>2 DEF Look, TypeInv
  <2>3. read'[r] = NoRead \/ (read'[r].pc = "look" /\ Reachable(read'[r]))
    BY <2>1, <2>2, MissedReaches DEF TypeInv
  <2> QED
    BY <2>2, <2>3 DEF ReadsReach, ReadsFind, Reachable, NoRead
<1>3. ASSUME NEW m \in Movers, run[m].pc = "head",
             run[m].current.target \in held[run[m].current.key],
             DeleteSource(m, run[m].current), read' = read
      PROVE  ReadsReach' /\ ReadsFind'
  <2> DEFINE v == run[m].current
  <2>1. /\ v.key \in Keys /\ Beyond(tier[v.key], v.target)
        /\ held' = [held EXCEPT ![v.key] = @ \ {tier[v.key]}]
        /\ v.target \in held'[v.key]
    BY <1>3, DeleteKeeps
  <2> SUFFICES ASSUME NEW r \in Readers, read[r].pc = "look"
               PROVE  Reachable(read[r])'
    BY <1>3 DEF ReadsReach, ReadsFind
  <2>2. PICK b \in held[read[r].key] : b = read[r].bucket \/ Beyond(read[r].bucket, b)
    BY DEF ReadsReach, Reachable
  <2>3. read[r].key \in Keys
    BY DEF TypeInv
  <2>4. CASE b \in held'[read[r].key]
    BY <1>3, <2>2, <2>4 DEF Reachable
  <2>5. CASE b \notin held'[read[r].key]
    <3>1. read[r].key = v.key /\ b = tier[v.key]
      BY <2>1, <2>2, <2>3, <2>5 DEF TypeInv
    <3>2. Beyond(read[r].bucket, v.target)
      BY <2>1, <2>2, <3>1 DEF Beyond
    <3> QED
      BY <1>3, <2>1, <3>1, <3>2 DEF Reachable
  <2> QED
    BY <2>4, <2>5
<1>4. (\E r \in Readers : BeginRead(r) \/ Look(r)) \/ read' = read
  BY DEF Next, ReadStep, RunStep, WriteRow, UploadDies, Day, Put, Begin, Commit, Copy, Head,
         CopyFails, Crash, vars
<1> QED
  BY <1>1, <1>2, <1>3, <1>4, OnlyDeleteTakes, ReachStays

\* Every step keeps what the rows tell of the objects.
LEMMA StepWhere == TypeInv /\ Where /\ [Next]_vars => Where'
<1> SUFFICES ASSUME TypeInv, Where, [Next]_vars PROVE Where'
  OBVIOUS
<1>1. ASSUME UNCHANGED <<held, tier, run, displaced, doubled>>,
             \A u \in Uploaders : upload'[u] \in {upload[u], None}
      PROVE  Where'
  BY <1>1 DEF Where, Buckets, Moves, Rests, Resting, Agrees, InHand
<1>2. ASSUME NEW u \in Uploaders, UploadDies(u) PROVE Where'
  BY <1>1, <1>2 DEF UploadDies, TypeInv
<1>3. CASE Day \/ UNCHANGED vars \/ \E r \in Readers : ReadStep(r)
  BY <1>1, <1>3 DEF Day, vars, ReadStep, BeginRead, Look
<1>4. ASSUME NEW m \in Movers, Copy(m) PROVE Where'
  <2>1. PICK v \in run[m].todo :
          \/ Abort(m) /\ UNCHANGED held
          \/ /\ tier[v.key] \in held[v.key]
             /\ held' = [held EXCEPT ![v.key] = @ \union {v.target}]
             /\ StartMove(m, v)
             /\ UNCHANGED history
    BY <1>4 DEF Copy
  <2> QED
    BY <1>4, <2>1, AbortWhere, StartWhere DEF Copy
<1>5. ASSUME NEW m \in Movers, CopyFails(m) PROVE Where'
  <2>1. PICK v \in run[m].todo :
          \/ Abort(m)
          \/ tier[v.key] \in held[v.key] /\ StartMove(m, v) /\ UNCHANGED history
    BY <1>5 DEF CopyFails
  <2> QED
    BY <1>5, <2>1, AbortWhere, StartWhere DEF CopyFails
<1>6. ASSUME NEW m \in Movers, Head(m) PROVE Where'
  BY <1>6, AbortWhere, DeleteWhere DEF Head
<1>7. ASSUME NEW m \in Movers, Crash(m) PROVE Where'
  BY <1>7, AbortWhere DEF Crash
<1> QED
  BY <1>2, <1>3, <1>4, <1>5, <1>6, <1>7, PutWhere, WriteRowWhere, BeginWhere, CommitWhere
  DEF Next, RunStep

\* IInv is inductive.
LEMMA StepInv == IInv /\ [Next]_vars => IInv'
  BY StepType, StepWhere, StepReads DEF IInv

THEOREM Invariance == Spec => []IInv
<1>1. Init => IInv
  BY InitType, InitWhere DEF IInv
<1> QED
  BY <1>1, StepInv, PTL DEF Spec

\* Every variable has its type: the runs of transition_due hold disjoint locks
\* and at most one move for an object.
THEOREM TypeCorrect == Spec => []TypeOK
<1>1. TypeInv => TypeOK
  <2> SUFFICES ASSUME TypeInv PROVE TypeOK
    OBVIOUS
  <2>1. \A m \in Movers : \A v, w \in run[m].todo \union run[m].done : v.key = w.key => v = w
    BY DEF TypeInv, RunsOK, RunOK, MovesOf
  <2> QED
    BY <2>1 DEF TypeInv, RunsOK, TypeOK
<1> QED
  BY <1>1, Invariance, PTL DEF IInv

\* ObjectStorage.get and download_url find every object that was stored, also
\* while runs move it from bucket to bucket, fail and are interrupted.
THEOREM ReadsAlwaysFind == Spec => []ReadsFind
  BY Invariance, PTL DEF IInv

\* Outside of runs storage_tier of a row names the bucket of the object, and
\* the only one, but for the causes the history keeps.
THEOREM TiersTellBuckets == Spec => []TierTellsBucket
<1>1. IInv => TierTellsBucket
  <2> SUFFICES ASSUME IInv, NEW k \in Keys, tier[k] # None, ~Locked(k) PROVE Agrees(k)
    BY DEF TierTellsBucket, Agrees
  <2>1. \A m \in Movers : \A v \in InHand(run[m]) : v.key # k
    BY MovesAreLocked DEF IInv, InHand, MovesOf, Locked
  <2> QED
    BY <2>1 DEF IInv, Where, Rests, Resting
<1> QED
  BY <1>1, Invariance, PTL

\* No step of an upload, a run or a fault takes the last copy of an object.
THEOREM ObjectsAreKept == Spec => ObjectsKept
<1>1. TypeInv /\ [Next]_vars => [\A k \in Keys : held[k] # {} => held'[k] # {}]_held
  <2> SUFFICES ASSUME TypeInv, [Next]_vars, NEW k \in Keys, held[k] # {} PROVE held'[k] # {}
    OBVIOUS
  <2>1. ASSUME NEW m \in Movers, run[m].pc = "head",
               run[m].current.target \in held[run[m].current.key],
               DeleteSource(m, run[m].current)
        PROVE  held'[k] # {}
    BY <2>1, DeleteKeeps DEF TypeInv
  <2> QED
    BY <2>1, OnlyDeleteTakes
<1>2. Spec => []TypeInv
  BY Invariance, PTL DEF IInv
<1> QED
  BY <1>1, <1>2, PTL DEF Spec, ObjectsKept
=============================================================================
