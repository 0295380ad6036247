------------------------- MODULE LocalStore_proofs --------------------------
(***************************************************************************)
(* Proofs about LocalStore, for any names, contents and requests: type      *)
(* correctness, that no update of the index is lost, that every unfinished  *)
(* job is somebody's, what a request that was alone leaves behind, and that *)
(* the chunks of a text cover it.                                           *)
(***************************************************************************)
EXTENDS LocalStore, FiniteSetTheorems, WellFoundedInduction, TLAPS

-----------------------------------------------------------------------------
(***************************************************************************)
(* The inductive invariant.                                                 *)
(***************************************************************************)
\* What a request has read at each of its steps.
RequestOK(q) ==
    /\ q.pc = "write" => q.kind = "upload" /\ q.contents \in Contents
    /\ q.pc \in {"create", "publish", "unsent", "run", "complete"} => q.kind \in {"upload", "sync"}
    /\ q.pc \in {"list", "compare"} => q.kind = "sync"
    /\ q.pc \in {"bytes", "text", "save"} => q.kind \in {"upload", "sync"} /\ q.name \in Names
    /\ q.pc \in {"lock", "load"} => q.kind \in {"upload", "sync", "delete"}
    /\ q.pc \in {"text", "save", "chunks", "embed"} => q.document \in Documents
    /\ q.pc \in {"chunks", "embed"} => q.kind = "upload"
    /\ q.pc \in {"load", "save"} /\ q.name # None => q.kind # "delete" /\ q.document \in Documents /\ q.text \in Contents
    /\ q.kind = "upload" /\ q.pc \in {"write", "create", "publish", "unsent", "run", "lock", "load"} => q.name \in Names
    /\ q.kind # "upload" /\ q.pc \in {"create", "publish", "unsent", "run", "lock", "list", "compare"} => q.name = None
    /\ q.kind = "delete" /\ q.pc \in {"lock", "load"} => q.name = None
    /\ q.kind = "delete" /\ q.pc \in {"lock", "load", "remove"} => q.document \in Documents
    /\ q.pc = "remove" => q.kind \in {"sync", "delete"}
    /\ q.pc = "unlink" => q.kind = "delete" /\ q.name \in Names

\* A list has an entry.
Has(entries, e) == \E i \in DOMAIN entries : entries[i] = e

Unique(entries) == \A i, j \in DOMAIN entries : entries[i].name = entries[j].name => i = j

StoreOK ==
    /\ mode \in {"inline", "queue"}
    /\ file \in [Names -> Maybe(Documents)]
    /\ index \in Seq(Entry)
    /\ Unique(index)
    /\ vectors \in [Documents -> SUBSET Contents]

RequestsOK ==
    /\ request \in [Requests -> Request]
    /\ \A r \in Requests : RequestOK(request[r])

\* The lock has one holder, and what it has loaded is the index still.
LockOK ==
    /\ lock \in Maybe(Requests)
    /\ \A r \in Requests : Locked(r) <=> lock = r
    /\ \A r \in Requests : request[r].pc \in {"save", "remove"} => request[r].loaded = index

\* What the job of a request is, by where the request is.
JobOK(r) ==
    /\ request[r].kind = "delete" \/ request[r].pc \in {"new", "write", "create"} => job[r] = None /\ ~message[r]
    /\ mode = "inline" => ~message[r] /\ request[r].pc \notin {"publish", "unsent"}
    /\ request[r].kind # "delete" /\ request[r].pc \notin {"new", "write", "create", "publish", "unsent", "done", "dead"}
        => mode = "inline" /\ job[r] = IF request[r].pc = "run" THEN "queued" ELSE "running"

JobsOK ==
    /\ job \in [Requests -> Maybe(JobStatus)]
    /\ message \in [Requests -> BOOLEAN]
    /\ \A r \in Requests : JobOK(r)

TypeInv == StoreOK /\ RequestsOK /\ LockOK /\ JobsOK /\ alone \in Maybe(Requests)

OwnedInv == TypeInv /\ UnfinishedIsOwned

\* A list has an entry of a name and a document.
Holds(entries, n, d) == \E e : Has(entries, e) /\ e.name = n /\ e.document = d

\* A sync that is alone: the directory and the index are as it saw them, but
\* for what it has done itself.
SyncAlone(q, entries, files) ==
    /\ q.listed = {n \in Names : files[n] # None}
    /\ q.todo \subseteq q.listed
    /\ \A i \in DOMAIN entries : entries[i].name \in NamesOf(q.known) \union q.listed
    /\ \A n \in q.todo : \A i \in DOMAIN q.known : q.known[i].name = n =>
          \E j \in DOMAIN entries : entries[j].name = n /\ entries[j].document = q.known[i].document
    /\ \A n \in q.listed \ (q.todo \union {q.name}) :
          \E i \in DOMAIN entries : entries[i].name = n /\ entries[i].document = files[n]
    /\ q.name # None => q.name \in q.listed \ q.todo
    /\ q.name # None /\ q.pc \in {"text", "load", "save"} => q.document = files[q.name]
    /\ q.name = None => q.pc \in {"compare", "load", "remove"}
    /\ q.pc = "remove" => q.name = None
    /\ q.name = None /\ q.pc \in {"load", "remove"} => q.todo = {}

AllAgree(entries, files) ==
    \A n \in Names :
       IF files[n] = None THEN n \notin NamesOf(entries)
       ELSE \E i \in DOMAIN entries : entries[i].name = n /\ entries[i].document = files[n]

TextsOf(entries, d) == {entries[i].text : i \in {k \in DOMAIN entries : entries[k].document = d}}

\* Where a request is that had the store to itself, and what it knows.
Course(r) ==
    /\ request[r].kind = "sync" =>
          /\ request[r].pc \in {"compare", "bytes", "text", "load", "save", "remove", "complete", "done"}
          /\ request[r].pc \notin {"complete", "done"} => SyncAlone(request[r], index, file)
          /\ request[r].pc = "complete" => AllAgree(index, file)
          /\ request[r].pc = "done" /\ job[r] = "completed" => AllAgree(index, file)
    /\ request[r].kind = "upload" =>
          /\ request[r].pc \in {"text", "load", "save", "chunks", "embed", "complete", "done"}
          /\ request[r].pc = "embed" => request[r].loaded = OfDocument(index, request[r].document)
          /\ request[r].pc = "complete" => vectors[request[r].document] = TextsOf(index, request[r].document)
    /\ request[r].kind \in {"sync", "upload"}

AloneOK(r) == (\A s \in Requests \ {r} : Over(s)) /\ Course(r)

AloneInv == TypeInv /\ (mode = "inline" => \A r \in Requests : alone = r => AloneOK(r))

-----------------------------------------------------------------------------
(***************************************************************************)
(* The entries picked from a list.                                          *)
(***************************************************************************)
\* Nth names the members of a finite set of numbers, from the first to the last.
LEMMA NthOfMany ==
  ASSUME NEW kept \in SUBSET Nat, IsFiniteSet(kept)
  PROVE  /\ Cardinality(kept) \in Nat
         /\ \A n \in 1..Cardinality(kept) : Nth(kept, n) \in kept
         /\ \A m, n \in 1..Cardinality(kept) : Nth(kept, m) = Nth(kept, n) => m = n
         /\ \A i \in kept : \E n \in 1..Cardinality(kept) : Nth(kept, n) = i
<1> DEFINE Upto(i) == {k \in kept : k <= i}
           Rank(i) == Cardinality(Upto(i))
           size == Cardinality(kept)
           rank == [i \in kept |-> Rank(i)]
<1>1. size \in Nat
  BY FS_CardinalityType
<1>2. \A i \in kept : IsFiniteSet(Upto(i)) /\ Rank(i) \in 1..size
  <2> SUFFICES ASSUME NEW i \in kept PROVE IsFiniteSet(Upto(i)) /\ Rank(i) \in 1..size
    OBVIOUS
  <2>1. Upto(i) \in SUBSET kept
    OBVIOUS
  <2>2. IsFiniteSet(Upto(i)) /\ Rank(i) <= size
    BY <2>1, FS_Subset
  <2>3. i \in Upto(i)
    OBVIOUS
  <2>4. Rank(i) \in Nat /\ Rank(i) # 0
    BY <2>2, <2>3, FS_CardinalityType, FS_EmptySet
  <2> QED
    BY <1>1, <2>2, <2>4
<1>3. \A i, j \in kept : i < j => Rank(i) < Rank(j)
  <2> SUFFICES ASSUME NEW i \in kept, NEW j \in kept, i < j PROVE Rank(i) < Rank(j)
    OBVIOUS
  <2>0. i \in Nat /\ j \in Nat /\ \A k \in kept : k \in Nat
    OBVIOUS
  <2>1. Upto(i) \in SUBSET Upto(j) /\ j \in Upto(j) /\ j \notin Upto(i)
    <3>1. \A k \in kept : k <= i => k <= j
      BY <2>0
    <3>2. j <= j /\ ~(j <= i)
      BY <2>0
    <3> QED
      BY <3>1, <3>2
  <2>2. Rank(i) <= Rank(j) /\ Rank(j) # Rank(i)
    BY <1>2, <2>1, FS_Subset
  <2>3. Rank(i) \in Nat /\ Rank(j) \in Nat
    BY <1>1, <1>2
  <2> QED
    BY <2>2, <2>3
<1>4. \A i, j \in kept : Rank(i) = Rank(j) => i = j
  <2> SUFFICES ASSUME NEW i \in kept, NEW j \in kept, Rank(i) = Rank(j) PROVE i = j
    OBVIOUS
  <2>1. Rank(i) \in Nat /\ Rank(j) \in Nat
    BY <1>1, <1>2
  <2>2. ~(i < j) /\ ~(j < i)
    BY <1>3, <2>1
  <2> QED
    BY <2>2
<1>5. \A n \in 1..size : \E i \in kept : Rank(i) = n
  <2> SUFFICES ASSUME NEW n \in 1..size, \A i \in kept : Rank(i) # n PROVE FALSE
    OBVIOUS
  <2> DEFINE others == (1..size) \ {n}
  <2>1. IsFiniteSet(1..size) /\ Cardinality(1..size) = size
    BY <1>1, FS_Interval
  <2>2. IsFiniteSet(others) /\ Cardinality(others) = size - 1
    BY <2>1, FS_RemoveElement
  <2>3. \A i \in kept : rank[i] = Rank(i)
    OBVIOUS
  <2>4. rank \in [kept -> others]
    BY <1>2
  <2>5. Cardinality(others) < Cardinality(kept)
    BY <1>1, <2>2
  <2> HIDE DEF rank, others
  <2>6. \E i, j \in kept : i # j /\ rank[i] = rank[j]
    BY <2>2, <2>4, <2>5, FS_PigeonHole
  <2> QED
    BY <1>4, <2>3, <2>6
<1>6. \A n \in 1..size : Nth(kept, n) \in kept /\ Rank(Nth(kept, n)) = n
  BY <1>5 DEF Nth
<1> QED
  BY <1>1, <1>2, <1>4, <1>6

\* What is picked are the entries at the positions, each once.
LEMMA PickedEntries ==
  ASSUME NEW S, NEW entries \in Seq(S), NEW kept \in SUBSET DOMAIN entries
  PROVE  /\ Picked(entries, kept) \in Seq(S)
         /\ \A n \in DOMAIN Picked(entries, kept) :
               Nth(kept, n) \in kept /\ Picked(entries, kept)[n] = entries[Nth(kept, n)]
         /\ \A m, n \in DOMAIN Picked(entries, kept) : Nth(kept, m) = Nth(kept, n) => m = n
         /\ \A i \in kept : \E n \in DOMAIN Picked(entries, kept) : Picked(entries, kept)[n] = entries[i]
<1>1. DOMAIN entries = 1..Len(entries) /\ Len(entries) \in Nat /\ \A i \in DOMAIN entries : entries[i] \in S
  OBVIOUS
<1>2. IsFiniteSet(DOMAIN entries)
  BY <1>1, FS_Interval
<1>3. kept \in SUBSET Nat /\ IsFiniteSet(kept)
  BY <1>1, <1>2, FS_Subset
<1> DEFINE picked == Picked(entries, kept)
<1>4. DOMAIN picked = 1..Cardinality(kept) /\ \A n \in DOMAIN picked : picked[n] = entries[Nth(kept, n)]
  BY DEF Picked
<1>5. /\ Cardinality(kept) \in Nat
      /\ \A n \in 1..Cardinality(kept) : Nth(kept, n) \in kept
      /\ \A m, n \in 1..Cardinality(kept) : Nth(kept, m) = Nth(kept, n) => m = n
      /\ \A i \in kept : \E n \in 1..Cardinality(kept) : Nth(kept, n) = i
  BY <1>3, NthOfMany
<1>6. \A n \in 1..Cardinality(kept) : picked[n] \in S
  BY <1>1, <1>4, <1>5
<1>7. picked = [n \in 1..Cardinality(kept) |-> picked[n]]
  BY DEF Picked
<1>8. picked \in Seq(S)
  BY <1>5, <1>6, <1>7
<1> HIDE DEF picked
<1>9. \A i \in kept : \E n \in DOMAIN picked : picked[n] = entries[i]
  BY <1>4, <1>5
<1> QED
  BY <1>4, <1>5, <1>8, <1>9 DEF picked

\* What Without, WithoutDocument and OfDocument leave of a list.
LEMMA Leaves ==
  ASSUME NEW entries \in Seq(Entry), NEW kept \in SUBSET DOMAIN entries
  PROVE  /\ Picked(entries, kept) \in Seq(Entry)
         /\ \A e : Has(Picked(entries, kept), e) <=> \E i \in kept : entries[i] = e
         /\ Unique(entries) => Unique(Picked(entries, kept))
<1> DEFINE picked == Picked(entries, kept)
<1>1. /\ picked \in Seq(Entry)
      /\ \A n \in DOMAIN picked : Nth(kept, n) \in kept /\ picked[n] = entries[Nth(kept, n)]
      /\ \A m, n \in DOMAIN picked : Nth(kept, m) = Nth(kept, n) => m = n
      /\ \A i \in kept : \E n \in DOMAIN picked : picked[n] = entries[i]
  BY PickedEntries
<1> HIDE DEF picked
<1>2. \A e : Has(picked, e) <=> \E i \in kept : entries[i] = e
  BY <1>1 DEF Has
<1>3. Unique(entries) => Unique(picked)
  BY <1>1 DEF Unique
<1> QED
  BY <1>1, <1>2, <1>3 DEF picked

LEMMA OtherNames ==
  ASSUME NEW entries \in Seq(Entry), NEW names
  PROVE  /\ Without(entries, names) \in Seq(Entry)
         /\ \A e : Has(Without(entries, names), e) <=> Has(entries, e) /\ e.name \notin names
         /\ Unique(entries) => Unique(Without(entries, names))
<1> DEFINE kept == {i \in DOMAIN entries : entries[i].name \notin names}
<1>1. kept \in SUBSET DOMAIN entries
  OBVIOUS
<1>2. \A e : (\E i \in kept : entries[i] = e) <=> Has(entries, e) /\ e.name \notin names
  BY DEF Has
<1> QED
  BY <1>1, <1>2, Leaves DEF Without

LEMMA OtherDocuments ==
  ASSUME NEW entries \in Seq(Entry), NEW d
  PROVE  /\ WithoutDocument(entries, d) \in Seq(Entry)
         /\ \A e : Has(WithoutDocument(entries, d), e) <=> Has(entries, e) /\ e.document # d
         /\ Unique(entries) => Unique(WithoutDocument(entries, d))
<1> DEFINE kept == {i \in DOMAIN entries : entries[i].document # d}
<1>1. kept \in SUBSET DOMAIN entries
  OBVIOUS
<1>2. \A e : (\E i \in kept : entries[i] = e) <=> Has(entries, e) /\ e.document # d
  BY DEF Has
<1> QED
  BY <1>1, <1>2, Leaves DEF WithoutDocument

LEMMA DocumentEntries ==
  ASSUME NEW entries \in Seq(Entry), NEW d
  PROVE  /\ OfDocument(entries, d) \in Seq(Entry)
         /\ \A e : Has(OfDocument(entries, d), e) <=> Has(entries, e) /\ e.document = d
<1> DEFINE kept == {i \in DOMAIN entries : entries[i].document = d}
<1>1. kept \in SUBSET DOMAIN entries
  OBVIOUS
<1>2. \A e : (\E i \in kept : entries[i] = e) <=> Has(entries, e) /\ e.document = d
  BY DEF Has
<1> QED
  BY <1>1, <1>2, Leaves DEF OfDocument

\* The new entry is there, and those of other names.
LEMMA EntryReplaces ==
  ASSUME NEW entries \in Seq(Entry), NEW entry \in Entry
  PROVE  /\ WithEntry(entries, entry) \in Seq(Entry)
         /\ \A e : Has(WithEntry(entries, entry), e)
                     <=> e = entry \/ (Has(entries, e) /\ e.name # entry.name)
         /\ Unique(entries) => Unique(WithEntry(entries, entry))
<1> DEFINE rest == Without(entries, {entry.name})
           all == Append(rest, entry)
<1>1. /\ rest \in Seq(Entry)
      /\ \A e : Has(rest, e) <=> Has(entries, e) /\ e.name # entry.name
      /\ Unique(entries) => Unique(rest)
  BY OtherNames
<1> HIDE DEF rest
<1>2. /\ all \in Seq(Entry)
      /\ DOMAIN all = DOMAIN rest \union {Len(rest) + 1}
      /\ Len(rest) + 1 \notin DOMAIN rest
      /\ all[Len(rest) + 1] = entry
      /\ \A i \in DOMAIN rest : all[i] = rest[i]
  BY <1>1
<1> HIDE DEF all
<1>3. \A e : Has(all, e) <=> e = entry \/ Has(rest, e)
  BY <1>2 DEF Has
<1>4. \A i \in DOMAIN rest : rest[i].name # entry.name
  BY <1>1 DEF Has
<1>5. Unique(rest) => Unique(all)
  BY <1>2, <1>4 DEF Unique
<1> QED
  BY <1>1, <1>2, <1>3, <1>5 DEF WithEntry, rest, all

-----------------------------------------------------------------------------
(***************************************************************************)
(* Types and the lock.                                                      *)
(***************************************************************************)
UnderLock == {"list", "compare", "bytes", "text", "load", "save", "remove", "unlink"}

LEMMA NoneIsNothing ==
  /\ None \notin Names /\ None \notin Contents /\ None \notin Documents /\ None \notin Requests
  /\ None \notin {"queued", "running", "completed", "failed"}
  /\ Contents \subseteq Documents /\ Truncated \in Documents
  BY LocalStoreAssumption DEF Documents, JobStatus

\* What is known of a request.
LEMMA Known ==
  ASSUME TypeInv, NEW r \in Requests
  PROVE  /\ request \in [Requests -> Request] /\ request[r] \in Request /\ RequestOK(request[r])
         /\ request[r].kind \in {"none", "upload", "sync", "delete"}
         /\ request[r].name \in Names \union {None} /\ request[r].contents \in Contents \union {None}
         /\ request[r].document \in Documents \union {None} /\ request[r].text \in Documents \union {None}
         /\ request[r].loaded \in Seq(Entry) /\ request[r].known \in Seq(Entry)
         /\ request[r].listed \in SUBSET Names /\ request[r].todo \in SUBSET Names
         /\ file \in [Names -> Documents \union {None}] /\ index \in Seq(Entry) /\ Unique(index)
         /\ request[r].pc \in UnderLock <=> lock = r
         /\ request[r].pc \in {"save", "remove"} => request[r].loaded = index
         /\ JobOK(r) /\ job[r] \in JobStatus \union {None} /\ message[r] \in BOOLEAN
  BY DEF TypeInv, RequestsOK, StoreOK, LockOK, JobsOK, Request, Maybe, Locked, UnderLock

\* A request of a kind that has nothing in hand.
Bare(kind, pc) == [Fresh EXCEPT !.kind = kind, !.pc = pc]

LEMMA BareIsOK ==
  ASSUME NEW kind \in {"none", "upload", "sync", "delete"}, NEW pc \in {"done", "dead", "create", "complete", "new"},
         pc \in {"create", "complete"} => kind \in {"upload", "sync"},
         pc = "create" => kind # "upload"
  PROVE  /\ Bare(kind, pc) \in Request /\ RequestOK(Bare(kind, pc))
         /\ Bare(kind, pc).kind = kind /\ Bare(kind, pc).pc = pc
<1> DEFINE q == Bare(kind, pc)
<1>1. q.kind = kind /\ q.pc = pc /\ q.name = None
  BY DEF Fresh, Bare
<1>2. q \in Request
  <2>1. Fresh \in Request
    BY DEF Fresh, Request, Maybe
  <2> QED
    BY <2>1 DEF Request, Bare
<1> HIDE DEF q
<1>3. RequestOK(q)
  BY <1>1 DEF RequestOK
<1> QED
  BY <1>1, <1>2, <1>3 DEF q

\* A request moves: it alone takes or leaves the lock, and changes the index
\* only with the lock.
LEMMA Moves ==
  ASSUME TypeInv, NEW r \in Requests, NEW q \in Request, RequestOK(q),
         request' = [request EXCEPT ![r] = q],
         \/ lock' = lock /\ (q.pc \in UnderLock <=> lock = r)
         \/ lock = None /\ lock' = r /\ q.pc \in UnderLock
         \/ lock = r /\ lock' = None /\ q.pc \notin UnderLock,
         index' = index \/ lock = r,
         q.pc \in {"save", "remove"} => q.loaded = index'
  PROVE  /\ RequestsOK' /\ LockOK'
         /\ request'[r] = q /\ \A s \in Requests \ {r} : request'[s] = request[s]
<1>1. request'[r] = q /\ \A s \in Requests \ {r} : request'[s] = request[s]
  BY Known
<1>2. RequestsOK'
  <2>1. request' \in [Requests -> Request]
    BY Known
  <2>2. \A s \in Requests : RequestOK(request'[s])
    BY <1>1, Known
  <2> QED
    BY <2>1, <2>2 DEF RequestsOK
<1>3. lock' \in Maybe(Requests)
  BY DEF TypeInv, LockOK, Maybe
<1>4. ASSUME NEW s \in Requests
      PROVE  /\ Locked(s)' <=> lock' = s
             /\ request'[s].pc \in {"save", "remove"} => request'[s].loaded = index'
  <2>1. Locked(s)' <=> request'[s].pc \in UnderLock
    BY DEF Locked, UnderLock
  <2>2. CASE s = r
    BY <1>1, <2>1, <2>2, NoneIsNothing
  <2>3. CASE s # r
    <3>1. request'[s] = request[s]
      BY <1>1, <2>3
    <3>2. request[s].pc \in UnderLock <=> lock = s
      BY Known
    <3>3. request[s].pc \in {"save", "remove"} => request[s].loaded = index /\ lock = s
      BY Known DEF UnderLock
    <3>4. lock' = s <=> lock = s
      BY <2>3, NoneIsNothing
    <3> QED
      BY <2>1, <2>3, <3>1, <3>2, <3>3, <3>4
  <2> QED
    BY <2>2, <2>3
<1>5. LockOK'
  BY <1>3, <1>4 DEF LockOK
<1> QED
  BY <1>1, <1>2, <1>5

\* Its job moves with it.
LEMMA JobMoves ==
  ASSUME TypeInv, NEW r \in Requests, NEW q, UNCHANGED mode,
         request'[r] = q, \A s \in Requests \ {r} : request'[s] = request[s],
         NEW status \in JobStatus \union {None}, job' = [job EXCEPT ![r] = status],
         NEW sent \in BOOLEAN, message' = [message EXCEPT ![r] = sent],
         q.kind = "delete" \/ q.pc \in {"new", "write", "create"} => status = None /\ ~sent,
         mode = "inline" => ~sent /\ q.pc \notin {"publish", "unsent"},
         q.kind # "delete" /\ q.pc \notin {"new", "write", "create", "publish", "unsent", "done", "dead"}
            => mode = "inline" /\ status = IF q.pc = "run" THEN "queued" ELSE "running"
  PROVE  JobsOK' /\ job'[r] = status /\ message'[r] = sent
<1>1. job \in [Requests -> Maybe(JobStatus)] /\ message \in [Requests -> BOOLEAN]
  BY DEF TypeInv, JobsOK
<1>2. job'[r] = status /\ \A s \in Requests \ {r} : job'[s] = job[s]
  BY <1>1
<1>3. message'[r] = sent /\ \A s \in Requests \ {r} : message'[s] = message[s]
  BY <1>1
<1>4. job' \in [Requests -> Maybe(JobStatus)] /\ message' \in [Requests -> BOOLEAN]
  BY <1>1 DEF Maybe
<1>5. JobOK(r)'
  BY <1>2, <1>3 DEF JobOK
<1>6. \A s \in Requests \ {r} : JobOK(s)'
  BY <1>2, <1>3, Known DEF JobOK
<1> QED
  BY <1>2, <1>3, <1>4, <1>5, <1>6 DEF JobsOK

\* It keeps its job and its message.
LEMMA JobStays ==
  ASSUME TypeInv, NEW r \in Requests, NEW q, UNCHANGED <<mode, job, message>>,
         request'[r] = q, \A s \in Requests \ {r} : request'[s] = request[s],
         q.kind = "delete" \/ q.pc \in {"new", "write", "create"} => job[r] = None /\ ~message[r],
         mode = "inline" => q.pc \notin {"publish", "unsent"},
         q.kind # "delete" /\ q.pc \notin {"new", "write", "create", "publish", "unsent", "done", "dead"}
            => mode = "inline" /\ job[r] = IF q.pc = "run" THEN "queued" ELSE "running"
  PROVE  JobsOK'
<1>1. JobOK(r)'
  BY Known DEF JobOK
<1>2. \A s \in Requests \ {r} : JobOK(s)'
  BY Known DEF JobOK
<1> QED
  BY <1>1, <1>2 DEF JobsOK, TypeInv

Core == StoreOK /\ RequestsOK /\ LockOK /\ JobsOK

\* A request is answered, or its sync has no more to do than to complete.
LEMMA Finishes ==
  ASSUME TypeInv, NEW r \in Requests, NEW pc \in {"done", "complete"}, Finish(r, pc), index' = index \/ lock = r,
         pc = "complete" => request[r].kind \in {"upload", "sync"}
  PROVE  /\ RequestsOK' /\ LockOK'
         /\ request'[r].kind = request[r].kind /\ request'[r].pc = pc
         /\ \A s \in Requests \ {r} : request'[s] = request[s]
<1> DEFINE q == Bare(request[r].kind, pc)
<1>0. request[r].kind \in {"none", "upload", "sync", "delete"}
  BY Known
<1>1. q \in Request /\ RequestOK(q) /\ q.kind = request[r].kind /\ q.pc = pc
  BY <1>0, BareIsOK
<1>2. request' = [request EXCEPT ![r] = q] /\ lock' = IF lock = r THEN None ELSE lock
  BY DEF Finish, Bare
<1> HIDE DEF q
<1>3. q.pc \notin UnderLock /\ q.pc \notin {"save", "remove"}
  BY <1>1 DEF UnderLock
<1>4. \/ lock' = lock /\ (q.pc \in UnderLock <=> lock = r)
      \/ lock = r /\ lock' = None /\ q.pc \notin UnderLock
  BY <1>2, <1>3
<1>5. /\ RequestsOK' /\ LockOK'
      /\ request'[r] = q /\ \A s \in Requests \ {r} : request'[s] = request[s]
  BY <1>1, <1>2, <1>3, <1>4, Moves
<1> QED
  BY <1>1, <1>5

LEMMA Raises ==
  ASSUME TypeInv, NEW r \in Requests, Raise(r), UNCHANGED <<mode, vectors>>,
         request[r].pc \notin {"new", "write", "create", "publish", "unsent", "done", "dead"}
  PROVE  /\ Core'
         /\ request'[r].kind = request[r].kind /\ request'[r].pc = "done"
         /\ job'[r] = (IF request[r].kind = "upload" THEN "failed" ELSE job[r])
<1>1. /\ RequestsOK' /\ LockOK'
      /\ request'[r].kind = request[r].kind /\ request'[r].pc = "done"
      /\ \A s \in Requests \ {r} : request'[s] = request[s]
  BY Finishes DEF Raise
<1>2. StoreOK'
  BY DEF Raise, TypeInv, StoreOK
<1>3. job' = [job EXCEPT ![r] = IF request[r].kind = "upload" THEN "failed" ELSE @]
      /\ UNCHANGED message
  BY DEF Raise
<1> DEFINE status == IF request[r].kind = "upload" THEN "failed" ELSE job[r]
<1>4. /\ job \in [Requests -> JobStatus \union {None}] /\ message \in [Requests -> BOOLEAN]
      /\ status \in JobStatus \union {None}
  BY DEF TypeInv, JobsOK, Maybe, JobStatus
<1>5. job' = [job EXCEPT ![r] = status] /\ message' = [message EXCEPT ![r] = message[r]]
  BY <1>3, <1>4
<1>6. request[r].kind = "delete" => status = None /\ ~message[r]
  BY Known DEF JobOK
<1>7. mode = "inline" => ~message[r]
  BY Known DEF JobOK
<1>8. message[r] \in BOOLEAN
  BY <1>4
<1> HIDE DEF status
<1>9. JobsOK' /\ job'[r] = status
  BY <1>1, <1>4, <1>5, <1>6, <1>7, <1>8, JobMoves
<1> QED
  BY <1>1, <1>2, <1>9 DEF Core, status

LEMMA UploadStep ==
  ASSUME TypeInv, NEW r \in Requests, Upload(r), UNCHANGED <<mode, vectors>>
  PROVE  Core'
<1>1. PICK n \in Names, c \in Contents :
        /\ request' = [request EXCEPT ![r] = [Fresh EXCEPT !.kind = "upload", !.pc = "write",
                                                           !.name = n, !.contents = c]]
        /\ file' = [file EXCEPT ![n] = Truncated]
  BY DEF Upload
<1> DEFINE q == [Fresh EXCEPT !.kind = "upload", !.pc = "write", !.name = n, !.contents = c]
<1>2. q.kind = "upload" /\ q.pc = "write" /\ q.name = n /\ q.contents = c
  BY DEF Fresh
<1>3. q \in Request
  <2>1. Fresh \in Request
    BY DEF Fresh, Request, Maybe
  <2> QED
    BY <2>1 DEF Request, Maybe
<1>4. request' = [request EXCEPT ![r] = q] /\ UNCHANGED <<index, lock, job, message>> /\ request[r].pc = "new"
  BY <1>1 DEF Upload
<1> HIDE DEF q
<1>5. RequestOK(q) /\ q.pc \notin UnderLock
  BY <1>2 DEF RequestOK, UnderLock
<1>6. lock # r
  BY <1>4, Known DEF UnderLock
<1>7. /\ RequestsOK' /\ LockOK'
      /\ request'[r] = q /\ \A s \in Requests \ {r} : request'[s] = request[s]
  BY <1>2, <1>3, <1>4, <1>5, <1>6, Moves
<1>8. StoreOK'
  BY <1>1, <1>4, NoneIsNothing DEF TypeInv, StoreOK, Maybe
<1>9. job[r] = None /\ ~message[r]
  BY <1>4, Known DEF JobOK
<1>10. JobsOK'
  BY <1>2, <1>4, <1>7, <1>9, JobStays
<1> QED
  BY <1>7, <1>8, <1>10 DEF Core

LEMMA WriteStep ==
  ASSUME TypeInv, NEW r \in Requests, Write(r), UNCHANGED <<mode, vectors>>
  PROVE  Core'
<1> DEFINE q == [request[r] EXCEPT !.pc = "create", !.contents = None]
<1>1. /\ request[r].kind = "upload" /\ request[r].contents \in Contents /\ request[r].name \in Names
      /\ request[r].pc = "write"
  BY Known DEF Write, RequestOK
<1>2. q.kind = "upload" /\ q.pc = "create" /\ q.name \in Names
  BY <1>1, Known DEF Request
<1>3. q \in Request
  <2>1. request[r] \in Request
    BY Known
  <2> QED
    BY <2>1 DEF Request, Maybe
<1>4. /\ request' = [request EXCEPT ![r] = q] /\ UNCHANGED <<index, lock, job, message>>
      /\ file' = [file EXCEPT ![request[r].name] = request[r].contents]
  BY Known DEF Write
<1> HIDE DEF q
<1>5. RequestOK(q) /\ q.pc \notin UnderLock
  BY <1>2 DEF RequestOK, UnderLock
<1>6. lock # r
  BY <1>1, Known DEF UnderLock
<1>7. /\ RequestsOK' /\ LockOK'
      /\ request'[r] = q /\ \A s \in Requests \ {r} : request'[s] = request[s]
  BY <1>2, <1>3, <1>4, <1>5, <1>6, Moves
<1>8. StoreOK'
  BY <1>1, <1>4, NoneIsNothing DEF TypeInv, StoreOK, Maybe
<1>9. job[r] = None /\ ~message[r]
  BY <1>1, Known DEF JobOK
<1>10. JobsOK'
  BY <1>2, <1>4, <1>7, <1>9, JobStays
<1> QED
  BY <1>7, <1>8, <1>10 DEF Core

LEMMA BeginSyncStep ==
  ASSUME TypeInv, NEW r \in Requests, BeginSync(r), UNCHANGED <<mode, vectors>>
  PROVE  Core'
<1> DEFINE q == Bare("sync", "create")
<1>1. request[r].pc = "new" /\ request' = [request EXCEPT ![r] = q] /\ UNCHANGED <<file, index, lock, job, message>>
  BY DEF BeginSync, Bare
<1>2. q \in Request /\ RequestOK(q) /\ q.kind = "sync" /\ q.pc = "create"
  BY BareIsOK
<1> HIDE DEF q
<1>3. q.pc \notin UnderLock /\ lock # r
  BY <1>1, <1>2, Known DEF UnderLock
<1>4. /\ RequestsOK' /\ LockOK'
      /\ request'[r] = q /\ \A s \in Requests \ {r} : request'[s] = request[s]
  BY <1>1, <1>2, <1>3, Moves
<1>5. StoreOK'
  BY <1>1 DEF TypeInv, StoreOK
<1>6. job[r] = None /\ ~message[r]
  BY <1>1, Known DEF JobOK
<1>7. JobsOK'
  BY <1>1, <1>2, <1>4, <1>6, JobStays
<1> QED
  BY <1>4, <1>5, <1>7 DEF Core

LEMMA BeginDeleteStep ==
  ASSUME TypeInv, NEW r \in Requests, BeginDelete(r), UNCHANGED <<mode, vectors>>
  PROVE  Core'
<1>1. PICK i \in DOMAIN index :
        request' = [request EXCEPT ![r] = [Fresh EXCEPT !.kind = "delete", !.pc = "lock",
                                                        !.document = index[i].document]]
  BY DEF BeginDelete
<1> DEFINE q == [Fresh EXCEPT !.kind = "delete", !.pc = "lock", !.document = index[i].document]
<1>2. q.kind = "delete" /\ q.pc = "lock" /\ q.document = index[i].document /\ q.name = None
  BY DEF Fresh
<1>3. index[i].document \in Documents
  <2>1. index \in Seq(Entry)
    BY Known
  <2>2. index[i] \in Entry
    BY <2>1
  <2> QED
    BY <2>2 DEF Entry
<1>4. q \in Request
  <2>1. Fresh \in Request
    BY DEF Fresh, Request, Maybe
  <2> QED
    BY <2>1, <1>3 DEF Request, Maybe
<1>5. request' = [request EXCEPT ![r] = q] /\ UNCHANGED <<file, index, lock, job, message>> /\ request[r].pc = "new"
  BY <1>1 DEF BeginDelete
<1> HIDE DEF q
<1>6. RequestOK(q) /\ q.pc \notin UnderLock /\ lock # r
  BY <1>2, <1>3, <1>5, Known DEF RequestOK, UnderLock
<1>7. /\ RequestsOK' /\ LockOK'
      /\ request'[r] = q /\ \A s \in Requests \ {r} : request'[s] = request[s]
  BY <1>2, <1>4, <1>5, <1>6, Moves
<1>8. StoreOK'
  BY <1>5 DEF TypeInv, StoreOK
<1>9. job[r] = None /\ ~message[r]
  BY <1>5, Known DEF JobOK
<1>10. JobsOK'
  BY <1>2, <1>5, <1>7, <1>9, JobStays
<1> QED
  BY <1>7, <1>8, <1>10 DEF Core

Working == UnderLock \union {"lock", "chunks", "embed", "complete"}

\* A request that has its job running goes on.
LEMMA Goes ==
  ASSUME TypeInv, NEW r \in Requests, NEW q \in Request, RequestOK(q),
         request[r].pc \in Working, q.pc \in Working, q.kind = request[r].kind,
         request' = [request EXCEPT ![r] = q], UNCHANGED <<mode, job, message>>, StoreOK',
         \/ lock' = lock /\ (q.pc \in UnderLock <=> lock = r)
         \/ lock = None /\ lock' = r /\ q.pc \in UnderLock
         \/ lock = r /\ lock' = None /\ q.pc \notin UnderLock,
         index' = index \/ lock = r,
         q.pc \in {"save", "remove"} => q.loaded = index'
  PROVE  Core' /\ request'[r] = q /\ \A s \in Requests \ {r} : request'[s] = request[s]
<1>1. /\ RequestsOK' /\ LockOK'
      /\ request'[r] = q /\ \A s \in Requests \ {r} : request'[s] = request[s]
  BY Moves
<1>2. /\ q.kind = "delete" => job[r] = None /\ ~message[r]
      /\ q.kind # "delete" => mode = "inline" /\ job[r] = "running"
  <2>1. request[r].pc \notin {"new", "write", "create", "publish", "unsent", "run", "done", "dead"}
    BY DEF Working, UnderLock
  <2>2. JobOK(r)
    BY Known
  <2> QED
    BY <2>1, <2>2 DEF JobOK
<1>3. q.pc \notin {"new", "write", "create", "publish", "unsent", "run", "done", "dead"}
  BY DEF Working, UnderLock
<1>4. JobsOK'
  BY <1>1, <1>2, <1>3, JobStays
<1> QED
  BY <1>1, <1>4 DEF Core

LEMMA CreateStep ==
  ASSUME TypeInv, NEW r \in Requests, Create(r), UNCHANGED <<mode, vectors>>
  PROVE  Core' /\ job'[r] = "queued" /\ request'[r].pc \in {"run", "publish"}
<1> DEFINE q == [request[r] EXCEPT !.pc = IF mode = "inline" THEN "run" ELSE "publish"]
<1>1. /\ request[r].pc = "create" /\ request[r] \in Request /\ RequestOK(request[r])
      /\ mode \in {"inline", "queue"}
  BY Known DEF Create, TypeInv, StoreOK
<1>2. /\ q.kind = request[r].kind /\ q.name = request[r].name
      /\ q.pc = IF mode = "inline" THEN "run" ELSE "publish"
  BY <1>1 DEF Request
<1>3. q \in Request
  BY <1>1 DEF Request
<1>4. /\ request' = [request EXCEPT ![r] = q] /\ UNCHANGED <<file, index, lock, message>>
      /\ job' = [job EXCEPT ![r] = "queued"]
  BY Known DEF Create, Goto
<1> HIDE DEF q
<1>5. RequestOK(q) /\ q.pc \notin UnderLock /\ lock # r
  BY <1>1, <1>2, Known DEF RequestOK, UnderLock
<1>6. /\ RequestsOK' /\ LockOK'
      /\ request'[r] = q /\ \A s \in Requests \ {r} : request'[s] = request[s]
  BY <1>2, <1>3, <1>4, <1>5, Moves
<1>7. StoreOK'
  BY <1>4 DEF TypeInv, StoreOK
<1>8. ~message[r] /\ message[r] \in BOOLEAN /\ q.kind # "delete"
  BY <1>1, <1>2, Known DEF JobOK, RequestOK
<1>9. message' = [message EXCEPT ![r] = message[r]] /\ "queued" \in JobStatus \union {None}
  BY <1>4 DEF TypeInv, JobsOK, JobStatus
<1>10. q.pc \in {"run", "publish"} /\ (q.pc = "run" <=> mode = "inline")
  BY <1>1, <1>2
<1>11. JobsOK' /\ job'[r] = "queued"
  <2>1. /\ ~(q.kind = "delete" \/ q.pc \in {"new", "write", "create"})
        /\ mode = "inline" => ~message[r] /\ q.pc \notin {"publish", "unsent"}
        /\ q.kind # "delete" /\ q.pc \notin {"new", "write", "create", "publish", "unsent", "done", "dead"}
            => mode = "inline" /\ q.pc = "run"
    BY <1>8, <1>10
  <2>2. "queued" \in JobStatus \union {None} /\ message[r] \in BOOLEAN /\ UNCHANGED mode
    BY <1>8, <1>9
  <2> QED
    BY <1>4, <1>6, <1>9, <2>1, <2>2, JobMoves
<1> QED
  BY <1>2, <1>6, <1>7, <1>11 DEF Core

LEMMA PublishStep ==
  ASSUME TypeInv, NEW r \in Requests, Publish(r), UNCHANGED <<mode, vectors>>
  PROVE  Core' /\ message'[r]
<1>1. request[r].pc = "publish" /\ UNCHANGED <<file, index, job>> /\ message' = [message EXCEPT ![r] = TRUE]
  BY DEF Publish
<1>2. mode # "inline" /\ request[r].kind # "delete"
  BY <1>1, Known DEF JobOK, RequestOK
<1>3. /\ RequestsOK' /\ LockOK'
      /\ request'[r].kind = request[r].kind /\ request'[r].pc = "done"
      /\ \A s \in Requests \ {r} : request'[s] = request[s]
  BY <1>1, Finishes DEF Publish
<1>4. StoreOK'
  BY <1>1 DEF TypeInv, StoreOK
<1>5. job' = [job EXCEPT ![r] = job[r]] /\ job[r] \in JobStatus \union {None}
  BY <1>1, Known DEF TypeInv, JobsOK
<1>6. JobsOK' /\ message'[r] = TRUE
  BY <1>1, <1>2, <1>3, <1>5, JobMoves
<1> QED
  BY <1>3, <1>4, <1>6 DEF Core

LEMMA PublishFailsStep ==
  ASSUME TypeInv, NEW r \in Requests, PublishFails(r), UNCHANGED <<mode, vectors>>
  PROVE  Core' /\ request'[r].pc = "unsent"
<1>1. /\ request[r].pc = "publish" /\ request[r] \in Request /\ RequestOK(request[r])
      /\ UNCHANGED <<file, index, lock, job>>
  BY Known DEF PublishFails
<1>2. PICK sent \in BOOLEAN : message' = [message EXCEPT ![r] = sent]
  BY DEF PublishFails
<1> DEFINE q == [request[r] EXCEPT !.pc = "unsent"]
<1>3. q.kind = request[r].kind /\ q.name = request[r].name /\ q.pc = "unsent" /\ q \in Request
  BY <1>1 DEF Request
<1>4. request' = [request EXCEPT ![r] = q]
  BY Known DEF PublishFails, Goto
<1> HIDE DEF q
<1>5. RequestOK(q) /\ q.pc \notin UnderLock /\ lock # r
  BY <1>1, <1>3, Known DEF RequestOK, UnderLock
<1>6. /\ RequestsOK' /\ LockOK'
      /\ request'[r] = q /\ \A s \in Requests \ {r} : request'[s] = request[s]
  BY <1>1, <1>3, <1>4, <1>5, Moves
<1>7. StoreOK'
  BY <1>1 DEF TypeInv, StoreOK
<1>8. mode # "inline" /\ request[r].kind # "delete"
  BY <1>1, Known DEF JobOK, RequestOK
<1>9. job' = [job EXCEPT ![r] = job[r]] /\ job[r] \in JobStatus \union {None}
  BY <1>1, Known DEF TypeInv, JobsOK
<1>10. JobsOK'
  BY <1>2, <1>3, <1>6, <1>8, <1>9, JobMoves
<1> QED
  BY <1>3, <1>6, <1>7, <1>10 DEF Core

LEMMA FailUnsentStep ==
  ASSUME TypeInv, NEW r \in Requests, FailUnsent(r), UNCHANGED <<mode, vectors>>
  PROVE  Core' /\ job'[r] \notin {"queued", "running"}
<1>1. request[r].pc = "unsent" /\ UNCHANGED <<file, index, message>>
  BY DEF FailUnsent
<1>2. mode # "inline" /\ request[r].kind # "delete"
  BY <1>1, Known DEF JobOK, RequestOK
<1>3. /\ RequestsOK' /\ LockOK'
      /\ request'[r].kind = request[r].kind /\ request'[r].pc = "done"
      /\ \A s \in Requests \ {r} : request'[s] = request[s]
  BY <1>1, Finishes DEF FailUnsent
<1>4. StoreOK'
  BY <1>1 DEF TypeInv, StoreOK
<1> DEFINE status == IF MayBecome(job[r], "failed") THEN "failed" ELSE job[r]
<1>5. job \in [Requests -> JobStatus \union {None}] /\ message \in [Requests -> BOOLEAN]
  BY DEF TypeInv, JobsOK, Maybe
<1>6. /\ job' = [job EXCEPT ![r] = status] /\ status \in JobStatus \union {None}
      /\ message' = [message EXCEPT ![r] = message[r]] /\ message[r] \in BOOLEAN
  BY <1>1, <1>5 DEF FailUnsent, JobStatus
<1>7. status \notin {"queued", "running"}
  BY DEF MayBecome, Allowed
<1> HIDE DEF status
<1> DEFINE q == request'[r]
<1>8. q.kind # "delete" /\ q.pc = "done" /\ request'[r] = q
  BY <1>2, <1>3
<1> HIDE DEF q
<1>9. JobsOK' /\ job'[r] = status
  BY <1>2, <1>3, <1>6, <1>8, JobMoves
<1> QED
  BY <1>3, <1>4, <1>7, <1>9 DEF Core

LEMMA RunStep ==
  ASSUME TypeInv, NEW r \in Requests, Run(r), UNCHANGED <<mode, vectors>>
  PROVE  Core' /\ request'[r].pc = "lock"
<1>1. /\ request[r].pc = "run" /\ request[r] \in Request /\ RequestOK(request[r])
      /\ UNCHANGED <<file, index, lock, message>> /\ job' = [job EXCEPT ![r] = "running"]
  BY Known DEF Run
<1> DEFINE q == [request[r] EXCEPT !.pc = "lock"]
<1>2. q.kind = request[r].kind /\ q.name = request[r].name /\ q.pc = "lock" /\ q \in Request
  BY <1>1 DEF Request
<1>3. request' = [request EXCEPT ![r] = q]
  BY Known DEF Run, Goto
<1> HIDE DEF q
<1>4. RequestOK(q) /\ q.pc \notin UnderLock /\ lock # r
  BY <1>1, <1>2, Known DEF RequestOK, UnderLock
<1>5. /\ RequestsOK' /\ LockOK'
      /\ request'[r] = q /\ \A s \in Requests \ {r} : request'[s] = request[s]
  BY <1>1, <1>2, <1>3, <1>4, Moves
<1>6. StoreOK'
  BY <1>1 DEF TypeInv, StoreOK
<1>7. mode = "inline" /\ ~message[r] /\ request[r].kind # "delete" /\ message[r] \in BOOLEAN
  BY <1>1, Known DEF JobOK, RequestOK
<1>8. message' = [message EXCEPT ![r] = message[r]] /\ "running" \in JobStatus \union {None}
  BY <1>1 DEF TypeInv, JobsOK, JobStatus
<1>9. JobsOK'
  BY <1>1, <1>2, <1>5, <1>7, <1>8, JobMoves
<1> QED
  BY <1>2, <1>5, <1>6, <1>9 DEF Core

LEMMA StoreStays ==
  ASSUME TypeInv, UNCHANGED <<mode, file, index, vectors>>
  PROVE  StoreOK'
  BY DEF TypeInv, StoreOK

LEMMA LockStep ==
  ASSUME TypeInv, NEW r \in Requests, Lock(r), UNCHANGED <<mode, vectors>>
  PROVE  Core' /\ request'[r].pc \in {"bytes", "list", "load"}
<1> DEFINE pc == CASE request[r].kind = "upload" -> "bytes"
                   [] request[r].kind = "sync" -> "list"
                   [] request[r].kind = "delete" -> "load"
           q == [request[r] EXCEPT !.pc = pc]
<1>1. /\ request[r].pc = "lock" /\ request[r] \in Request /\ RequestOK(request[r])
      /\ lock = None /\ lock' = r /\ UNCHANGED <<file, index, job, message>>
  BY Known DEF Lock
<1>2. /\ request[r].kind \in {"upload", "sync", "delete"}
      /\ request[r].kind = "upload" => request[r].name \in Names
      /\ request[r].kind # "upload" => request[r].name = None
      /\ request[r].kind = "delete" => request[r].document \in Documents
  BY <1>1 DEF RequestOK
<1>3. /\ request[r].kind = "upload" => pc = "bytes"
      /\ request[r].kind = "sync" => pc = "list"
      /\ request[r].kind = "delete" => pc = "load"
  OBVIOUS
<1>4. pc \in {"bytes", "list", "load"}
  BY <1>2, <1>3
<1>5. request' = [request EXCEPT ![r] = q]
  BY Known DEF Lock, Goto
<1> HIDE DEF pc
<1>6. /\ q.kind = request[r].kind /\ q.name = request[r].name /\ q.document = request[r].document
      /\ q.pc = pc /\ q \in Request
  BY <1>1, <1>4 DEF Request
<1> HIDE DEF q
<1>7. RequestOK(q)
  BY <1>2, <1>3, <1>4, <1>6 DEF RequestOK
<1>8. q.pc \in UnderLock /\ q.pc \notin {"save", "remove"} /\ q.pc \in Working /\ request[r].pc \in Working
  BY <1>1, <1>4, <1>6 DEF UnderLock, Working
<1>9. StoreOK'
  BY <1>1, StoreStays
<1>10. Core' /\ request'[r] = q
  BY <1>1, <1>5, <1>6, <1>7, <1>8, <1>9, Goes
<1> QED
  BY <1>4, <1>6, <1>10

LEMMA ReadBytesStep ==
  ASSUME TypeInv, NEW r \in Requests, ReadBytes(r), UNCHANGED <<mode, vectors>>
  PROVE  /\ Core'
         /\ \/ /\ request'[r].kind = request[r].kind /\ request'[r].pc = "done"
               /\ job'[r] = (IF request[r].kind = "upload" THEN "failed" ELSE job[r])
            \/ request'[r].pc = "text"
<1>1. /\ request[r].pc = "bytes" /\ request[r] \in Request
      /\ request[r].kind \in {"upload", "sync"} /\ request[r].name \in Names
  BY Known DEF ReadBytes, RequestOK
<1>2. CASE Raise(r)
  BY <1>1, <1>2, Raises
<1>3. CASE /\ file[request[r].name] # None
           /\ request' = [request EXCEPT ![r].document = file[request[r].name], ![r].pc = "text"]
           /\ UNCHANGED <<file, index, lock, job, message>>
  <2> DEFINE q == [request[r] EXCEPT !.document = file[request[r].name], !.pc = "text"]
  <2>1. file[request[r].name] \in Documents
    BY <1>1, <1>3, Known
  <2>2. request' = [request EXCEPT ![r] = q]
    BY <1>3, Known
  <2>3. /\ q.kind = request[r].kind /\ q.name = request[r].name /\ q.document \in Documents
        /\ q.pc = "text" /\ q \in Request
    BY <1>1, <2>1 DEF Request, Maybe
  <2> HIDE DEF q
  <2>4. RequestOK(q)
    BY <1>1, <2>3 DEF RequestOK
  <2>5. q.pc \in UnderLock /\ q.pc \notin {"save", "remove"} /\ q.pc \in Working /\ request[r].pc \in Working
    BY <1>1, <2>3 DEF UnderLock, Working
  <2>6. lock = r
    BY <1>1, Known DEF UnderLock
  <2>7. Core' /\ request'[r] = q
    BY <1>3, <2>2, <2>3, <2>4, <2>5, <2>6, StoreStays, Goes
  <2> QED
    BY <2>3, <2>7
<1> QED
  BY <1>2, <1>3 DEF ReadBytes

LEMMA ReadTextStep ==
  ASSUME TypeInv, NEW r \in Requests, ReadText(r), UNCHANGED <<mode, vectors>>
  PROVE  /\ Core'
         /\ \/ /\ request'[r].kind = request[r].kind /\ request'[r].pc = "done"
               /\ job'[r] = (IF request[r].kind = "upload" THEN "failed" ELSE job[r])
            \/ request'[r].pc = "load"
<1> DEFINE now == file[request[r].name]
<1>1. /\ request[r].pc = "text" /\ request[r] \in Request /\ request[r].document \in Documents
      /\ request[r].kind \in {"upload", "sync"} /\ request[r].name \in Names
  BY Known DEF ReadText, RequestOK
<1>2. CASE Raise(r)
  BY <1>1, <1>2, Raises
<1>3. CASE /\ now \in Contents
           /\ request' = [request EXCEPT ![r].text = now, ![r].pc = "load"]
           /\ UNCHANGED <<file, index, lock, job, message>>
  <2> DEFINE q == [request[r] EXCEPT !.text = now, !.pc = "load"]
  <2>1. request' = [request EXCEPT ![r] = q]
    BY <1>3, Known
  <2>2. /\ q.kind = request[r].kind /\ q.name = request[r].name /\ q.document = request[r].document
        /\ q.text \in Contents /\ q.pc = "load" /\ q \in Request
    BY <1>1, <1>3, NoneIsNothing DEF Request, Maybe
  <2> HIDE DEF q
  <2>3. RequestOK(q)
    BY <1>1, <2>2 DEF RequestOK
  <2>4. q.pc \in UnderLock /\ q.pc \notin {"save", "remove"} /\ q.pc \in Working /\ request[r].pc \in Working
    BY <1>1, <2>2 DEF UnderLock, Working
  <2>5. lock = r
    BY <1>1, Known DEF UnderLock
  <2>6. Core' /\ request'[r] = q
    BY <1>3, <2>1, <2>2, <2>3, <2>4, <2>5, StoreStays, Goes
  <2> QED
    BY <2>2, <2>6
<1> QED
  BY <1>2, <1>3 DEF ReadText

LEMMA LoadStep ==
  ASSUME TypeInv, NEW r \in Requests, Load(r), UNCHANGED <<mode, vectors>>
  PROVE  Core' /\ request'[r].pc \in {"save", "remove"}
<1> DEFINE pc == IF request[r].name = None THEN "remove" ELSE "save"
           q == [request[r] EXCEPT !.loaded = index, !.pc = pc]
<1>1. /\ request[r].pc = "load" /\ request[r] \in Request /\ RequestOK(request[r])
      /\ index \in Seq(Entry) /\ UNCHANGED <<file, index, lock, job, message>>
      /\ request[r].name \in Names \union {None}
  BY Known DEF Load
<1>2. request' = [request EXCEPT ![r] = q]
  BY Known DEF Load
<1>3. pc \in {"save", "remove"} /\ (pc = "remove" <=> request[r].name = None)
  OBVIOUS
<1> HIDE DEF pc
<1>4. /\ q.kind = request[r].kind /\ q.name = request[r].name /\ q.document = request[r].document
      /\ q.text = request[r].text /\ q.pc = pc /\ q.loaded = index
  BY <1>1 DEF Request
<1>5. q \in Request
  BY <1>1, <1>3 DEF Request
<1> HIDE DEF q
<1>6. RequestOK(q)
  <2>1. /\ request[r].name = None => request[r].kind \in {"sync", "delete"}
        /\ request[r].name # None => /\ request[r].kind \in {"upload", "sync"} /\ request[r].name \in Names
                                     /\ request[r].document \in Documents /\ request[r].text \in Contents
        /\ request[r].kind = "delete" => request[r].document \in Documents
    BY <1>1, NoneIsNothing DEF RequestOK
  <2>2. CASE pc = "remove"
    BY <1>3, <1>4, <2>1, <2>2 DEF RequestOK
  <2>3. CASE pc = "save"
    BY <1>3, <1>4, <2>1, <2>3 DEF RequestOK
  <2> QED
    BY <1>3, <2>2, <2>3
<1>7. q.pc \in UnderLock /\ q.pc \in Working /\ request[r].pc \in Working
  BY <1>1, <1>3, <1>4 DEF UnderLock, Working
<1>8. lock = r
  BY <1>1, Known DEF UnderLock
<1>9. Core' /\ request'[r] = q
  BY <1>1, <1>2, <1>4, <1>5, <1>6, <1>7, <1>8, StoreStays, Goes
<1> QED
  BY <1>3, <1>4, <1>9

\* What the index becomes when the holder of the lock saves it.
LEMMA SaveChanges ==
  ASSUME TypeInv, NEW r \in Requests, Save(r)
  PROVE  /\ request[r].kind \in {"upload", "sync"} /\ request[r].name \in Names
         /\ request[r].document \in Documents /\ request[r].text \in Contents
         /\ lock = r /\ index' \in Seq(Entry) /\ Unique(index')
         /\ \A e : Has(index', e) <=>
               \/ e = [name |-> request[r].name, document |-> request[r].document, text |-> request[r].text]
               \/ Has(index, e) /\ e.name # request[r].name
<1>1. request[r].pc = "save" /\ RequestOK(request[r])
  BY Known DEF Save
<1>2. /\ request[r].kind \in {"upload", "sync"} /\ request[r].name \in Names
      /\ request[r].document \in Documents /\ request[r].text \in Contents
  BY <1>1, NoneIsNothing DEF RequestOK
<1>3. lock = r /\ request[r].loaded = index /\ index \in Seq(Entry) /\ Unique(index)
  BY <1>1, Known DEF UnderLock
<1> DEFINE entry == [name |-> request[r].name, document |-> request[r].document, text |-> request[r].text]
<1>4. entry \in Entry /\ entry.name = request[r].name
  BY <1>2 DEF Entry
<1>5. index' = WithEntry(index, entry)
  BY <1>3 DEF Save
<1> HIDE DEF entry
<1>6. /\ index' \in Seq(Entry) /\ Unique(index')
      /\ \A e : Has(index', e) <=> e = entry \/ (Has(index, e) /\ e.name # entry.name)
  BY <1>3, <1>4, <1>5, EntryReplaces
<1> QED
  BY <1>2, <1>3, <1>4, <1>6 DEF entry

LEMMA SaveStep ==
  ASSUME TypeInv, NEW r \in Requests, Save(r), UNCHANGED <<mode, vectors>>
  PROVE  Core' /\ request'[r].pc \in {"chunks", "compare"}
<1> DEFINE q == [request[r] EXCEPT !.loaded = <<>>, !.name = None, !.text = None,
                            !.document = IF request[r].kind = "upload" THEN request[r].document ELSE None,
                            !.pc = IF request[r].kind = "upload" THEN "chunks" ELSE "compare"]
<1>1. /\ request[r].pc = "save" /\ request[r] \in Request
      /\ UNCHANGED <<file, job, message>> /\ lock' = IF request[r].kind = "upload" THEN None ELSE lock
  BY Known DEF Save
<1>2. /\ request[r].kind \in {"upload", "sync"} /\ request[r].document \in Documents
      /\ lock = r /\ index' \in Seq(Entry) /\ Unique(index')
  BY SaveChanges
<1>3. request' = [request EXCEPT ![r] = q]
  BY DEF Save
<1>4. /\ q.kind = request[r].kind /\ q.name = None
      /\ q.document = (IF request[r].kind = "upload" THEN request[r].document ELSE None)
      /\ q.pc = (IF request[r].kind = "upload" THEN "chunks" ELSE "compare")
  BY <1>1 DEF Request
<1>5. q \in Request
  <2>1. <<>> \in Seq(Entry)
    OBVIOUS
  <2> QED
    BY <1>1, <2>1 DEF Request, Maybe
<1> HIDE DEF q
<1>6. RequestOK(q)
  <2>1. CASE request[r].kind = "upload"
    BY <1>2, <1>4, <2>1 DEF RequestOK
  <2>2. CASE request[r].kind = "sync"
    BY <1>2, <1>4, <2>2 DEF RequestOK
  <2> QED
    BY <1>2, <2>1, <2>2
<1>7. StoreOK'
  BY <1>1, <1>2 DEF TypeInv, StoreOK
<1>8. /\ q.pc \in Working /\ request[r].pc \in Working /\ q.pc \notin {"save", "remove"}
      /\ q.pc \in {"chunks", "compare"}
      /\ \/ lock' = lock /\ (q.pc \in UnderLock <=> lock = r)
         \/ lock = r /\ lock' = None /\ q.pc \notin UnderLock
  BY <1>1, <1>2, <1>4 DEF UnderLock, Working
<1>9. Core' /\ request'[r] = q
  BY <1>1, <1>2, <1>3, <1>4, <1>5, <1>6, <1>7, <1>8, Goes
<1> QED
  BY <1>8, <1>9

LEMMA ListStep ==
  ASSUME TypeInv, NEW r \in Requests, List(r), UNCHANGED <<mode, vectors>>
  PROVE  Core' /\ request'[r].pc = "compare"
<1> DEFINE names == {n \in Names : file[n] # None}
           q == [request[r] EXCEPT !.known = index, !.listed = names, !.todo = names, !.pc = "compare"]
<1>1. /\ request[r].pc = "list" /\ request[r] \in Request /\ request[r].kind = "sync"
      /\ request[r].name = None /\ index \in Seq(Entry) /\ lock = r
      /\ UNCHANGED <<file, index, lock, job, message>>
  BY Known DEF List, RequestOK, UnderLock
<1>2. request' = [request EXCEPT ![r] = q]
  BY Known DEF List
<1>3. names \in SUBSET Names
  OBVIOUS
<1> HIDE DEF names
<1>4. q.kind = "sync" /\ q.name = None /\ q.pc = "compare"
  BY <1>1 DEF Request
<1>5. q \in Request
  BY <1>1, <1>3 DEF Request
<1> HIDE DEF q
<1>6. RequestOK(q)
  BY <1>4 DEF RequestOK
<1>7. q.pc \in UnderLock /\ q.pc \in Working /\ request[r].pc \in Working /\ q.pc \notin {"save", "remove"}
  BY <1>1, <1>4 DEF UnderLock, Working
<1>8. Core' /\ request'[r] = q
  BY <1>1, <1>2, <1>4, <1>5, <1>6, <1>7, StoreStays, Goes
<1> QED
  BY <1>4, <1>8

LEMMA CompareStep ==
  ASSUME TypeInv, NEW r \in Requests, Compare(r), UNCHANGED <<mode, vectors>>
  PROVE  /\ Core'
         /\ \/ request'[r].kind = "sync" /\ request'[r].pc = "done" /\ job'[r] = job[r]
            \/ request'[r].pc \in {"compare", "bytes"}
<1>1. /\ request[r].pc = "compare" /\ request[r] \in Request /\ request[r].kind = "sync" /\ lock = r
      /\ request[r].todo \in SUBSET Names
  BY Known DEF Compare, RequestOK, UnderLock
<1>2. CASE Raise(r)
  BY <1>1, <1>2, Raises
<1>3. ASSUME NEW n \in request[r].todo,
             request' = [request EXCEPT ![r] = [request[r] EXCEPT !.todo = request[r].todo \ {n},
                            !.name = IF UpToDate(request[r].known, n) THEN None ELSE n,
                            !.pc = IF UpToDate(request[r].known, n) THEN "compare" ELSE "bytes"]],
             UNCHANGED <<file, index, lock, job, message>>
      PROVE  Core' /\ request'[r].pc \in {"compare", "bytes"}
  <2> DEFINE skip == UpToDate(request[r].known, n)
             q == [request[r] EXCEPT !.todo = request[r].todo \ {n}, !.name = IF skip THEN None ELSE n,
                                     !.pc = IF skip THEN "compare" ELSE "bytes"]
  <2>1. request' = [request EXCEPT ![r] = q]
    BY <1>3
  <2> HIDE DEF skip
  <2>2. /\ q.kind = "sync" /\ q.name = (IF skip THEN None ELSE n)
        /\ q.pc = (IF skip THEN "compare" ELSE "bytes")
    BY <1>1 DEF Request
  <2>3. n \in Names
    BY <1>1
  <2>4. q \in Request
    BY <1>1, <2>3 DEF Request, Maybe
  <2> HIDE DEF q
  <2>5. RequestOK(q)
    BY <2>2, <2>3 DEF RequestOK
  <2>6. q.pc \in {"compare", "bytes"}
    BY <2>2
  <2>7. q.pc \in UnderLock /\ q.pc \in Working /\ request[r].pc \in Working /\ q.pc \notin {"save", "remove"}
    BY <1>1, <2>6 DEF UnderLock, Working
  <2>8. Core' /\ request'[r] = q
    <3>1. StoreOK' /\ UNCHANGED <<mode, job, message>> /\ lock' = lock /\ index' = index
      BY <1>3, StoreStays
    <3>2. (q.pc \in UnderLock <=> lock = r) /\ q.kind = request[r].kind
      BY <1>1, <2>2, <2>7
    <3> QED
      BY <2>1, <2>4, <2>5, <2>7, <3>1, <3>2, Goes
  <2> QED
    BY <2>6, <2>8
<1> QED
  BY <1>1, <1>2, <1>3, Raises DEF Compare

\* A sync has nothing more to do than to complete its job.
LEMMA Completing ==
  ASSUME TypeInv, NEW r \in Requests, request[r].kind = "sync", request[r].pc \in UnderLock,
         Finish(r, "complete"), UNCHANGED <<mode, job, message>>, StoreOK'
  PROVE  Core' /\ request'[r].kind = "sync" /\ request'[r].pc = "complete"
<1>1. lock = r
  BY Known
<1>2. /\ RequestsOK' /\ LockOK'
      /\ request'[r].kind = "sync" /\ request'[r].pc = "complete"
      /\ \A s \in Requests \ {r} : request'[s] = request[s]
  BY <1>1, Finishes
<1>3. mode = "inline" /\ job[r] = "running"
  <2>1. request[r].pc \notin {"new", "write", "create", "publish", "unsent", "run", "done", "dead"}
    BY DEF UnderLock
  <2> QED
    BY <2>1, Known DEF JobOK
<1> DEFINE q == request'[r]
<1>4. q.kind = "sync" /\ q.pc = "complete" /\ request'[r] = q
  BY <1>2
<1> HIDE DEF q
<1>5. JobsOK'
  BY <1>2, <1>3, <1>4, JobStays
<1> QED
  BY <1>2, <1>5 DEF Core

LEMMA EndCompareStep ==
  ASSUME TypeInv, NEW r \in Requests, EndCompare(r), UNCHANGED <<mode, vectors>>
  PROVE  Core' /\ request'[r].pc \in {"load", "complete"}
<1>1. /\ request[r].pc = "compare" /\ request[r] \in Request /\ request[r].kind = "sync" /\ lock = r
      /\ request[r].name = None /\ UNCHANGED <<file, index, job, message>>
  BY Known DEF EndCompare, RequestOK, UnderLock
<1>2. CASE Finish(r, "complete")
  <2>1. request[r].pc \in UnderLock
    BY <1>1 DEF UnderLock
  <2> QED
    BY <1>1, <1>2, <2>1, StoreStays, Completing
<1>3. CASE Goto(r, "load") /\ UNCHANGED lock
  <2> DEFINE q == [request[r] EXCEPT !.pc = "load"]
  <2>1. request' = [request EXCEPT ![r] = q]
    BY <1>3, Known DEF Goto
  <2>2. q.kind = "sync" /\ q.name = None /\ q.pc = "load" /\ q \in Request
    BY <1>1 DEF Request
  <2> HIDE DEF q
  <2>3. RequestOK(q)
    BY <2>2 DEF RequestOK
  <2>4. q.pc \in UnderLock /\ q.pc \in Working /\ request[r].pc \in Working /\ q.pc \notin {"save", "remove"}
    BY <1>1, <2>2 DEF UnderLock, Working
  <2>5. Core' /\ request'[r] = q
    BY <1>1, <1>3, <2>1, <2>2, <2>3, <2>4, StoreStays, Goes
  <2> QED
    BY <2>2, <2>5
<1> QED
  BY <1>2, <1>3 DEF EndCompare

\* What the index becomes at the end of a sync and by a delete.
LEMMA RemoveChanges ==
  ASSUME TypeInv, NEW r \in Requests, request[r].pc = "remove"
  PROVE  /\ lock = r /\ request[r].loaded = index
         /\ RemoveNames(r) => /\ index' \in Seq(Entry) /\ Unique(index')
                              /\ \A e : Has(index', e) <=> Has(index, e) /\ e.name \notin Deleted(r)
         /\ RemoveDocument(r) /\ OfDocument(index, request[r].document) # <<>>
              /\ index' = WithoutDocument(index, request[r].document) =>
              /\ index' \in Seq(Entry) /\ Unique(index')
              /\ \A e : Has(index', e) <=> Has(index, e) /\ e.document # request[r].document
<1>1. lock = r /\ request[r].loaded = index /\ index \in Seq(Entry) /\ Unique(index)
  BY Known DEF UnderLock
<1>2. ASSUME RemoveNames(r)
      PROVE  /\ index' \in Seq(Entry) /\ Unique(index')
             /\ \A e : Has(index', e) <=> Has(index, e) /\ e.name \notin Deleted(r)
  <2>1. index' = Without(index, Deleted(r))
    BY <1>1, <1>2 DEF RemoveNames
  <2> QED
    BY <1>1, <2>1, OtherNames
<1>3. ASSUME index' = WithoutDocument(index, request[r].document)
      PROVE  /\ index' \in Seq(Entry) /\ Unique(index')
             /\ \A e : Has(index', e) <=> Has(index, e) /\ e.document # request[r].document
  BY <1>1, <1>3, OtherDocuments
<1> QED
  BY <1>1, <1>2, <1>3

LEMMA RemoveNamesStep ==
  ASSUME TypeInv, NEW r \in Requests, RemoveNames(r), UNCHANGED <<mode, vectors>>
  PROVE  Core' /\ request'[r].kind = "sync" /\ request'[r].pc = "complete"
<1>1. /\ request[r].pc = "remove" /\ request[r].kind = "sync" /\ Finish(r, "complete")
      /\ UNCHANGED <<file, job, message>>
  BY DEF RemoveNames
<1>2. index' \in Seq(Entry) /\ Unique(index')
  BY <1>1, RemoveChanges
<1>3. StoreOK'
  BY <1>1, <1>2 DEF TypeInv, StoreOK
<1>4. request[r].pc \in UnderLock
  BY <1>1 DEF UnderLock
<1> QED
  BY <1>1, <1>3, <1>4, Completing

LEMMA RemoveDocumentStep ==
  ASSUME TypeInv, NEW r \in Requests, RemoveDocument(r), UNCHANGED <<mode, vectors>>
  PROVE  /\ Core'
         /\ request[r].kind = "delete"
         /\ request'[r].kind = "delete"
<1> DEFINE d == request[r].document
           found == OfDocument(index, d)
<1>1. /\ request[r].pc = "remove" /\ request[r] \in Request /\ request[r].kind = "delete" /\ lock = r
      /\ d \in Documents /\ index \in Seq(Entry) /\ request[r].loaded = index
  BY Known DEF RemoveDocument, RequestOK, UnderLock
<1>2. CASE Raise(r)
  BY <1>1, <1>2, Raises
<1>3. CASE /\ found # <<>>
           /\ index' = WithoutDocument(index, d)
           /\ request' = [request EXCEPT ![r] = [@ EXCEPT !.loaded = <<>>, !.name = Head(found).name, !.pc = "unlink"]]
           /\ UNCHANGED <<file, lock, job, message>>
  <2> DEFINE first == Head(found).name
             q == [request[r] EXCEPT !.loaded = <<>>, !.name = first, !.pc = "unlink"]
  <2>1. request' = [request EXCEPT ![r] = q]
    BY <1>3
  <2>2. found \in Seq(Entry)
    BY <1>1, DocumentEntries
  <2>3. first \in Names
    <3>1. Head(found) \in Entry
      BY <1>3, <2>2
    <3> QED
      BY <3>1 DEF Entry
  <2> HIDE DEF first
  <2>4. q.kind = "delete" /\ q.name = first /\ q.pc = "unlink"
    BY <1>1 DEF Request
  <2>5. q \in Request
    <3>1. <<>> \in Seq(Entry)
      OBVIOUS
    <3> QED
      BY <1>1, <2>3, <3>1 DEF Request, Maybe
  <2> HIDE DEF q
  <2>6. RequestOK(q)
    BY <2>3, <2>4 DEF RequestOK
  <2>7. StoreOK'
    <3>1. index' \in Seq(Entry) /\ Unique(index')
      BY <1>1, <1>3, RemoveChanges
    <3> QED
      BY <1>3, <3>1 DEF TypeInv, StoreOK
  <2>8. q.pc \in UnderLock /\ q.pc \in Working /\ request[r].pc \in Working /\ q.pc \notin {"save", "remove"}
    BY <1>1, <2>4 DEF UnderLock, Working
  <2>9. Core' /\ request'[r] = q
    BY <1>1, <1>3, <2>1, <2>4, <2>5, <2>6, <2>7, <2>8, Goes
  <2> QED
    BY <1>1, <2>4, <2>9
<1> QED
  BY <1>1, <1>2, <1>3 DEF RemoveDocument

LEMMA UnlinkStep ==
  ASSUME TypeInv, NEW r \in Requests, Unlink(r), UNCHANGED <<mode, vectors>>
  PROVE  Core' /\ request'[r].kind = "delete"
<1>1. /\ request[r].pc = "unlink" /\ request[r].kind = "delete" /\ request[r].name \in Names
      /\ file' = [file EXCEPT ![request[r].name] = None] /\ UNCHANGED <<index, job, message>>
  BY Known DEF Unlink, RequestOK
<1>2. /\ RequestsOK' /\ LockOK'
      /\ request'[r].kind = "delete" /\ request'[r].pc = "done"
      /\ \A s \in Requests \ {r} : request'[s] = request[s]
  BY <1>1, Finishes DEF Unlink
<1>3. StoreOK'
  BY <1>1 DEF TypeInv, StoreOK, Maybe
<1>4. job[r] = None /\ ~message[r]
  BY <1>1, Known DEF JobOK
<1> DEFINE q == request'[r]
<1>5. q.kind = "delete" /\ q.pc = "done" /\ request'[r] = q
  BY <1>2
<1> HIDE DEF q
<1>6. JobsOK'
  BY <1>1, <1>2, <1>4, <1>5, JobStays
<1> QED
  BY <1>2, <1>3, <1>6 DEF Core

LEMMA ChunksForDocumentStep ==
  ASSUME TypeInv, NEW r \in Requests, ChunksForDocument(r), UNCHANGED <<mode, vectors>>
  PROVE  /\ Core'
         /\ \/ request'[r].kind = "upload" /\ request'[r].pc = "done" /\ job'[r] = "failed"
            \/ request'[r].pc = "embed"
<1> DEFINE found == OfDocument(index, request[r].document)
<1>1. /\ request[r].pc = "chunks" /\ request[r] \in Request /\ request[r].kind = "upload"
      /\ request[r].document \in Documents /\ index \in Seq(Entry) /\ lock # r
  BY Known DEF ChunksForDocument, RequestOK, UnderLock
<1>2. CASE Raise(r)
  BY <1>1, <1>2, Raises
<1>3. CASE /\ request' = [request EXCEPT ![r].loaded = found, ![r].pc = "embed"]
           /\ UNCHANGED <<file, index, lock, job, message>>
  <2>1. found \in Seq(Entry)
    BY <1>1, DocumentEntries
  <2> HIDE DEF found
  <2> DEFINE q == [request[r] EXCEPT !.loaded = found, !.pc = "embed"]
  <2>2. request' = [request EXCEPT ![r] = q]
    BY <1>3, Known
  <2>3. q.kind = "upload" /\ q.document \in Documents /\ q.pc = "embed"
    BY <1>1 DEF Request
  <2>4. q \in Request
    BY <1>1, <2>1 DEF Request
  <2> HIDE DEF q
  <2>5. RequestOK(q)
    BY <2>3 DEF RequestOK
  <2>6. q.pc \notin UnderLock /\ q.pc \in Working /\ request[r].pc \in Working /\ q.pc \notin {"save", "remove"}
    BY <1>1, <2>3 DEF UnderLock, Working
  <2>7. Core' /\ request'[r] = q
    <3>1. StoreOK' /\ UNCHANGED <<mode, job, message>> /\ lock' = lock /\ index' = index
      BY <1>3, StoreStays
    <3>2. (q.pc \in UnderLock <=> lock = r) /\ q.kind = request[r].kind
      BY <1>1, <2>3, <2>6
    <3> QED
      BY <2>2, <2>4, <2>5, <2>6, <3>1, <3>2, Goes
  <2> QED
    BY <2>3, <2>7
<1> QED
  BY <1>2, <1>3 DEF ChunksForDocument

LEMMA EmbedStep ==
  ASSUME TypeInv, NEW r \in Requests, Embed(r), UNCHANGED mode
  PROVE  Core' /\ request'[r].pc = "complete"
<1> DEFINE texts == {request[r].loaded[i].text : i \in DOMAIN request[r].loaded}
           q == [request[r] EXCEPT !.loaded = <<>>, !.pc = "complete"]
<1>1. /\ request[r].pc = "embed" /\ request[r] \in Request /\ request[r].kind = "upload"
      /\ request[r].document \in Documents /\ request[r].loaded \in Seq(Entry) /\ lock # r
  BY Known DEF Embed, RequestOK, UnderLock
<1>2. /\ vectors' = [vectors EXCEPT ![request[r].document] = texts]
      /\ UNCHANGED <<file, index, lock, job, message>>
  BY DEF Embed, ReplaceVectors
<1>3. request' = [request EXCEPT ![r] = q]
  BY Known DEF Embed
<1>4. texts \subseteq Contents
  <2>1. \A i \in DOMAIN request[r].loaded : request[r].loaded[i] \in Entry
    BY <1>1
  <2> QED
    BY <2>1 DEF Entry
<1> HIDE DEF texts
<1>5. q.kind = "upload" /\ q.document \in Documents /\ q.pc = "complete"
  BY <1>1 DEF Request
<1>6. q \in Request
  <2>1. <<>> \in Seq(Entry)
    OBVIOUS
  <2> QED
    BY <1>1, <2>1 DEF Request
<1> HIDE DEF q
<1>7. RequestOK(q)
  BY <1>5 DEF RequestOK
<1>8. StoreOK'
  BY <1>2, <1>4 DEF TypeInv, StoreOK
<1>9. q.pc \notin UnderLock /\ q.pc \in Working /\ request[r].pc \in Working /\ q.pc \notin {"save", "remove"}
  BY <1>1, <1>5 DEF UnderLock, Working
<1>10. Core' /\ request'[r] = q
  BY <1>1, <1>2, <1>3, <1>5, <1>6, <1>7, <1>8, <1>9, Goes
<1> QED
  BY <1>5, <1>10

LEMMA ProviderRaisesStep ==
  ASSUME TypeInv, NEW r \in Requests, ProviderRaises(r), UNCHANGED <<mode, vectors>>
  PROVE  Core' /\ request'[r].kind = "upload" /\ request'[r].pc = "done" /\ job'[r] = "failed"
<1>1. request[r].pc = "embed" /\ request[r].kind = "upload" /\ Raise(r)
  BY Known DEF ProviderRaises, RequestOK
<1> QED
  BY <1>1, Raises

LEMMA CompleteStep ==
  ASSUME TypeInv, NEW r \in Requests, Complete(r), UNCHANGED <<mode, vectors>>
  PROVE  /\ Core' /\ job'[r] = "completed"
         /\ request'[r].kind = request[r].kind /\ request'[r].pc = "done"
<1>1. /\ request[r].pc = "complete" /\ request[r].kind \in {"upload", "sync"}
      /\ job' = [job EXCEPT ![r] = "completed"] /\ UNCHANGED <<file, index, message>>
  BY Known DEF Complete, RequestOK
<1>2. /\ RequestsOK' /\ LockOK'
      /\ request'[r].kind = request[r].kind /\ request'[r].pc = "done"
      /\ \A s \in Requests \ {r} : request'[s] = request[s]
  BY <1>1, Finishes DEF Complete
<1>3. StoreOK'
  BY <1>1, StoreStays DEF Complete
<1>4. message[r] \in BOOLEAN /\ (mode = "inline" => ~message[r])
  BY Known DEF JobOK
<1>5. message' = [message EXCEPT ![r] = message[r]] /\ "completed" \in JobStatus \union {None}
  BY <1>1 DEF TypeInv, JobsOK, JobStatus
<1> DEFINE q == request'[r]
<1>6. q.kind # "delete" /\ q.pc = "done" /\ request'[r] = q
  BY <1>1, <1>2
<1> HIDE DEF q
<1>7. JobsOK' /\ job'[r] = "completed"
  <2>1. /\ ~(q.kind = "delete" \/ q.pc \in {"new", "write", "create"})
        /\ mode = "inline" => ~message[r] /\ q.pc \notin {"publish", "unsent"}
        /\ ~(q.pc \notin {"new", "write", "create", "publish", "unsent", "done", "dead"})
    BY <1>4, <1>6
  <2>2. "completed" \in JobStatus \union {None} /\ message[r] \in BOOLEAN /\ UNCHANGED mode
    BY <1>4, <1>5
  <2>3. job' = [job EXCEPT ![r] = "completed"] /\ message' = [message EXCEPT ![r] = message[r]]
    BY <1>1, <1>5
  <2>4. request'[r] = q /\ \A s \in Requests \ {r} : request'[s] = request[s]
    BY <1>2, <1>6
  <2> QED
    BY <2>1, <2>2, <2>3, <2>4, JobMoves
<1> QED
  BY <1>2, <1>3, <1>7 DEF Core

LEMMA WorkerStep ==
  ASSUME TypeInv, NEW r \in Requests, WorkerStarts(r) \/ WorkerEnds(r)
  PROVE  /\ TypeInv' /\ mode # "inline"
         /\ message'[r] \/ job'[r] \notin {"queued", "running"}
<1>1. message[r] /\ UNCHANGED <<mode, file, index, vectors, lock, request, alone>>
  BY DEF WorkerStarts, WorkerEnds
<1>2. mode # "inline" /\ request[r].kind # "delete" /\ request[r].pc \notin {"new", "write", "create"}
  BY <1>1, Known DEF JobOK
<1>3. StoreOK' /\ RequestsOK' /\ LockOK' /\ alone' \in Maybe(Requests)
  BY <1>1 DEF TypeInv, StoreOK, RequestsOK, LockOK, Locked
<1>4. job \in [Requests -> JobStatus \union {None}] /\ message \in [Requests -> BOOLEAN]
  BY DEF TypeInv, JobsOK, Maybe
<1>5. PICK status \in JobStatus \union {None}, sent \in BOOLEAN :
        /\ job' = [job EXCEPT ![r] = status] /\ message' = [message EXCEPT ![r] = sent]
        /\ sent \/ status \notin {"queued", "running"}
  <2>1. CASE WorkerStarts(r) /\ job[r] \in {"queued", "failed"} /\ job' = [job EXCEPT ![r] = "running"] /\ UNCHANGED message
    <3>1. message' = [message EXCEPT ![r] = TRUE] /\ "running" \in JobStatus
      BY <1>1, <1>4, <2>1 DEF JobStatus
    <3> QED
      BY <2>1, <3>1
  <2>2. CASE WorkerStarts(r) /\ job[r] = "completed" /\ message' = [message EXCEPT ![r] = FALSE] /\ UNCHANGED job
    <3>1. job' = [job EXCEPT ![r] = job[r]] /\ job[r] = "completed"
      BY <1>4, <2>2
    <3> QED
      BY <1>4, <2>2, <3>1
  <2>3. CASE WorkerEnds(r)
    <3>1. PICK status \in {"completed", "failed"} : job' = [job EXCEPT ![r] = status]
      BY <2>3 DEF WorkerEnds
    <3>2. message' = [message EXCEPT ![r] = FALSE] /\ status \in JobStatus
      BY <2>3 DEF WorkerEnds, JobStatus
    <3> QED
      BY <3>1, <3>2
  <2> QED
    BY <2>1, <2>2, <2>3 DEF WorkerStarts
<1>6. /\ request[r].kind = "delete" \/ request[r].pc \in {"new", "write", "create"} => FALSE
      /\ request[r].kind # "delete" /\ request[r].pc \notin {"new", "write", "create", "publish", "unsent", "done", "dead"}
            => FALSE
  BY <1>2, Known DEF JobOK
<1>7. JobsOK' /\ job'[r] = status /\ message'[r] = sent
  BY <1>1, <1>2, <1>5, <1>6, JobMoves
<1> QED
  BY <1>2, <1>3, <1>5, <1>7 DEF TypeInv

LEMMA CrashStep ==
  ASSUME TypeInv, Crash
  PROVE  /\ TypeInv' /\ alone' = None
         /\ \A r \in Requests : request'[r].pc \in {"dead", request[r].pc} /\ request'[r].kind = request[r].kind
<1>1. /\ lock' = None /\ alone' = None /\ UNCHANGED <<mode, file, index, vectors, job, message>>
      /\ request' = [r \in Requests |-> IF Over(r) THEN request[r] ELSE Bare(request[r].kind, "dead")]
  BY DEF Crash, Bare
<1>2. ASSUME NEW r \in Requests
      PROVE  /\ request'[r] \in Request /\ RequestOK(request'[r])
             /\ request'[r].kind = request[r].kind
             /\ request'[r].pc \in {"dead", request[r].pc} /\ request'[r].pc \in {"new", "done", "dead"}
             /\ request'[r].pc = "new" => request'[r] = request[r]
             /\ request'[r].pc = "new" => request[r].pc = "new"
  <2>1. CASE Over(r)
    BY <1>1, <2>1, Known DEF Over
  <2>2. CASE ~Over(r)
    <3>1. request[r].kind \in {"none", "upload", "sync", "delete"}
      BY Known
    <3>2. /\ Bare(request[r].kind, "dead") \in Request /\ RequestOK(Bare(request[r].kind, "dead"))
          /\ Bare(request[r].kind, "dead").kind = request[r].kind /\ Bare(request[r].kind, "dead").pc = "dead"
      BY <3>1, BareIsOK
    <3> QED
      BY <1>1, <2>2, <3>2
  <2> QED
    BY <2>1, <2>2
<1>3. StoreOK'
  BY <1>1, StoreStays
<1>4. RequestsOK'
  BY <1>1, <1>2 DEF RequestsOK
<1>5. LockOK'
  <2>1. \A r \in Requests : ~Locked(r)' /\ lock' # r /\ request'[r].pc \notin {"save", "remove"}
    BY <1>1, <1>2, NoneIsNothing DEF Locked
  <2> QED
    BY <1>1, <2>1 DEF LockOK, Maybe
<1>6. ASSUME NEW r \in Requests PROVE JobOK(r)'
  BY <1>1, <1>2, Known DEF JobOK
<1>7. JobsOK'
  BY <1>1, <1>6 DEF TypeInv, JobsOK
<1> QED
  BY <1>1, <1>2, <1>3, <1>4, <1>5, <1>7 DEF TypeInv, Maybe

-----------------------------------------------------------------------------
(***************************************************************************)
(* The steps together.                                                      *)
(***************************************************************************)
\* A job that is not settled is this request's.
Owned(r) ==
    job[r] \in {"queued", "running"} =>
        \/ request[r].pc # "done"
        \/ message[r]
        \/ mode = "inline" /\ request[r].kind = "sync" /\ job[r] = "running"

\* A step of one request leaves the others where they are.
LEMMA OthersStay ==
  ASSUME TypeInv, NEW r \in Requests, RequestStep(r) \/ Embed(r), NEW s \in Requests \ {r}
  PROVE  request'[s] = request[s] /\ job'[s] = job[s] /\ message'[s] = message[s]
<1>1. /\ request \in [Requests -> Request] /\ job \in [Requests -> Maybe(JobStatus)]
      /\ message \in [Requests -> BOOLEAN]
  BY DEF TypeInv, RequestsOK, JobsOK
<1> USE <1>1
<1>2. CASE Upload(r) BY <1>2 DEF Upload
<1>3. CASE Write(r) BY <1>3 DEF Write
<1>4. CASE BeginSync(r) BY <1>4 DEF BeginSync
<1>5. CASE BeginDelete(r) BY <1>5 DEF BeginDelete
<1>6. CASE Create(r) BY <1>6 DEF Create, Goto
<1>7. CASE Publish(r) BY <1>7 DEF Publish, Finish
<1>8. CASE PublishFails(r) BY <1>8 DEF PublishFails, Goto
<1>9. CASE FailUnsent(r) BY <1>9 DEF FailUnsent, Finish
<1>10. CASE Run(r) BY <1>10 DEF Run, Goto
<1>11. CASE Lock(r) BY <1>11 DEF Lock, Goto
<1>12. CASE ReadBytes(r) BY <1>12 DEF ReadBytes, Raise, Finish
<1>13. CASE ReadText(r) BY <1>13 DEF ReadText, Raise, Finish
<1>14. CASE Load(r) BY <1>14 DEF Load
<1>15. CASE Save(r) BY <1>15 DEF Save
<1>16. CASE List(r) BY <1>16 DEF List
<1>17. CASE Compare(r) BY <1>17 DEF Compare, Raise, Finish
<1>18. CASE EndCompare(r) BY <1>18 DEF EndCompare, Goto, Finish
<1>19. CASE RemoveNames(r) BY <1>19 DEF RemoveNames, Finish
<1>20. CASE RemoveDocument(r) BY <1>20 DEF RemoveDocument, Raise, Finish
<1>21. CASE Unlink(r) BY <1>21 DEF Unlink, Finish
<1>22. CASE ChunksForDocument(r) BY <1>22 DEF ChunksForDocument, Raise, Finish
<1>23. CASE ProviderRaises(r) BY <1>23 DEF ProviderRaises, Raise, Finish
<1>24. CASE Complete(r) BY <1>24 DEF Complete, Finish
<1>25. CASE Embed(r) BY <1>25 DEF Embed
<1> QED
  BY <1>2, <1>3, <1>4, <1>5, <1>6, <1>7, <1>8, <1>9, <1>10, <1>11, <1>12, <1>13, <1>14, <1>15,
     <1>16, <1>17, <1>18, <1>19, <1>20, <1>21, <1>22, <1>23, <1>24, <1>25 DEF RequestStep

\* An inline sync whose job runs, or a delete, may stop: its job is settled or its own.
LEMMA Stops ==
  ASSUME TypeInv, NEW r \in Requests, request[r].pc \in Working, Core', UNCHANGED mode,
         request'[r].kind = request[r].kind, job'[r] = (IF request[r].kind = "upload" THEN "failed" ELSE job[r])
  PROVE  Owned(r)'
<1>1. request[r].pc \notin {"new", "write", "create", "publish", "unsent", "run", "done", "dead"}
  BY DEF Working, UnderLock
<1>2. CASE request[r].kind = "delete"
  <2>1. job'[r] = None
    BY <1>2, Known DEF JobOK
  <2> QED
    BY <1>2, <2>1, NoneIsNothing DEF Owned
<1>3. CASE request[r].kind = "upload"
  BY <1>3 DEF Owned
<1>4. CASE request[r].kind \notin {"upload", "delete"}
  <2>1. mode = "inline" /\ job[r] = "running" /\ request[r].kind \in {"none", "sync"}
    BY <1>1, <1>4, Known DEF JobOK
  <2>2. request[r].kind = "sync"
    BY <1>4, Known DEF RequestOK, Working, UnderLock
  <2> QED
    BY <2>1, <2>2 DEF Owned
<1> QED
  BY <1>2, <1>3, <1>4

LEMMA RequestSteps ==
  ASSUME TypeInv, NEW r \in Requests, (RequestStep(r) /\ UNCHANGED vectors) \/ Embed(r), UNCHANGED mode
  PROVE  Core' /\ Owned(r)'
<1>1. CASE Upload(r) /\ UNCHANGED vectors
  <2>1. request'[r].pc = "write"
    BY <1>1, Known DEF Upload, Fresh
  <2> QED
    BY <1>1, <2>1, UploadStep DEF Owned
<1>2. CASE Write(r) /\ UNCHANGED vectors
  <2>1. request'[r].pc = "create"
    BY <1>2, Known DEF Write, Request
  <2> QED
    BY <1>2, <2>1, WriteStep DEF Owned
<1>3. CASE BeginSync(r) /\ UNCHANGED vectors
  <2>1. request'[r].pc = "create"
    BY <1>3, Known DEF BeginSync, Fresh
  <2> QED
    BY <1>3, <2>1, BeginSyncStep DEF Owned
<1>4. CASE BeginDelete(r) /\ UNCHANGED vectors
  <2>1. request'[r].pc = "lock"
    BY <1>4, Known DEF BeginDelete, Fresh
  <2> QED
    BY <1>4, <2>1, BeginDeleteStep DEF Owned
<1>5. CASE Create(r) /\ UNCHANGED vectors
  BY <1>5, CreateStep DEF Owned
<1>6. CASE Publish(r) /\ UNCHANGED vectors
  BY <1>6, PublishStep DEF Owned
<1>7. CASE PublishFails(r) /\ UNCHANGED vectors
  BY <1>7, PublishFailsStep DEF Owned
<1>8. CASE FailUnsent(r) /\ UNCHANGED vectors
  BY <1>8, FailUnsentStep DEF Owned
<1>9. CASE Run(r) /\ UNCHANGED vectors
  BY <1>9, RunStep DEF Owned
<1>10. CASE Lock(r) /\ UNCHANGED vectors
  BY <1>10, LockStep DEF Owned
<1>11. CASE ReadBytes(r) /\ UNCHANGED vectors
  <2>1. request[r].pc \in Working
    BY <1>11 DEF ReadBytes, Working, UnderLock
  <2> QED
    BY <1>11, <2>1, ReadBytesStep, Stops DEF Owned
<1>12. CASE ReadText(r) /\ UNCHANGED vectors
  <2>1. request[r].pc \in Working
    BY <1>12 DEF ReadText, Working, UnderLock
  <2> QED
    BY <1>12, <2>1, ReadTextStep, Stops DEF Owned
<1>13. CASE Load(r) /\ UNCHANGED vectors
  BY <1>13, LoadStep DEF Owned
<1>14. CASE Save(r) /\ UNCHANGED vectors
  BY <1>14, SaveStep DEF Owned
<1>15. CASE List(r) /\ UNCHANGED vectors
  BY <1>15, ListStep DEF Owned
<1>16. CASE Compare(r) /\ UNCHANGED vectors
  <2>1. request[r].pc \in Working /\ request[r].kind = "sync"
    BY <1>16, Known DEF Compare, Working, UnderLock, RequestOK
  <2> QED
    BY <1>16, <2>1, CompareStep, Stops DEF Owned
<1>17. CASE EndCompare(r) /\ UNCHANGED vectors
  BY <1>17, EndCompareStep DEF Owned
<1>18. CASE RemoveNames(r) /\ UNCHANGED vectors
  BY <1>18, RemoveNamesStep DEF Owned
<1>19. CASE (RemoveDocument(r) \/ Unlink(r)) /\ UNCHANGED vectors
  <2>1. Core' /\ request'[r].kind = "delete"
    BY <1>19, RemoveDocumentStep, UnlinkStep
  <2>2. JobOK(r)'
    BY <2>1 DEF Core, JobsOK
  <2>3. job'[r] = None
    BY <2>1, <2>2 DEF JobOK
  <2>4. request[r].pc \in Working /\ request[r].kind = "delete"
    BY <1>19, Known DEF RemoveDocument, Unlink, Working, UnderLock, RequestOK
  <2>5. job[r] = None
    BY <2>4, Known DEF JobOK
  <2> QED
    BY <2>1, <2>3, <2>4, <2>5, Stops
<1>20. CASE ChunksForDocument(r) /\ UNCHANGED vectors
  BY <1>20, ChunksForDocumentStep DEF Owned
<1>21. CASE ProviderRaises(r) /\ UNCHANGED vectors
  BY <1>21, ProviderRaisesStep DEF Owned
<1>22. CASE Complete(r) /\ UNCHANGED vectors
  BY <1>22, CompleteStep DEF Owned
<1>23. CASE Embed(r)
  BY <1>23, EmbedStep DEF Owned
<1> QED
  BY <1>1, <1>2, <1>3, <1>4, <1>5, <1>6, <1>7, <1>8, <1>9, <1>10, <1>11, <1>12, <1>13, <1>14,
     <1>15, <1>16, <1>17, <1>18, <1>19, <1>20, <1>21, <1>22, <1>23 DEF RequestStep

LEMMA InitOwned == Init => OwnedInv
<1> SUFFICES ASSUME Init PROVE OwnedInv
  OBVIOUS
<1>1. /\ request = [r \in Requests |-> Fresh] /\ job = [r \in Requests |-> None]
      /\ message = [r \in Requests |-> FALSE] /\ lock = None /\ alone = None
      /\ file = [n \in Names |-> None] /\ index = <<>> /\ vectors = [d \in Documents |-> {}]
      /\ mode \in {"inline", "queue"}
  BY DEF Init
<1>2. StoreOK
  BY <1>1 DEF StoreOK, Unique, Maybe
<1>3. Fresh \in Request /\ RequestOK(Fresh) /\ Fresh.pc = "new"
  <2>1. Fresh \in Request /\ Fresh.pc = "new"
    BY DEF Fresh, Request, Maybe
  <2> QED
    BY <2>1 DEF RequestOK, Fresh
<1>4. RequestsOK
  BY <1>1, <1>3 DEF RequestsOK
<1>5. LockOK
  BY <1>1, <1>3, NoneIsNothing DEF LockOK, Locked, Maybe
<1>6. JobsOK
  BY <1>1, <1>3 DEF JobsOK, JobOK, Maybe
<1>7. UnfinishedIsOwned
  BY <1>1, <1>3, NoneIsNothing DEF UnfinishedIsOwned
<1> QED
  BY <1>1, <1>2, <1>4, <1>5, <1>6, <1>7 DEF OwnedInv, TypeInv, Maybe

LEMMA NextOwned == OwnedInv /\ [Next]_vars => OwnedInv'
<1> SUFFICES ASSUME OwnedInv, [Next]_vars PROVE OwnedInv'
  OBVIOUS
<1>1. TypeInv /\ \A r \in Requests : Owned(r)
  BY DEF OwnedInv, UnfinishedIsOwned, Owned
<1>2. ASSUME NEW r \in Requests, (RequestStep(r) /\ UNCHANGED vectors) \/ Embed(r),
             alone' = NowAlone(r), UNCHANGED mode
      PROVE  OwnedInv'
  <2>1. Core' /\ Owned(r)'
    BY <1>1, <1>2, RequestSteps
  <2>2. ASSUME NEW s \in Requests \ {r} PROVE Owned(s)'
    <3>1. request'[s] = request[s] /\ job'[s] = job[s] /\ message'[s] = message[s]
      BY <1>1, <1>2, OthersStay
    <3> QED
      BY <1>1, <1>2, <3>1 DEF Owned
  <2>3. alone' \in Maybe(Requests)
    BY <1>2 DEF NowAlone, Maybe
  <2> QED
    BY <2>1, <2>2, <2>3 DEF OwnedInv, TypeInv, Core, UnfinishedIsOwned, Owned
<1>3. ASSUME NEW r \in Requests, WorkerStarts(r) \/ WorkerEnds(r)
      PROVE  OwnedInv'
  <2>1. TypeInv' /\ (message'[r] \/ job'[r] \notin {"queued", "running"})
    BY <1>1, <1>3, WorkerStep
  <2>2. ASSUME NEW s \in Requests \ {r} PROVE Owned(s)'
    <3>1. request' = request /\ mode' = mode
      BY <1>3 DEF WorkerStarts, WorkerEnds
    <3>2. job \in [Requests -> Maybe(JobStatus)] /\ message \in [Requests -> BOOLEAN]
      BY <1>1 DEF TypeInv, JobsOK
    <3>3. job'[s] = job[s] /\ message'[s] = message[s]
      BY <1>3, <3>2 DEF WorkerStarts, WorkerEnds
    <3> QED
      BY <1>1, <3>1, <3>3 DEF Owned
  <2> QED
    BY <2>1, <2>2 DEF OwnedInv, UnfinishedIsOwned, Owned
<1>4. CASE Crash
  <2>1. /\ TypeInv'
        /\ \A r \in Requests : request'[r].pc \in {"dead", request[r].pc} /\ request'[r].kind = request[r].kind
    BY <1>1, <1>4, CrashStep
  <2>2. UNCHANGED <<job, message, mode>>
    BY <1>4 DEF Crash
  <2>3. \A r \in Requests : Owned(r)'
    BY <1>1, <2>1, <2>2 DEF Owned
  <2> QED
    BY <2>1, <2>3 DEF OwnedInv, UnfinishedIsOwned, Owned
<1>5. CASE UNCHANGED vars
  <2>1. TypeInv'
    BY <1>1, <1>5 DEF vars, TypeInv, StoreOK, RequestsOK, LockOK, JobsOK, JobOK, Locked
  <2>2. UnfinishedIsOwned'
    BY <1>5 DEF vars, OwnedInv, UnfinishedIsOwned
  <2> QED
    BY <2>1, <2>2 DEF OwnedInv
<1> QED
  BY <1>2, <1>3, <1>4, <1>5 DEF Next

\* Types, who holds the lock, what each request knows of the index and which of
\* its jobs runs, and whose an unfinished job is.
THEOREM Invariance == Spec => []OwnedInv
  BY InitOwned, NextOwned, PTL DEF Spec

\* Every state of the store is of its types: two entries of the index never have
\* the same name, and the lock has its holder.
THEOREM TypeCorrect == Spec => []TypeOK
<1>1. OwnedInv => TypeOK
  BY DEF OwnedInv, TypeInv, StoreOK, Unique, RequestsOK, LockOK, JobsOK, TypeOK
<1> QED
  BY <1>1, Invariance, PTL

\* A queued or running job is somebody's: its request's, a message's or an
\* inline sync's that raised.
THEOREM UnfinishedAreOwned == Spec => []UnfinishedIsOwned
<1>1. OwnedInv => UnfinishedIsOwned
  BY DEF OwnedInv
<1> QED
  BY <1>1, Invariance, PTL

\* An entry leaves the index only by the delete of its document or by a sync
\* that found no file of its name: the read, the change and the write of
\* index.json lie under one lock, so no update is lost to another.
THEOREM EntriesLeave == Spec => EntriesLeaveByRequest
<1> DEFINE Leave(i) ==
      index[i].name \notin NamesOf(index') =>
        \E r \in Requests :
            /\ request[r].pc = "remove"
            /\ \/ request[r].kind = "delete" /\ request[r].document = index[i].document
               \/ request[r].kind = "sync" /\ index[i].name \notin request[r].listed
<1>1. ASSUME OwnedInv, [Next]_vars PROVE \A i \in DOMAIN index : Leave(i)
  <2> SUFFICES ASSUME NEW i \in DOMAIN index, index[i].name \notin NamesOf(index')
               PROVE  \E r \in Requests :
                        /\ request[r].pc = "remove"
                        /\ \/ request[r].kind = "delete" /\ request[r].document = index[i].document
                           \/ request[r].kind = "sync" /\ index[i].name \notin request[r].listed
    OBVIOUS
  <2>1. TypeInv /\ ~Has(index', index[i]) /\ Has(index, index[i])
    BY <1>1 DEF OwnedInv, NamesOf, Has
  <2>2. ASSUME index' = index PROVE FALSE
    BY <2>1, <2>2
  <2>3. ASSUME NEW r \in Requests, Save(r) PROVE FALSE
    <3> DEFINE entry == [name |-> request[r].name, document |-> request[r].document, text |-> request[r].text]
    <3>1. index[i].name # request[r].name => Has(index', index[i])
      BY <2>1, <2>3, SaveChanges
    <3>2. Has(index', entry) /\ entry.name = request[r].name
      BY <2>1, <2>3, SaveChanges
    <3>3. index[i].name = request[r].name
      BY <2>1, <3>1
    <3>4. request[r].name \in NamesOf(index')
      BY <3>2 DEF Has, NamesOf
    <3> QED
      BY <3>3, <3>4
  <2>4. ASSUME NEW r \in Requests, RemoveNames(r)
        PROVE  request[r].pc = "remove" /\ request[r].kind = "sync" /\ index[i].name \notin request[r].listed
    <3>1. request[r].pc = "remove" /\ request[r].kind = "sync"
      BY <2>4 DEF RemoveNames
    <3>2. index[i].name \in Deleted(r)
      BY <2>1, <2>4, <3>1, RemoveChanges
    <3> QED
      BY <3>1, <3>2 DEF Deleted
  <2>5. ASSUME NEW r \in Requests, RemoveDocument(r)
        PROVE  request[r].pc = "remove" /\ request[r].kind = "delete" /\ request[r].document = index[i].document
    <3>1. request[r].pc = "remove" /\ request[r].kind = "delete" /\ request[r].loaded = index
      BY <2>1, <2>5, Known DEF RemoveDocument
    <3>2. ~Raise(r)
      BY <2>2 DEF Raise
    <3>3. /\ OfDocument(index, request[r].document) # <<>>
          /\ index' = WithoutDocument(index, request[r].document)
      BY <2>5, <3>1, <3>2 DEF RemoveDocument
    <3> QED
      BY <2>1, <2>5, <3>1, <3>3, RemoveChanges
  <2>6. ASSUME NEW r \in Requests, RequestStep(r) \/ Embed(r)
        PROVE  index' = index \/ Save(r) \/ RemoveNames(r) \/ RemoveDocument(r)
    BY <2>6 DEF RequestStep, Upload, Write, BeginSync, BeginDelete, Create, Publish, PublishFails, FailUnsent,
       Run, Lock, ReadBytes, ReadText, Load, List, Compare, EndCompare, Unlink, ChunksForDocument,
       ProviderRaises, Complete, Embed, Raise
  <2>7. ASSUME NEW r \in Requests, WorkerStarts(r) \/ WorkerEnds(r) PROVE index' = index
    BY <2>7 DEF WorkerStarts, WorkerEnds
  <2>8. ASSUME Crash PROVE index' = index
    BY <2>8 DEF Crash
  <2>9. ASSUME UNCHANGED vars PROVE index' = index
    BY <2>9 DEF vars
  <2> QED
    BY <1>1, <2>2, <2>3, <2>4, <2>5, <2>6, <2>7, <2>8, <2>9 DEF Next
<1>2. OwnedInv /\ [Next]_vars => [\A i \in DOMAIN index : Leave(i)]_vars
  BY <1>1
<1> QED
  BY <1>2, Invariance, PTL DEF Spec, EntriesLeaveByRequest

-----------------------------------------------------------------------------
(***************************************************************************)
(* A request that has the store to itself.                                  *)
(***************************************************************************)
\* SyncAlone and AllAgree, in terms of what lists have.
LEMMA SyncMeans ==
  ASSUME NEW q, NEW entries, NEW files
  PROVE  SyncAlone(q, entries, files) <=>
    /\ q.listed = {n \in Names : files[n] # None}
    /\ q.todo \subseteq q.listed
    /\ \A e : Has(entries, e) => e.name \in NamesOf(q.known) \union q.listed
    /\ \A n \in q.todo : \A d : Holds(q.known, n, d) => Holds(entries, n, d)
    /\ \A n \in q.listed \ (q.todo \union {q.name}) : Holds(entries, n, files[n])
    /\ q.name # None => q.name \in q.listed \ q.todo
    /\ q.name # None /\ q.pc \in {"text", "load", "save"} => q.document = files[q.name]
    /\ q.name = None => q.pc \in {"compare", "load", "remove"}
    /\ q.pc = "remove" => q.name = None
    /\ q.name = None /\ q.pc \in {"load", "remove"} => q.todo = {}
<1>1. (\A i \in DOMAIN entries : entries[i].name \in NamesOf(q.known) \union q.listed)
        <=> \A e : Has(entries, e) => e.name \in NamesOf(q.known) \union q.listed
  BY DEF Has
<1>2. ASSUME NEW n \in q.todo
      PROVE  (\A i \in DOMAIN q.known : q.known[i].name = n =>
                \E j \in DOMAIN entries : entries[j].name = n /\ entries[j].document = q.known[i].document)
             <=> \A d : Holds(q.known, n, d) => Holds(entries, n, d)
  BY DEF Holds, Has
<1>3. ASSUME NEW n
      PROVE  (\E i \in DOMAIN entries : entries[i].name = n /\ entries[i].document = files[n])
             <=> Holds(entries, n, files[n])
  BY DEF Holds, Has
<1> QED
  BY <1>1, <1>2, <1>3 DEF SyncAlone

LEMMA AgreeMeans ==
  ASSUME NEW entries, NEW files
  PROVE  AllAgree(entries, files) <=>
           \A n \in Names : IF files[n] = None THEN \A e : Has(entries, e) => e.name # n
                            ELSE Holds(entries, n, files[n])
  BY DEF AllAgree, Holds, Has, NamesOf

\* A job that runs is not completed.
LEMMA StillRuns ==
  ASSUME TypeInv, NEW r \in Requests, request[r].kind = "sync", request[r].pc \in Working, Raise(r)
  PROVE  Course(r)'
<1>1. request[r].pc \notin {"new", "write", "create", "publish", "unsent", "run", "done", "dead"}
  BY DEF Working, UnderLock
<1>2. job[r] = "running"
  BY <1>1, Known DEF JobOK
<1>3. request'[r].kind = "sync" /\ request'[r].pc = "done"
  BY Known DEF Raise, Finish, Fresh
<1>4. job'[r] = "running"
  BY <1>2 DEF Raise, TypeInv, JobsOK
<1> QED
  BY <1>3, <1>4 DEF Course

LEMMA UploadStops ==
  ASSUME TypeInv, NEW r \in Requests, request[r].kind = "upload", Raise(r)
  PROVE  Course(r)'
<1>1. request'[r].kind = "upload" /\ request'[r].pc = "done"
  BY Known DEF Raise, Finish, Fresh
<1> QED
  BY <1>1 DEF Course

LEMMA AloneList ==
  ASSUME TypeInv, NEW r \in Requests, List(r)
  PROVE  Course(r)'
<1> PICK q : q = request'[r]
  OBVIOUS
<1> DEFINE names == {n \in Names : file[n] # None}
<1>1. request[r].pc = "list" /\ request[r].kind = "sync" /\ request[r].name = None /\ request[r] \in Request
  BY Known DEF List, RequestOK
<1>2. /\ q.kind = "sync" /\ q.pc = "compare" /\ q.name = None /\ q.known = index
      /\ q.listed = names /\ q.todo = names /\ index' = index /\ file' = file
  BY <1>1, Known DEF List, Request
<1>3. \A e : Has(index, e) => e.name \in NamesOf(q.known)
  BY <1>2 DEF Has, NamesOf
<1>4. SyncAlone(q, index, file)
  BY <1>2, <1>3, SyncMeans
<1> QED
  BY <1>2, <1>4 DEF Course

LEMMA AloneReadBytes ==
  ASSUME TypeInv, NEW r \in Requests, ReadBytes(r),
         request[r].kind = "sync" => Course(r)
  PROVE  Course(r)'
<1>1. /\ request[r].pc = "bytes" /\ request[r] \in Request
      /\ request[r].kind \in {"upload", "sync"} /\ request[r].name \in Names
  BY Known DEF ReadBytes, RequestOK
<1>2. CASE Raise(r)
  <2>1. request[r].pc \in Working
    BY <1>1 DEF Working, UnderLock
  <2> QED
    BY <1>1, <1>2, <2>1, StillRuns, UploadStops
<1>3. CASE /\ request' = [request EXCEPT ![r].document = file[request[r].name], ![r].pc = "text"]
           /\ UNCHANGED <<file, index, lock, job, message>>
  <2> PICK q : q = request'[r]
    OBVIOUS
  <2>1. /\ q.kind = request[r].kind /\ q.pc = "text" /\ q.name = request[r].name
        /\ q.document = file[request[r].name]
        /\ q.known = request[r].known /\ q.listed = request[r].listed /\ q.todo = request[r].todo
    BY <1>1, <1>3, Known DEF Request
  <2>2. CASE request[r].kind = "upload"
    BY <2>1, <2>2 DEF Course
  <2>3. CASE request[r].kind = "sync"
    <3>1. SyncAlone(request[r], index, file)
      BY <1>1, <2>3 DEF Course
    <3>2. SyncAlone(q, index, file)
      BY <1>1, <2>1, <3>1, NoneIsNothing, SyncMeans
    <3> QED
      BY <1>3, <2>1, <2>3, <3>2 DEF Course
  <2> QED
    BY <1>1, <2>2, <2>3
<1> QED
  BY <1>2, <1>3 DEF ReadBytes

LEMMA AloneReadText ==
  ASSUME TypeInv, NEW r \in Requests, ReadText(r), Course(r)
  PROVE  Course(r)'
<1>1. /\ request[r].pc = "text" /\ request[r] \in Request
      /\ request[r].kind \in {"upload", "sync"} /\ request[r].name \in Names
  BY Known DEF ReadText, RequestOK
<1>2. CASE Raise(r)
  <2>1. request[r].pc \in Working
    BY <1>1 DEF Working, UnderLock
  <2> QED
    BY <1>1, <1>2, <2>1, StillRuns, UploadStops
<1>3. CASE /\ request' = [request EXCEPT ![r].text = file[request[r].name], ![r].pc = "load"]
           /\ UNCHANGED <<file, index, lock, job, message>>
  <2> PICK q : q = request'[r]
    OBVIOUS
  <2>1. /\ q.kind = request[r].kind /\ q.pc = "load" /\ q.name = request[r].name
        /\ q.document = request[r].document
        /\ q.known = request[r].known /\ q.listed = request[r].listed /\ q.todo = request[r].todo
    BY <1>1, <1>3, Known DEF Request
  <2>2. CASE request[r].kind = "upload"
    BY <2>1, <2>2 DEF Course
  <2>3. CASE request[r].kind = "sync"
    <3>1. SyncAlone(request[r], index, file)
      BY <1>1, <2>3 DEF Course
    <3>2. SyncAlone(q, index, file)
      BY <1>1, <2>1, <3>1, NoneIsNothing, SyncMeans
    <3> QED
      BY <1>3, <2>1, <2>3, <3>2 DEF Course
  <2> QED
    BY <1>1, <2>2, <2>3
<1> QED
  BY <1>2, <1>3 DEF ReadText

LEMMA AloneLoad ==
  ASSUME TypeInv, NEW r \in Requests, Load(r), Course(r)
  PROVE  Course(r)'
<1>1. /\ request[r].pc = "load" /\ request[r] \in Request /\ UNCHANGED <<file, index, lock, job, message>>
      /\ request[r].kind = "upload" => request[r].name # None
  BY Known, NoneIsNothing DEF Load, RequestOK
<1> PICK q : q = request'[r]
  OBVIOUS
<1>2. /\ q.kind = request[r].kind /\ q.name = request[r].name /\ q.document = request[r].document
      /\ q.known = request[r].known /\ q.listed = request[r].listed /\ q.todo = request[r].todo
      /\ q.pc = (IF request[r].name = None THEN "remove" ELSE "save")
  BY <1>1, Known DEF Load, Request
<1>3. CASE request[r].kind = "upload"
  BY <1>1, <1>2, <1>3 DEF Course
<1>4. CASE request[r].kind = "sync"
  <2>1. SyncAlone(request[r], index, file)
    BY <1>1, <1>4 DEF Course
  <2>2. SyncAlone(q, index, file)
    BY <1>1, <1>2, <2>1, SyncMeans
  <2> QED
    BY <1>1, <1>2, <1>4, <2>2 DEF Course
<1> QED
  BY <1>3, <1>4 DEF Course

LEMMA AloneSave ==
  ASSUME TypeInv, NEW r \in Requests, Save(r), Course(r)
  PROVE  Course(r)'
<1> PICK q : q = request'[r]
  OBVIOUS
<1> DEFINE n == request[r].name
           entry == [name |-> n, document |-> request[r].document, text |-> request[r].text]
<1>1. /\ request[r].kind \in {"upload", "sync"} /\ n \in Names
      /\ \A e : Has(index', e) <=> e = entry \/ (Has(index, e) /\ e.name # n)
  BY SaveChanges
<1>2. /\ request[r].pc = "save" /\ request[r] \in Request /\ file' = file
      /\ q.kind = request[r].kind /\ q.name = None
      /\ q.known = request[r].known /\ q.listed = request[r].listed /\ q.todo = request[r].todo
      /\ q.pc = (IF request[r].kind = "upload" THEN "chunks" ELSE "compare")
  BY Known DEF Save, Request
<1>3. CASE request[r].kind = "upload"
  BY <1>2, <1>3 DEF Course
<1>4. CASE request[r].kind = "sync"
  <2> PICK after : after = index'
    OBVIOUS
  <2>1. SyncAlone(request[r], index, file)
    BY <1>2, <1>4 DEF Course
  <2>2. entry.name = n /\ entry.document = file[n] /\ n \in q.listed \ q.todo
    BY <1>1, <1>2, <2>1, NoneIsNothing, SyncMeans
  <2>3. \A e : Has(after, e) => e.name \in NamesOf(q.known) \union q.listed
    BY <1>1, <1>2, <2>1, <2>2, SyncMeans
  <2>4. \A m \in Names \ {n} : \A d : Holds(index, m, d) => Holds(after, m, d)
    BY <1>1 DEF Holds
  <2>5. Holds(after, n, file[n])
    BY <1>1, <2>2 DEF Holds
  <2>6. q.todo \subseteq Names /\ q.listed \subseteq Names
    BY <1>2 DEF Request
  <2>7. ASSUME NEW m \in q.todo, NEW d, Holds(q.known, m, d) PROVE Holds(after, m, d)
    <3>1. m \in Names \ {n}
      BY <2>2, <2>6
    <3>2. Holds(index, m, d)
      BY <1>2, <2>1, <2>7, SyncMeans
    <3> QED
      BY <2>4, <3>1, <3>2
  <2>8. ASSUME NEW m \in q.listed \ (q.todo \union {q.name}) PROVE Holds(after, m, file[m])
    <3>1. CASE m = n
      BY <2>5, <3>1
    <3>2. CASE m # n
      <4>1. Holds(index, m, file[m])
        BY <1>2, <2>1, <3>2, SyncMeans
      <4> QED
        BY <2>4, <2>6, <3>2, <4>1
    <3> QED
      BY <3>1, <3>2
  <2>9. q.pc = "compare" /\ q.kind = "sync"
    BY <1>2, <1>4
  <2>10. q.listed = {m \in Names : file[m] # None} /\ q.todo \subseteq q.listed
    BY <1>2, <2>1, SyncMeans
  <2>11. SyncAlone(q, after, file)
    BY <1>2, <2>3, <2>7, <2>8, <2>9, <2>10, SyncMeans
  <2> QED
    BY <1>2, <2>9, <2>11 DEF Course
<1> QED
  BY <1>1, <1>3, <1>4

LEMMA AloneCompare ==
  ASSUME TypeInv, NEW r \in Requests, Compare(r), Course(r)
  PROVE  Course(r)'
<1>1. /\ request[r].pc = "compare" /\ request[r] \in Request /\ request[r].kind = "sync"
      /\ request[r].name = None
  BY Known DEF Compare, RequestOK
<1>2. CASE Raise(r)
  <2>1. request[r].pc \in Working
    BY <1>1 DEF Working, UnderLock
  <2> QED
    BY <1>1, <1>2, <2>1, StillRuns
<1>3. ASSUME NEW n \in request[r].todo,
             request' = [request EXCEPT ![r] = [request[r] EXCEPT !.todo = request[r].todo \ {n},
                            !.name = IF UpToDate(request[r].known, n) THEN None ELSE n,
                            !.pc = IF UpToDate(request[r].known, n) THEN "compare" ELSE "bytes"]],
             UNCHANGED <<file, index, lock, job, message>>
      PROVE  Course(r)'
  <2> PICK q : q = request'[r]
    OBVIOUS
  <2> PICK skip : skip = UpToDate(request[r].known, n)
    OBVIOUS
  <2>1. /\ q.kind = "sync" /\ q.name = (IF skip THEN None ELSE n)
        /\ q.pc = (IF skip THEN "compare" ELSE "bytes") /\ q.todo = request[r].todo \ {n}
        /\ q.known = request[r].known /\ q.listed = request[r].listed
    BY <1>1, <1>3, Known DEF Request
  <2>2. SyncAlone(request[r], index, file)
    BY <1>1 DEF Course
  <2>3. n \in request[r].listed /\ n \in Names /\ n # None
    BY <1>1, <2>2, NoneIsNothing, SyncMeans DEF Request
  <2>4. skip => Holds(index, n, file[n])
    <3>1. skip => Holds(request[r].known, n, file[n])
      BY DEF UpToDate, Holds, Has
    <3> QED
      BY <2>2, <3>1, SyncMeans
  <2>5. ASSUME NEW m \in q.listed \ (q.todo \union {q.name}) PROVE Holds(index, m, file[m])
    <3>1. CASE m = n
      <4>1. skip
        BY <2>1, <2>5, <3>1
      <4> QED
        BY <2>4, <3>1, <4>1
    <3>2. CASE m # n
      <4>1. m # None
        BY <1>1, <2>1, <2>5, NoneIsNothing DEF Request
      <4>2. m \in request[r].listed \ (request[r].todo \union {request[r].name})
        BY <1>1, <2>1, <2>5, <3>2, <4>1
      <4> QED
        BY <2>2, <4>2, SyncMeans
    <3> QED
      BY <3>1, <3>2
  <2>6. /\ q.listed = {m \in Names : file[m] # None} /\ q.todo \subseteq q.listed
        /\ \A e : Has(index, e) => e.name \in NamesOf(q.known) \union q.listed
        /\ \A m \in q.todo : \A d : Holds(q.known, m, d) => Holds(index, m, d)
    BY <2>1, <2>2, SyncMeans
  <2>7. /\ q.name # None => q.name \in q.listed \ q.todo
        /\ q.pc \in {"compare", "bytes"} /\ (q.name = None => q.pc = "compare")
    BY <2>1, <2>3
  <2>8. SyncAlone(q, index, file)
    BY <2>5, <2>6, <2>7, SyncMeans
  <2> QED
    BY <1>3, <2>1, <2>7, <2>8 DEF Course
<1> QED
  BY <1>2, <1>3 DEF Compare

LEMMA AloneEndCompare ==
  ASSUME TypeInv, NEW r \in Requests, EndCompare(r), Course(r)
  PROVE  Course(r)'
<1>1. /\ request[r].pc = "compare" /\ request[r] \in Request /\ request[r].kind = "sync"
      /\ request[r].name = None /\ request[r].todo = {} /\ UNCHANGED <<file, index, job, message>>
  BY Known DEF EndCompare, RequestOK
<1>2. SyncAlone(request[r], index, file)
  BY <1>1 DEF Course
<1> PICK q : q = request'[r]
  OBVIOUS
<1>3. CASE Goto(r, "load")
  <2>1. /\ q.kind = "sync" /\ q.pc = "load" /\ q.name = None /\ q.todo = {}
        /\ q.known = request[r].known /\ q.listed = request[r].listed
    BY <1>1, <1>3, Known DEF Goto, Request
  <2>2. SyncAlone(q, index, file)
    BY <1>1, <1>2, <2>1, SyncMeans
  <2> QED
    BY <1>1, <2>1, <2>2 DEF Course
<1>4. CASE Deleted(r) = {} /\ Finish(r, "complete")
  <2>1. q.kind = "sync" /\ q.pc = "complete"
    BY <1>1, <1>4, Known DEF Finish, Fresh
  <2>2. \A e : Has(index, e) => e.name \in request[r].listed
    BY <1>2, <1>4, SyncMeans DEF Deleted
  <2>3. \A n \in request[r].listed : Holds(index, n, file[n])
    <3>1. \A n \in request[r].listed : n \notin request[r].todo \union {request[r].name}
      BY <1>1, NoneIsNothing DEF Request
    <3> QED
      BY <1>2, <3>1, SyncMeans
  <2>4. request[r].listed = {n \in Names : file[n] # None}
    BY <1>2, SyncMeans
  <2>5. AllAgree(index, file)
    BY <2>2, <2>3, <2>4, AgreeMeans
  <2> QED
    BY <1>1, <2>1, <2>5 DEF Course
<1> QED
  BY <1>3, <1>4 DEF EndCompare

LEMMA AloneRemoveNames ==
  ASSUME TypeInv, NEW r \in Requests, RemoveNames(r), Course(r)
  PROVE  Course(r)'
<1>1. /\ request[r].pc = "remove" /\ request[r].kind = "sync" /\ request[r] \in Request
      /\ UNCHANGED <<file, job, message>>
  BY Known DEF RemoveNames
<1>2. SyncAlone(request[r], index, file)
  BY <1>1 DEF Course
<1> PICK q, after : q = request'[r] /\ after = index'
  OBVIOUS
<1>3. q.kind = "sync" /\ q.pc = "complete"
  BY <1>1, Known DEF RemoveNames, Finish, Fresh
<1>4. \A e : Has(after, e) <=> Has(index, e) /\ e.name \notin Deleted(r)
  BY <1>1, RemoveChanges
<1>5. \A e : Has(after, e) => e.name \in request[r].listed
  BY <1>2, <1>4, SyncMeans DEF Deleted
<1>6. \A n \in request[r].listed : Holds(after, n, file[n])
  <2> SUFFICES ASSUME NEW n \in request[r].listed PROVE Holds(after, n, file[n])
    OBVIOUS
  <2>1. request[r].name = None /\ request[r].todo = {}
    BY <1>1, <1>2, SyncMeans
  <2>2. n # None
    BY <1>1, NoneIsNothing DEF Request
  <2>3. Holds(index, n, file[n])
    BY <1>2, <2>1, <2>2, SyncMeans
  <2>4. n \notin Deleted(r)
    BY DEF Deleted
  <2> QED
    BY <1>4, <2>3, <2>4 DEF Holds
<1>7. request[r].listed = {n \in Names : file[n] # None}
  BY <1>2, SyncMeans
<1>8. AllAgree(after, file)
  BY <1>5, <1>6, <1>7, AgreeMeans
<1> QED
  BY <1>1, <1>3, <1>8 DEF Course

LEMMA AloneChunksForDocument ==
  ASSUME TypeInv, NEW r \in Requests, ChunksForDocument(r), Course(r)
  PROVE  Course(r)'
<1>1. request[r].pc = "chunks" /\ request[r] \in Request /\ request[r].kind = "upload"
  BY Known DEF ChunksForDocument, RequestOK
<1>2. CASE Raise(r)
  BY <1>1, <1>2, UploadStops
<1>3. CASE /\ request' = [request EXCEPT ![r].loaded = OfDocument(index, request[r].document), ![r].pc = "embed"]
           /\ UNCHANGED <<file, index, lock, job, message>>
  <2> PICK q, found : q = request'[r] /\ found = OfDocument(index, request[r].document)
    OBVIOUS
  <2>1. /\ q.kind = "upload" /\ q.pc = "embed" /\ q.loaded = found /\ q.document = request[r].document
    BY <1>1, <1>3, Known DEF Request
  <2> QED
    BY <1>3, <2>1 DEF Course
<1> QED
  BY <1>2, <1>3 DEF ChunksForDocument

\* What embed_document puts into the file of vectors are the texts the document has.
LEMMA AloneEmbed ==
  ASSUME TypeInv, NEW r \in Requests, Embed(r), Course(r)
  PROVE  Course(r)'
<1>1. /\ request[r].pc = "embed" /\ request[r] \in Request /\ request[r].kind = "upload"
      /\ request[r].document \in Documents /\ index \in Seq(Entry) /\ UNCHANGED index
  BY Known DEF Embed, RequestOK
<1> DEFINE d == request[r].document
           loaded == request[r].loaded
           texts == {loaded[i].text : i \in DOMAIN loaded}
<1>2. loaded = OfDocument(index, d)
  BY <1>1 DEF Course
<1>3. \A e : Has(loaded, e) <=> Has(index, e) /\ e.document = d
  BY <1>1, <1>2, DocumentEntries
<1>4. texts = TextsOf(index, d)
  <2>1. \A t : t \in texts <=> \E e : Has(loaded, e) /\ t = e.text
    BY DEF Has
  <2>2. \A t : t \in TextsOf(index, d) <=> \E e : Has(index, e) /\ e.document = d /\ t = e.text
    BY DEF Has, TextsOf
  <2> HIDE DEF texts, loaded, d
  <2>3. \A t : t \in texts <=> t \in TextsOf(index, d)
    BY <1>3, <2>1, <2>2
  <2> QED
    BY <2>3
<1>5. vectors' = [vectors EXCEPT ![d] = texts]
  BY DEF Embed, ReplaceVectors
<1>6. vectors'[d] = TextsOf(index, d)
  BY <1>1, <1>4, <1>5 DEF TypeInv, StoreOK
<1>7. request'[r].kind = "upload" /\ request'[r].pc = "complete" /\ request'[r].document = d
  BY <1>1, Known DEF Embed, Request
<1> QED
  BY <1>1, <1>6, <1>7 DEF Course

LEMMA AloneComplete ==
  ASSUME TypeInv, NEW r \in Requests, Complete(r), Course(r)
  PROVE  Course(r)'
<1>1. request[r].pc = "complete" /\ UNCHANGED <<file, index>>
  BY DEF Complete
<1>2. request'[r].kind = request[r].kind /\ request'[r].pc = "done"
  BY Known DEF Complete, Finish, Fresh
<1>3. request[r].kind = "sync" => AllAgree(index, file)
  BY <1>1 DEF Course
<1> QED
  BY <1>1, <1>2, <1>3 DEF Course

\* The request that was alone goes on as one that is alone.
LEMMA AloneStep ==
  ASSUME TypeInv, mode = "inline", NEW r \in Requests,
         (RequestStep(r) /\ UNCHANGED vectors) \/ Embed(r), UNCHANGED mode,
         alone = r => Course(r), NowAlone(r) = r
  PROVE  Course(r)'
<1>1. CASE request[r].pc = "list"
  <2>1. List(r)
    BY <1>1 DEF RequestStep, Upload, Write, BeginSync, BeginDelete, Create, Publish, PublishFails,
       FailUnsent, Run, Lock, ReadBytes, ReadText, Load, Save, Compare, EndCompare, RemoveNames,
       RemoveDocument, Unlink, ChunksForDocument, ProviderRaises, Complete, Embed
  <2> QED
    BY <2>1, AloneList
<1>2. CASE request[r].pc = "bytes" /\ request[r].kind = "upload"
  <2>1. ReadBytes(r)
    BY <1>2 DEF RequestStep, Upload, Write, BeginSync, BeginDelete, Create, Publish, PublishFails,
       FailUnsent, Run, Lock, List, ReadText, Load, Save, Compare, EndCompare, RemoveNames,
       RemoveDocument, Unlink, ChunksForDocument, ProviderRaises, Complete, Embed
  <2> QED
    BY <1>2, <2>1, AloneReadBytes
<1>3. CASE ~(request[r].pc = "list" \/ (request[r].pc = "bytes" /\ request[r].kind = "upload"))
  <2>1. Course(r)
    BY <1>3, NoneIsNothing DEF NowAlone
  <2>2. /\ request[r].kind \in {"sync", "upload"}
        /\ request[r].pc \in {"compare", "bytes", "text", "load", "save", "remove", "chunks", "embed", "complete", "done"}
    BY <2>1 DEF Course
  <2>3. \/ ReadBytes(r) \/ ReadText(r) \/ Load(r) \/ Save(r) \/ Compare(r) \/ EndCompare(r)
        \/ RemoveNames(r) \/ ChunksForDocument(r) \/ Embed(r) \/ ProviderRaises(r) \/ Complete(r)
    BY <1>3, <2>2 DEF RequestStep, Upload, Write, BeginSync, BeginDelete, Create, Publish, PublishFails,
       FailUnsent, Run, Lock, List, RemoveDocument, Unlink
  <2>4. ProviderRaises(r) => Course(r)'
    <3>1. ProviderRaises(r) => request[r].kind = "upload" /\ Raise(r)
      BY Known DEF ProviderRaises, RequestOK
    <3> QED
      BY <3>1, UploadStops
  <2> QED
    BY <2>1, <2>3, <2>4, AloneReadBytes, AloneReadText, AloneLoad, AloneSave, AloneCompare, AloneEndCompare,
       AloneRemoveNames, AloneChunksForDocument, AloneEmbed, AloneComplete
<1> QED
  BY <1>1, <1>2, <1>3

LEMMA NextAlone == AloneInv /\ OwnedInv' /\ [Next]_vars => AloneInv'
<1> SUFFICES ASSUME AloneInv, OwnedInv', [Next]_vars PROVE AloneInv'
  OBVIOUS
<1>1. TypeInv /\ TypeInv'
  BY DEF AloneInv, OwnedInv
<1> SUFFICES ASSUME mode' = "inline", NEW r \in Requests, alone' = r PROVE AloneOK(r)'
  BY <1>1 DEF AloneInv
<1>2. ASSUME NEW s \in Requests, (RequestStep(s) /\ UNCHANGED vectors) \/ Embed(s),
             alone' = NowAlone(s), UNCHANGED mode
      PROVE  AloneOK(r)'
  <2>1. s = r
    BY <1>2, NoneIsNothing DEF NowAlone
  <2>2. alone = r => AloneOK(r)
    BY <1>2 DEF AloneInv
  <2>3. \A o \in Requests \ {r} : Over(o)
    BY <1>2, <2>1, <2>2, NoneIsNothing DEF NowAlone, AloneOK
  <2>4. \A o \in Requests \ {r} : Over(o)'
    BY <1>1, <1>2, <2>1, <2>3, OthersStay DEF Over
  <2>5. alone = r => Course(r)
    BY <2>2 DEF AloneOK
  <2>6. Course(r)'
    BY <1>1, <1>2, <2>1, <2>5, AloneStep
  <2> QED
    BY <2>4, <2>6 DEF AloneOK
<1>3. ASSUME NEW s \in Requests, WorkerStarts(s) \/ WorkerEnds(s)
      PROVE  AloneOK(r)'
  <2>1. mode # "inline" /\ mode' = mode
    BY <1>1, <1>3, WorkerStep DEF WorkerStarts, WorkerEnds
  <2> QED
    BY <2>1
<1>4. CASE Crash
  BY <1>1, <1>4, CrashStep, NoneIsNothing
<1>5. CASE UNCHANGED vars
  <2>1. AloneOK(r)
    BY <1>5 DEF vars, AloneInv
  <2> QED
    BY <1>5, <2>1 DEF vars, AloneOK, Course, Over
<1> QED
  BY <1>2, <1>3, <1>4, <1>5 DEF Next

LEMMA InitAlone == Init => AloneInv
  BY InitOwned, NoneIsNothing DEF Init, OwnedInv, AloneInv

\* The invariant about the request that has the store to itself.
THEOREM AloneInvariance == Spec => []AloneInv
  BY InitAlone, NextAlone, Invariance, PTL DEF Spec

\* Inline, a completed sync that had the store to itself leaves index and
\* directory in agreement, and an upload that had it the vectors of its document
\* and its chunks.
THEOREM AloneRequestsAgree == Spec => []AloneAgrees
<1>1. AloneInv => AloneAgrees
  BY DEF AloneInv, AloneAgrees, AloneOK, Course, AllAgree, TextsOf
<1> QED
  BY <1>1, AloneInvariance, PTL
-----------------------------------------------------------------------------
(***************************************************************************)
(* How a text is cut into chunks. Induction over the text goes by least     *)
(* elements: sets of positions have one, by the library's WFMin.            *)
(***************************************************************************)
\* A set of numbers that is not empty has a least one.
LEMMA LeastNat ==
  ASSUME NEW T, T \subseteq Nat, T # {}
  PROVE  \E n \in T : \A m \in T : n <= m
<1> DEFINE R == OpToRel(<, Nat)
<1>1. IsWellFoundedOn(R, Nat)
  BY NatLessThanWellFounded
<1>2. \A x, y \in Nat : x < y => <<x, y>> \in R
  BY DEF OpToRel
<1> HIDE DEF R
<1>3. PICK n \in T : \A m \in T : ~(<<m, n>> \in R)
  BY <1>1, WFMin
<1>4. ASSUME NEW m \in T PROVE n <= m
  <2>1. n \in Nat /\ m \in Nat
    BY <1>3
  <2>2. ~(m < n)
    BY <1>2, <1>3, <2>1, Zenon
  <2> QED
    BY <2>1, <2>2
<1> QED
  BY <1>3, <1>4

\* A set of positions that is not empty has a least and a greatest one.
LEMMA MinIs ==
  ASSUME NEW S, S \subseteq Nat, S # {}
  PROVE  Min(S) \in S /\ \A y \in S : Min(S) <= y
<1>1. \E x \in S : \A y \in S : x =< y
  BY LeastNat
<1> QED
  BY <1>1, Zenon DEF Min

LEMMA MaxIs ==
  ASSUME NEW b \in Nat, NEW S, S \subseteq 0..b, S # {}
  PROVE  Max(S) \in S /\ \A y \in S : y <= Max(S)
<1> DEFINE T == {b - y : y \in S}
<1>1. T \subseteq Nat /\ T # {}
  <2>1. \A y \in S : b - y \in Nat
    OBVIOUS
  <2> QED
    BY <2>1, Zenon
<1>2. PICK n \in T : \A m \in T : n <= m
  BY <1>1, LeastNat
<1>3. PICK x \in S : n = b - x
  BY <1>2
<1>4. \A y \in S : b - y \in T
  OBVIOUS
<1> HIDE DEF T
<1>5. \A y \in S : x >= y
  <2> SUFFICES ASSUME NEW y \in S PROVE x >= y
    OBVIOUS
  <2>1. n <= b - y
    BY <1>2, <1>4
  <2> QED
    BY <1>3, <2>1
<1>6. \E z \in S : \A y \in S : z >= y
  BY <1>5
<1>7. Max(S) \in S /\ \A y \in S : Max(S) >= y
  BY <1>6, Zenon DEF Max
<1> QED
  BY <1>7

\* A chunk ends behind its first character, at the size at most.
LEMMA ChunkEndIs ==
  ASSUME NEW blank, IsText(blank), NEW size \in Nat \ {0}, NEW start \in 0..(Length(blank) - 1)
  PROVE  /\ ChunkEnd(blank, size, start) \in (start + 1)..Length(blank)
         /\ ChunkEnd(blank, size, start) <= start + size
<1> DEFINE L == Length(blank)
           end == Min({start + size, L})
           boundaries == {i \in (start + size \div 2)..(end - 1) : blank[i] /\ i > start}
<1>1. L \in Nat \ {0} /\ start \in Nat /\ size \div 2 \in Nat
  BY DEF IsText
<1>2. end \in {start + size, L} /\ end <= start + size /\ end <= L
  <2>1. {start + size, L} \subseteq Nat /\ {start + size, L} # {}
    BY <1>1
  <2> HIDE DEF L
  <2> QED
    BY <2>1, MinIs
<1>3. ChunkEnd(blank, size, start) = IF end < L /\ boundaries # {} THEN Max(boundaries) ELSE end
  BY DEF ChunkEnd
<1> HIDE DEF end, L
<1>4. end \in Nat /\ end > start
  BY <1>1, <1>2 DEF L
<1>5. CASE end < L /\ boundaries # {}
  <2>1. boundaries \subseteq 0..end
    BY <1>1, <1>4
  <2>2. Max(boundaries) \in boundaries
    BY <1>4, <1>5, <2>1, MaxIs
  <2> QED
    BY <1>1, <1>2, <1>3, <1>4, <1>5, <2>2 DEF L
<1>6. CASE ~(end < L /\ boundaries # {})
  BY <1>1, <1>2, <1>3, <1>4, <1>6 DEF L
<1> QED
  BY <1>5, <1>6

\* The next chunk starts behind this start, and no later than this chunk ends.
LEMMA NextStartIs ==
  ASSUME NEW start \in Nat, NEW end \in Nat, start < end, NEW overlap \in Nat
  PROVE  NextStart(start, end, overlap) \in (start + 1)..end
<1> DEFINE S == {end - overlap, start + 1}
<1>1. \E x \in S : \A y \in S : x >= y
  OBVIOUS
<1>2. Max(S) \in S /\ \A y \in S : Max(S) >= y
  BY <1>1, Zenon DEF Max
<1> QED
  BY <1>2 DEF NextStart

\* What is left of a stretch of text: nothing if it is blank, or what lies
\* between its first and its last character.
LEMMA StripIs ==
  ASSUME NEW blank, NEW start \in Nat, NEW end \in Nat
  PROVE  \/ /\ Strip(blank, start, end) = <<>>
            /\ \A k \in start..(end - 1) : blank[k]
         \/ \E a, b \in start..(end - 1) :
               /\ Strip(blank, start, end) = <<a..b>>
               /\ a <= b /\ ~blank[a]
               /\ \A k \in start..(end - 1) : ~blank[k] => k \in a..b
<1> DEFINE text == {i \in start..(end - 1) : ~blank[i]}
<1>1. Strip(blank, start, end) = IF text = {} THEN <<>> ELSE <<Min(text)..Max(text)>>
  BY DEF Strip
<1>2. CASE text = {}
  BY <1>1, <1>2
<1>3. CASE text # {}
  <2>1. text \subseteq Nat /\ text \subseteq 0..end
    OBVIOUS
  <2>2. Min(text) \in text /\ \A y \in text : Min(text) <= y
    BY <1>3, <2>1, MinIs
  <2>3. Max(text) \in text /\ \A y \in text : y <= Max(text)
    BY <1>3, <2>1, MaxIs
  <2> DEFINE a == Min(text)
             b == Max(text)
  <2>4. a \in start..(end - 1) /\ b \in start..(end - 1) /\ a <= b /\ ~blank[a]
    BY <2>2, <2>3
  <2>5. \A k \in start..(end - 1) : ~blank[k] => k \in a..b
    <3> SUFFICES ASSUME NEW k \in start..(end - 1), ~blank[k] PROVE k \in a..b
      OBVIOUS
    <3>1. k \in text
      OBVIOUS
    <3>2. a <= k /\ k <= b
      BY <2>2, <2>3, <3>1
    <3> QED
      BY <2>4, <3>2
  <2>6. Strip(blank, start, end) = <<a..b>>
    BY <1>1, <1>3
  <2> HIDE DEF a, b
  <2> QED
    BY <2>4, <2>5, <2>6
<1> QED
  BY <1>2, <1>3

\* What split_text yields from start on, if f is what it yields later.
From(blank, size, overlap, f, start) ==
    IF start >= Length(blank) THEN <<>>
    ELSE LET end == ChunkEnd(blank, size, start)
             rest == IF end >= Length(blank) THEN <<>> ELSE f[NextStart(start, end, overlap)]
         IN  Strip(blank, start, end) \o rest

LEMMA FromIsLater ==
  ASSUME NEW blank, IsText(blank), NEW size \in Nat \ {0}, NEW overlap \in Nat,
         NEW start \in 0..Length(blank), NEW f, NEW g, \A s \in (start + 1)..Length(blank) : f[s] = g[s]
  PROVE  From(blank, size, overlap, f, start) = From(blank, size, overlap, g, start)
<1>1. Length(blank) \in Nat
  BY DEF IsText
<1>2. CASE start >= Length(blank)
  BY <1>2 DEF From
<1>3. CASE start < Length(blank)
  <2> DEFINE end == ChunkEnd(blank, size, start)
  <2>1. end \in (start + 1)..Length(blank)
    BY <1>1, <1>3, ChunkEndIs
  <2>2. NextStart(start, end, overlap) \in (start + 1)..end
    <3>1. start \in Nat /\ end \in Nat /\ start < end
      BY <1>1, <2>1
    <3> HIDE DEF end
    <3> QED
      BY <3>1, NextStartIs
  <2>3. f[NextStart(start, end, overlap)] = g[NextStart(start, end, overlap)]
    BY <1>1, <2>1, <2>2
  <2> QED
    BY <2>3 DEF From
<1> QED
  BY <1>1, <1>2, <1>3

\* Splitting ends: there is a function as its recursion describes.
LEMMA SplitExists ==
  ASSUME NEW blank, IsText(blank), NEW size \in Nat \ {0}, NEW overlap \in Nat
  PROVE  \E f : f = [start \in 0..Length(blank) |-> From(blank, size, overlap, f, start)]
<1> DEFINE L == Length(blank)
           Some(n) == \E f : f = [start \in n..L |-> From(blank, size, overlap, f, start)]
           T == {n \in 0..L : Some(n)}
<1>1. L \in Nat
  BY DEF IsText
<1>2. L \in T
  <2> DEFINE f == [start \in L..L |-> <<>>]
  <2>1. \A start \in L..L : From(blank, size, overlap, f, start) = <<>>
    BY <1>1 DEF From
  <2>2. f = [start \in L..L |-> From(blank, size, overlap, f, start)]
    BY <2>1
  <2>3. Some(L)
    BY <2>2
  <2>4. L \in 0..L
    BY <1>1
  <2> QED
    BY <2>3, <2>4, Zenon
<1>3. ASSUME NEW n \in T, n # 0 PROVE n - 1 \in T
  <2>1. n \in 1..L /\ n - 1 \in 0..L
    BY <1>1, <1>3
  <2>2. PICK f : f = [start \in n..L |-> From(blank, size, overlap, f, start)]
    BY <1>3
  <2> DEFINE g == [start \in (n - 1)..L |-> IF start = n - 1 THEN From(blank, size, overlap, f, n - 1) ELSE f[start]]
  <2>3. \A s \in n..L : g[s] = f[s]
    BY <1>1, <2>1
  <2>4. ASSUME NEW start \in (n - 1)..L
        PROVE  From(blank, size, overlap, g, start) = From(blank, size, overlap, f, start)
    <3>1. start \in 0..L /\ \A s \in (start + 1)..L : s \in n..L
      BY <1>1, <2>1
    <3>2. \A s \in (start + 1)..Length(blank) : g[s] = f[s]
      BY <2>3, <3>1
    <3> HIDE DEF g
    <3> QED
      BY <3>1, <3>2, FromIsLater
  <2>5. \A start \in (n - 1)..L : g[start] = From(blank, size, overlap, g, start)
    <3> SUFFICES ASSUME NEW start \in (n - 1)..L PROVE g[start] = From(blank, size, overlap, g, start)
      OBVIOUS
    <3>1. CASE start = n - 1
      BY <2>4, <3>1
    <3>2. CASE start # n - 1
      <4>1. start \in n..L
        BY <1>1, <2>1, <3>2
      <4>2. f[start] = From(blank, size, overlap, f, start)
        BY <2>2, <4>1
      <4> QED
        BY <2>3, <2>4, <4>1, <4>2
    <3> QED
      BY <3>1, <3>2
  <2>6. g = [start \in (n - 1)..L |-> From(blank, size, overlap, g, start)]
    BY <2>5
  <2> QED
    BY <2>1, <2>6
<1>4. T \subseteq Nat /\ T # {}
  <2>1. T \subseteq 0..L
    BY Zenon
  <2> HIDE DEF T
  <2> QED
    BY <1>1, <1>2, <2>1
<1>5. PICK n \in T : \A m \in T : n <= m
  BY <1>4, LeastNat
<1>6. n = 0
  <2> SUFFICES ASSUME n # 0 PROVE FALSE
    OBVIOUS
  <2>1. n - 1 \in T
    BY <1>5, <1>3
  <2>2. n <= n - 1 /\ n \in Nat
    BY <1>4, <1>5, <2>1
  <2> QED
    BY <2>2
<1> QED
  BY <1>5, <1>6

LEMMA SplitTextIs ==
  ASSUME NEW blank, IsText(blank), NEW size \in Nat \ {0}, NEW overlap \in Nat
  PROVE  \E f : /\ f = [start \in 0..Length(blank) |-> From(blank, size, overlap, f, start)]
                /\ SplitText(blank, size, overlap) = f[0]
<1> DEFINE Is(f) == f = [start \in 0..Length(blank) |-> From(blank, size, overlap, f, start)]
           split == CHOOSE f : Is(f)
<1>1. Is(split)
  BY SplitExists, Zenon
<1>2. SplitText(blank, size, overlap) = split[0]
  BY Zenon DEF SplitText, From
<1> QED
  BY <1>1, <1>2

\* An interval of a text that begins with a character and fits into a chunk.
Piece(blank, size, start, span) ==
    \E a, b \in start..(Length(blank) - 1) : span = a..b /\ a <= b /\ b - a < size /\ ~blank[a]

\* Chunks of a text from start on: in order, and every character is in one.
Covers(blank, size, start, spans) ==
    /\ spans \in Seq(SUBSET Nat)
    /\ \A j \in DOMAIN spans : Piece(blank, size, start, spans[j])
    /\ \A k \in start..(Length(blank) - 1) : blank[k] \/ \E j \in DOMAIN spans : k \in spans[j]
    /\ \A j \in DOMAIN spans \ {1} : \E k \in spans[j - 1] : \A m \in spans[j] : k <= m

LEMMA CoversMore ==
  ASSUME NEW blank, IsText(blank), NEW size \in Nat \ {0}, NEW start \in 0..(Length(blank) - 1),
         NEW end \in (start + 1)..Length(blank), end <= start + size,
         NEW next \in (start + 1)..end, NEW rest, Covers(blank, size, next, rest)
  PROVE  Covers(blank, size, start, Strip(blank, start, end) \o rest)
<1>1. Length(blank) \in Nat /\ start \in Nat /\ end \in Nat /\ next \in Nat
  BY DEF IsText
<1>2. rest \in Seq(SUBSET Nat) /\ DOMAIN rest = 1..Len(rest) /\ Len(rest) \in Nat
  BY DEF Covers
<1>3. \A j \in DOMAIN rest : Piece(blank, size, start, rest[j])
  <2> SUFFICES ASSUME NEW j \in DOMAIN rest PROVE Piece(blank, size, start, rest[j])
    OBVIOUS
  <2>1. PICK a \in next..(Length(blank) - 1), b \in next..(Length(blank) - 1) :
           rest[j] = a..b /\ a <= b /\ b - a < size /\ ~blank[a]
    BY DEF Covers, Piece
  <2>2. a \in start..(Length(blank) - 1) /\ b \in start..(Length(blank) - 1)
    BY <1>1
  <2> QED
    BY <2>1, <2>2 DEF Piece
<1>4. \A k \in next..(Length(blank) - 1) : blank[k] \/ \E j \in DOMAIN rest : k \in rest[j]
  BY DEF Covers
<1>5. ASSUME Strip(blank, start, end) = <<>>, \A k \in start..(end - 1) : blank[k]
      PROVE  Covers(blank, size, start, Strip(blank, start, end) \o rest)
  <2>1. Strip(blank, start, end) \o rest = rest
    BY <1>2, <1>5
  <2>2. \A k \in start..(Length(blank) - 1) : blank[k] \/ \E j \in DOMAIN rest : k \in rest[j]
    <3> SUFFICES ASSUME NEW k \in start..(Length(blank) - 1) PROVE blank[k] \/ \E j \in DOMAIN rest : k \in rest[j]
      OBVIOUS
    <3>1. k \in start..(end - 1) \/ k \in next..(Length(blank) - 1)
      BY <1>1
    <3> QED
      BY <1>4, <1>5, <3>1
  <2> QED
    BY <1>2, <1>3, <2>1, <2>2 DEF Covers
<1>6. ASSUME NEW a \in start..(end - 1), NEW b \in start..(end - 1), Strip(blank, start, end) = <<a..b>>,
             a <= b, ~blank[a], \A k \in start..(end - 1) : ~blank[k] => k \in a..b
      PROVE  Covers(blank, size, start, Strip(blank, start, end) \o rest)
  <2> DEFINE spans == <<a..b>> \o rest
  <2>1. a \in Nat /\ b \in Nat /\ a..b \in SUBSET Nat
    BY <1>1
  <2>2. /\ spans \in Seq(SUBSET Nat) /\ DOMAIN spans = 1..(Len(rest) + 1)
        /\ spans[1] = a..b /\ \A j \in DOMAIN rest : spans[j + 1] = rest[j]
    BY <1>2, <2>1
  <2> HIDE DEF spans
  <2>3. \A j \in DOMAIN spans \ {1} : j - 1 \in DOMAIN rest /\ spans[j] = rest[j - 1]
    <3> SUFFICES ASSUME NEW j \in DOMAIN spans \ {1} PROVE j - 1 \in DOMAIN rest /\ spans[j] = rest[j - 1]
      OBVIOUS
    <3>1. j - 1 \in DOMAIN rest /\ (j - 1) + 1 = j
      BY <1>2, <2>2
    <3> QED
      BY <2>2, <3>1
  <2>4. Piece(blank, size, start, a..b)
    <3>1. a \in start..(Length(blank) - 1) /\ b \in start..(Length(blank) - 1) /\ b - a < size
      BY <1>1
    <3> QED
      BY <1>6, <3>1 DEF Piece
  <2>5. \A j \in DOMAIN spans : Piece(blank, size, start, spans[j])
    BY <1>3, <2>2, <2>3, <2>4
  <2>6. ASSUME NEW k \in start..(Length(blank) - 1), ~blank[k] PROVE \E j \in DOMAIN spans : k \in spans[j]
    <3>1. CASE k \in start..(end - 1)
      <4>1. 1 \in DOMAIN spans /\ k \in spans[1]
        BY <1>2, <1>6, <2>2, <2>6, <3>1
      <4> QED
        BY <4>1
    <3>2. CASE k \in next..(Length(blank) - 1)
      <4>1. PICK j \in DOMAIN rest : k \in rest[j]
        BY <1>4, <2>6, <3>2
      <4>2. j + 1 \in DOMAIN spans /\ spans[j + 1] = rest[j]
        BY <1>2, <2>2
      <4> QED
        BY <4>1, <4>2
    <3>3. k \in start..(end - 1) \/ k \in next..(Length(blank) - 1)
      BY <1>1
    <3> QED
      BY <3>1, <3>2, <3>3
  <2>7. ASSUME NEW j \in DOMAIN spans \ {1} PROVE \E k \in spans[j - 1] : \A m \in spans[j] : k <= m
    <3>1. j - 1 \in DOMAIN rest /\ spans[j] = rest[j - 1]
      BY <2>3
    <3>2. CASE j = 2
      <4>1. PICK c \in next..(Length(blank) - 1), d \in next..(Length(blank) - 1) : rest[1] = c..d /\ ~blank[c]
        BY <3>1, <3>2 DEF Covers, Piece
      <4>2. a <= c
        <5>1. CASE c <= end - 1
          <6>1. c \in start..(end - 1)
            BY <1>1, <5>1
          <6>2. c \in a..b
            BY <1>6, <4>1, <6>1
          <6> QED
            BY <6>2
        <5>2. CASE c > end - 1
          BY <1>1, <5>2
        <5> QED
          BY <1>1, <5>1, <5>2
      <4>3. a \in spans[1] /\ spans[j - 1] = spans[1] /\ spans[j] = c..d
        BY <1>6, <2>1, <2>2, <3>1, <3>2, <4>1
      <4>4. \A m \in spans[j] : a <= m
        BY <1>1, <2>1, <4>2, <4>3
      <4> QED
        BY <4>3, <4>4
    <3>3. CASE j # 2
      <4>1. j - 1 \in DOMAIN spans \ {1} /\ j - 1 \in DOMAIN rest \ {1}
        BY <1>2, <2>2, <3>1, <3>3
      <4>2. spans[j - 1] = rest[(j - 1) - 1]
        BY <2>3, <4>1
      <4>3. \E k \in rest[(j - 1) - 1] : \A m \in rest[j - 1] : k <= m
        BY <4>1 DEF Covers
      <4> QED
        BY <3>1, <4>2, <4>3
    <3> QED
      BY <3>2, <3>3
  <2>8. Covers(blank, size, start, spans)
    BY <2>2, <2>5, <2>6, <2>7 DEF Covers
  <2> QED
    BY <1>6, <2>8 DEF spans
<1> QED
  BY <1>1, <1>5, <1>6, StripIs

\* From every start on split_text yields chunks of the text that is left.
LEMMA SplitCovers ==
  ASSUME NEW blank, IsText(blank), NEW size \in Nat \ {0}, NEW overlap \in Nat
  PROVE  Covers(blank, size, 0, SplitText(blank, size, overlap))
<1> DEFINE L == Length(blank)
<1>1. L \in Nat \ {0}
  BY DEF IsText
<1>2. PICK f : /\ f = [start \in 0..L |-> From(blank, size, overlap, f, start)]
               /\ SplitText(blank, size, overlap) = f[0]
  BY SplitTextIs
<1> DEFINE Good(n) == \A s \in n..L : Covers(blank, size, s, f[s])
           T == {n \in 0..L : Good(n)}
<1>3. ASSUME NEW start \in 0..L, \A s \in (start + 1)..L : Covers(blank, size, s, f[s])
      PROVE  Covers(blank, size, start, f[start])
  <2>1. f[start] = From(blank, size, overlap, f, start)
    BY <1>2
  <2>2. CASE start = L
    <3>1. f[start] = <<>>
      BY <1>1, <2>1, <2>2 DEF From
    <3>2. start..(L - 1) = {}
      BY <1>1, <2>2
    <3> HIDE DEF L
    <3> QED
      BY <3>1, <3>2 DEF Covers, L
  <2>3. CASE start # L
    <3> DEFINE end == ChunkEnd(blank, size, start)
               next == NextStart(start, end, overlap)
    <3>1. start \in 0..(L - 1) /\ ~(start >= L)
      BY <1>1, <2>3
    <3>2. end \in (start + 1)..L /\ end <= start + size
      BY <3>1, ChunkEndIs
    <3>3. CASE end >= L
      <4>1. Covers(blank, size, end, <<>>)
        <5>1. end..(L - 1) = {}
          BY <1>1, <3>2, <3>3
        <5> HIDE DEF end
        <5> QED
          BY <5>1 DEF Covers
      <4>2. f[start] = Strip(blank, start, end) \o <<>>
        BY <2>1, <3>1, <3>3 DEF From
      <4>3. end \in (start + 1)..end
        BY <1>1, <3>1, <3>2
      <4> HIDE DEF end
      <4> QED
        BY <3>1, <3>2, <4>1, <4>2, <4>3, CoversMore
    <3>4. CASE ~(end >= L)
      <4>1. f[start] = Strip(blank, start, end) \o f[next]
        BY <2>1, <3>1, <3>4 DEF From
      <4>2. start \in Nat /\ end \in Nat /\ start < end
        BY <1>1, <3>1, <3>2
      <4> HIDE DEF end
      <4>3. next \in (start + 1)..end
        BY <4>2, NextStartIs
      <4> HIDE DEF next
      <4>4. next \in (start + 1)..L
        BY <1>1, <3>1, <3>2, <4>3
      <4>5. Covers(blank, size, next, f[next])
        BY <1>3, <4>4
      <4> QED
        BY <3>1, <3>2, <4>1, <4>3, <4>5, CoversMore
    <3> QED
      BY <3>3, <3>4
  <2> QED
    BY <2>2, <2>3
<1>4. Good(L)
  <2> SUFFICES ASSUME NEW s \in L..L PROVE Covers(blank, size, s, f[s])
    OBVIOUS
  <2>1. s \in 0..L /\ (s + 1)..L = {}
    BY <1>1
  <2> QED
    BY <1>3, <2>1
<1>5. ASSUME NEW n \in 1..L, Good(n) PROVE Good(n - 1)
  <2> SUFFICES ASSUME NEW s \in (n - 1)..L PROVE Covers(blank, size, s, f[s])
    OBVIOUS
  <2>1. CASE s \in n..L
    BY <1>5, <2>1
  <2>2. CASE s = n - 1
    <3>1. s \in 0..L /\ \A t \in (s + 1)..L : t \in n..L
      BY <1>1, <2>2
    <3> QED
      BY <1>3, <1>5, <3>1
  <2> QED
    BY <1>1, <2>1, <2>2
<1> HIDE DEF Good
<1>6. PICK n \in T : \A m \in T : n <= m
  <2>1. L \in 0..L
    BY <1>1
  <2>2. T \subseteq Nat /\ T # {}
    BY <1>1, <1>4, <2>1
  <2> QED
    BY <2>2, LeastNat
<1>7. n = 0
  <2> SUFFICES ASSUME n # 0 PROVE FALSE
    OBVIOUS
  <2>1. n \in 1..L /\ n - 1 \in 0..L /\ Good(n)
    BY <1>1, <1>6
  <2>2. n - 1 \in T
    BY <1>5, <2>1
  <2> QED
    BY <1>6, <2>1, <2>2
<1>8. Good(0)
  BY <1>6, <1>7
<1> QED
  BY <1>1, <1>2, <1>8 DEF Good

\* The chunks of a page cover it.
LEMMA PagesAreCovered ==
  ASSUME NEW c \in Contents, NEW p \in DOMAIN Pages[c]
  PROVE  LET spans == Chunks(c)[p]
         IN  /\ \A k \in DOMAIN Pages[c][p] :
                     Pages[c][p][k] \/ \E j \in DOMAIN spans : k \in spans[j]
             /\ \A j \in DOMAIN spans : Cardinality(spans[j]) <= ChunkSize
             /\ \A j \in DOMAIN spans \ {1} : \E k \in spans[j - 1] : \A m \in spans[j] : k <= m
<1> DEFINE blank == Pages[c][p]
           spans == Chunks(c)[p]
<1>1. IsText(blank) /\ ChunkSize \in Nat \ {0} /\ Overlap \in Nat
  BY LocalStoreAssumption
<1>2. spans = SplitText(blank, ChunkSize, Overlap)
  BY DEF Chunks
<1> HIDE DEF blank, spans
<1>3. Covers(blank, ChunkSize, 0, spans)
  BY <1>1, <1>2, SplitCovers
<1>4. ASSUME NEW j \in DOMAIN spans PROVE Cardinality(spans[j]) <= ChunkSize
  <2>1. PICK a \in 0..(Length(blank) - 1), b \in 0..(Length(blank) - 1) :
           spans[j] = a..b /\ a <= b /\ b - a < ChunkSize
    BY <1>3 DEF Covers, Piece
  <2>2. Cardinality(a..b) = IF a > b THEN 0 ELSE b - a + 1
    BY FS_Interval
  <2> QED
    BY <1>1, <2>1, <2>2
<1>5. DOMAIN blank = 0..(Length(blank) - 1)
  BY <1>1 DEF IsText
<1> QED
  BY <1>3, <1>4, <1>5 DEF Covers, blank, spans

\* Every character of an indexed page that is no blank is in one of its chunks,
\* none is longer than ChunkSize, and they are in order, for any text, chunk size
\* and overlap (split_text).
THEOREM ChunksCover == Spec => []ChunksCoverText
<1>1. OwnedInv => ChunksCoverText
  <2> SUFFICES ASSUME OwnedInv, NEW i \in DOMAIN index, NEW p \in DOMAIN Pages[index[i].text]
               PROVE  LET spans == Chunks(index[i].text)[p]
                      IN  /\ \A k \in DOMAIN Pages[index[i].text][p] :
                                  Pages[index[i].text][p][k] \/ \E j \in DOMAIN spans : k \in spans[j]
                          /\ \A j \in DOMAIN spans : Cardinality(spans[j]) <= ChunkSize
                          /\ \A j \in DOMAIN spans \ {1} : \E k \in spans[j - 1] : \A m \in spans[j] : k <= m
    BY DEF ChunksCoverText
  <2>1. index[i].text \in Contents
    <3>1. index[i] \in Entry
      <4>1. index \in Seq(Entry)
        BY DEF OwnedInv, TypeInv, StoreOK
      <4> QED
        BY <4>1
    <3> QED
      BY <3>1 DEF Entry
  <2> QED
    BY <2>1, PagesAreCovered
<1> QED
  BY <1>1, Invariance, PTL
=============================================================================
