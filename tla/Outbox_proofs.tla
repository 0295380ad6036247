---------------------------- MODULE Outbox_proofs ----------------------------
(***************************************************************************)
(* Proofs about Outbox, for any sets of jobs, changes and publishers, any   *)
(* batch size and any number of faults: type correctness, that no event is  *)
(* marked published before its message was sent, that messages are repeated *)
(* only because of faults, that claims are disjoint without them, and that  *)
(* the outbox implements the safety part of AtLeastOnce.                    *)
(***************************************************************************)
EXTENDS Outbox, FiniteSetTheorems, TLAPS

\* What a publisher has in hand was recorded, and what it is about to mark
\* was sent: the state of outbox.py between two of its statements.
InHand ==
    \A p \in Publishers :
        /\ \A e \in publisher[p].batch : event[e] # "absent"
        /\ publisher[p].pc = "mark" => sent[publisher[p].current] > 0

IInv == TypeOK /\ InHand /\ PublishedWasSent

-----------------------------------------------------------------------------
\* Initially every variable has its type.
LEMMA InitType == Init => TypeOK
  BY OutboxAssumption DEF Init, TypeOK, PublisherState, Consistent, Polling, Ages, Events

\* A publisher may be put into any consistent state.
LEMMA SetPublisher ==
  ASSUME TypeOK, NEW p \in Publishers, NEW s \in PublisherState, Consistent(s),
         publisher' = [publisher EXCEPT ![p] = s]
  PROVE  /\ publisher' \in [Publishers -> PublisherState]
         /\ \A q \in Publishers : Consistent(publisher'[q])
  BY DEF TypeOK

\* The state a publisher is left in when it is done with an event: consistent,
\* with a smaller batch.
LEMMA NextEventType ==
  ASSUME TypeOK, NEW p \in Publishers, NEW e
  PROVE  /\ NextEvent(p, e) \in PublisherState
         /\ Consistent(NextEvent(p, e))
         /\ NextEvent(p, e).batch \subseteq publisher[p].batch
         /\ NextEvent(p, e).pc \in {"poll", "route"}
  BY DEF TypeOK, PublisherState, Consistent, NextEvent

\* Every step keeps the types.
LEMMA StepType == TypeOK /\ [Next]_vars => TypeOK'
<1> SUFFICES ASSUME TypeOK, [Next]_vars PROVE TypeOK'
  OBVIOUS
<1> USE OutboxAssumption
<1> DEFINE PublishersOK == /\ publisher \in [Publishers -> PublisherState]
                           /\ \A q \in Publishers : Consistent(publisher[q])
<1>1. ASSUME NEW e \in Events, Insert(e) PROVE TypeOK'
  BY <1>1 DEF Insert, TypeOK
<1>2. ASSUME NEW e \in Events, AbandonedLockExpires(e) PROVE TypeOK'
  BY <1>2 DEF AbandonedLockExpires, TypeOK, Ages
<1>3. ASSUME NEW e \in Events, SlowLockExpires(e) PROVE TypeOK'
  BY <1>3 DEF SlowLockExpires, Outage, TypeOK, Ages
<1>4. ASSUME NEW p \in Publishers, Claim(p) PROVE TypeOK'
  <2>1. PICK batch \in (SUBSET Claimable) \ {{}} :
          /\ lock' = [e \in Events |-> IF e \in batch THEN "fresh" ELSE lock[e]]
          /\ publisher' = [publisher EXCEPT ![p] =
                              [pc |-> "route", batch |-> batch, current |-> NoEvent]]
    BY <1>4 DEF Claim
  <2> DEFINE s == [pc |-> "route", batch |-> batch, current |-> NoEvent]
  <2>2. s \in PublisherState /\ Consistent(s)
    BY DEF Claimable, PublisherState, Consistent
  <2>3. PublishersOK'
    BY <2>1, <2>2, SetPublisher
  <2>4. QED
    BY <1>4, <2>1, <2>3 DEF Claim, TypeOK, Ages
<1>5. ASSUME NEW p \in Publishers, NEW c \in Changes, RetainChange(p, c) PROVE TypeOK'
  <2>1. PublishersOK'
    BY <1>5, NextEventType, SetPublisher DEF RetainChange
  <2>2. QED
    BY <1>5, <2>1 DEF RetainChange, TypeOK, Ages, Events
<1>6. ASSUME NEW p \in Publishers, NEW j \in Jobs,
             Send(p, j) \/ SendFails(p, j) \/ SendUnconfirmed(p, j)
      PROVE  TypeOK'
  <2>1. PublishersOK'
    BY <1>6 DEF Send, SendFails, SendUnconfirmed, TypeOK, PublisherState, Consistent, Events
  <2>2. QED
    BY <1>6, <2>1 DEF Send, SendFails, SendUnconfirmed, Outage, TypeOK
<1>7. ASSUME NEW p \in Publishers, MarkPublished(p) \/ MarkFailed(p) PROVE TypeOK'
  <2>1. PublishersOK'
    BY <1>7, NextEventType, SetPublisher DEF MarkPublished, MarkFailed
  <2>2. QED
    BY <1>7, <2>1 DEF MarkPublished, MarkFailed, TypeOK, Ages
<1>8. ASSUME NEW p \in Publishers, MarkRaises(p) PROVE TypeOK'
  <2>1. PublishersOK'
    BY <1>8 DEF MarkRaises, TypeOK, PublisherState, Consistent
  <2>2. QED
    BY <1>8, <2>1 DEF MarkRaises, Outage, rows, TypeOK, Ages
<1>9. ASSUME NEW p \in Publishers, Crash(p) PROVE TypeOK'
  <2>1. Polling \in PublisherState /\ Consistent(Polling)
    BY DEF Polling, PublisherState, Consistent
  <2>2. PublishersOK'
    BY <1>9, <2>1, SetPublisher DEF Crash
  <2>3. QED
    BY <1>9, <2>2 DEF Crash, Outage, TypeOK
<1>10. CASE UNCHANGED vars
  BY <1>10 DEF vars, TypeOK
<1>11. QED
  BY <1>1, <1>2, <1>3, <1>4, <1>5, <1>6, <1>7, <1>8, <1>9, <1>10
     DEF Next, PublisherStep, Fault

\* Type correctness of the outbox rows and publishers.
THEOREM TypeCorrect == Spec => []TypeOK
  BY InitType, StepType, PTL DEF Spec

-----------------------------------------------------------------------------
\* The invariant holds initially: nothing is in hand, nothing published.
LEMMA InitInvariant == Init => IInv
<1> SUFFICES ASSUME Init PROVE InHand /\ PublishedWasSent
  BY InitType DEF IInv
<1> QED
  BY DEF Init, InHand, PublishedWasSent, Polling, Events

\* Every step keeps it. Once recorded, an event stays recorded, and a count of
\* sent messages only grows: so what one publisher has in hand is safe from
\* the others, and a row is marked published only by a publisher at "mark".
LEMMA StepInvariant == IInv /\ [Next]_vars => IInv'
<1> SUFFICES ASSUME IInv, [Next]_vars PROVE InHand' /\ PublishedWasSent'
  BY StepType DEF IInv
<1> USE OutboxAssumption DEF IInv
<1>1. ASSUME NEW e \in Events, Insert(e) PROVE InHand' /\ PublishedWasSent'
  BY <1>1 DEF Insert, InHand, PublishedWasSent, TypeOK, PublisherState, Events
<1>2. ASSUME NEW e \in Events, AbandonedLockExpires(e) \/ SlowLockExpires(e)
      PROVE  InHand' /\ PublishedWasSent'
  BY <1>2 DEF AbandonedLockExpires, SlowLockExpires, InHand, PublishedWasSent
<1>3. ASSUME NEW p \in Publishers, Claim(p) PROVE InHand' /\ PublishedWasSent'
  BY <1>3 DEF Claim, Claimable, InHand, PublishedWasSent, TypeOK, PublisherState
<1>4. ASSUME NEW p \in Publishers, NEW c \in Changes, RetainChange(p, c)
      PROVE  InHand' /\ PublishedWasSent'
  <2>1. InHand'
    BY <1>4, NextEventType DEF RetainChange, InHand, TypeOK, PublisherState, Events
  <2>2. PublishedWasSent'
    BY <1>4 DEF RetainChange, PublishedWasSent, TypeOK, Events
  <2>3. QED
    BY <2>1, <2>2
<1>5. ASSUME NEW p \in Publishers, NEW j \in Jobs,
             Send(p, j) \/ SendFails(p, j) \/ SendUnconfirmed(p, j)
      PROVE  InHand' /\ PublishedWasSent'
  <2>1. \A k \in Jobs : sent[k] > 0 => sent'[k] > 0
    BY <1>5 DEF Send, SendFails, SendUnconfirmed, TypeOK
  <2>2. InHand'
    <3>1. \A q \in Publishers : q # p => publisher'[q] = publisher[q]
      BY <1>5 DEF Send, SendFails, SendUnconfirmed, TypeOK
    <3>2. \A q \in Publishers : publisher[q].pc = "mark" => publisher[q].current \in Jobs
      BY DEF TypeOK, Consistent
    <3>3. /\ publisher'[p].batch = publisher[p].batch
          /\ publisher'[p].pc = "mark" => publisher'[p].current = j /\ sent'[j] > 0
      BY <1>5 DEF Send, SendFails, SendUnconfirmed, TypeOK, PublisherState
    <3>4. UNCHANGED event
      BY <1>5 DEF Send, SendFails, SendUnconfirmed
    <3>5. QED
      BY <2>1, <3>1, <3>2, <3>3, <3>4 DEF InHand
  <2>3. PublishedWasSent'
    BY <1>5, <2>1 DEF Send, SendFails, SendUnconfirmed, PublishedWasSent, TypeOK
  <2>4. QED
    BY <2>2, <2>3
<1>6. ASSUME NEW p \in Publishers, MarkPublished(p)
      PROVE  InHand' /\ PublishedWasSent'
  <2>1. InHand'
    BY <1>6, NextEventType DEF MarkPublished, InHand, TypeOK, PublisherState, Events
  <2>2. PublishedWasSent'
    BY <1>6 DEF MarkPublished, InHand, PublishedWasSent, TypeOK, Events
  <2>3. QED
    BY <2>1, <2>2
<1>7. ASSUME NEW p \in Publishers, MarkFailed(p)
      PROVE  InHand' /\ PublishedWasSent'
  BY <1>7, NextEventType DEF MarkFailed, InHand, PublishedWasSent, TypeOK, PublisherState
<1>8. ASSUME NEW p \in Publishers, MarkRaises(p)
      PROVE  InHand' /\ PublishedWasSent'
  <2>1. InHand'
    BY <1>8 DEF MarkRaises, rows, InHand, TypeOK, PublisherState, Events
  <2>2. PublishedWasSent'
    BY <1>8 DEF MarkRaises, rows, InHand, PublishedWasSent, TypeOK, Events
  <2>3. QED
    BY <2>1, <2>2
<1>9. ASSUME NEW p \in Publishers, Crash(p) PROVE InHand' /\ PublishedWasSent'
  BY <1>9 DEF Crash, Polling, InHand, PublishedWasSent, TypeOK, PublisherState
<1>10. CASE UNCHANGED vars
  BY <1>10 DEF vars, InHand, PublishedWasSent
<1>11. QED
  BY <1>1, <1>2, <1>3, <1>4, <1>5, <1>6, <1>7, <1>8, <1>9, <1>10
     DEF Next, PublisherStep, Fault

\* A recorded event stays recorded.
LEMMA EventsStay ==
  ASSUME IInv, [Next]_vars, NEW e \in Events, event[e] # "absent"
  PROVE  event'[e] # "absent"
<1>a. event \in [Events -> {"absent", "pending", "published"}]
  BY DEF IInv, TypeOK
<1>1. \/ UNCHANGED event
      \/ \E f : event' = [event EXCEPT ![f] = "published"]
      \/ \E f \in Events : event' = [event EXCEPT ![f] = "pending"]
  BY DEF Next, PublisherStep, Fault, vars, rows, Insert, AbandonedLockExpires,
         SlowLockExpires, Claim, RetainChange, Send, SendFails, SendUnconfirmed,
         MarkPublished, MarkFailed, MarkRaises, Crash
<1>2. QED
  BY <1>a, <1>1

\* The inductive invariant.
THEOREM Invariant == Spec => []IInv
  BY InitInvariant, StepInvariant, PTL DEF Spec

\* No job's event is marked published before the broker accepted a message
\* for it, whatever the publishers do (outbox.py 98-100).
THEOREM NoUnsentPublished == Spec => []PublishedWasSent
<1>1. IInv => PublishedWasSent
  BY DEF IInv
<1>2. QED
  BY <1>1, Invariant, PTL

-----------------------------------------------------------------------------
\* The initial rows map to an initial state of AtLeastOnce.
LEMMA InitRefines == Init => AL!Init
  BY DEF Init, AL!Init, Events

\* Every step of the outbox records, delivers or confirms one job's event, or
\* changes nothing that AtLeastOnce speaks of.
LEMMA StepRefines == IInv /\ [Next]_vars => [AL!Next]_(AL!vars)
<1> SUFFICES ASSUME IInv, [Next]_vars PROVE [AL!Next]_(AL!vars)
  OBVIOUS
<1> USE OutboxAssumption DEF IInv
<1> DEFINE recorded == {j \in Jobs : event[j] # "absent"}
           confirmed == {j \in Jobs : event[j] = "published"}
<1>1. ASSUME NEW e \in Events, Insert(e) PROVE [AL!Next]_(AL!vars)
  <2>1. CASE e \in Jobs
    <3>1. /\ e \notin recorded
          /\ recorded' = recorded \union {e}
          /\ confirmed' = confirmed
          /\ sent' = sent
      BY <1>1, <2>1 DEF Insert, TypeOK, Events
    <3>2. AL!Record(e)
      BY <3>1 DEF AL!Record
    <3>3. QED
      BY <2>1, <3>2 DEF AL!Next
  <2>2. CASE e \notin Jobs
    <3>1. UNCHANGED <<recorded, sent, confirmed>>
      BY <1>1, <2>2 DEF Insert, TypeOK, Events
    <3>2. QED
      BY <3>1 DEF AL!vars
  <2>3. QED
    BY <2>1, <2>2
<1>2. ASSUME NEW p \in Publishers, NEW c \in Changes, RetainChange(p, c)
      PROVE  UNCHANGED AL!vars
  <2>1. UNCHANGED <<recorded, sent, confirmed>>
    BY <1>2 DEF RetainChange, TypeOK, Events
  <2>2. QED
    BY <2>1 DEF AL!vars
<1>3. ASSUME NEW p \in Publishers, NEW j \in Jobs,
             Send(p, j) \/ SendUnconfirmed(p, j)
      PROVE  AL!Next
  <2>1. j \in recorded
    BY <1>3 DEF Send, SendUnconfirmed, InHand
  <2>2. /\ sent' = [sent EXCEPT ![j] = @ + 1]
        /\ UNCHANGED <<recorded, confirmed>>
    BY <1>3 DEF Send, SendUnconfirmed
  <2>3. AL!Deliver(j)
    BY <2>1, <2>2 DEF AL!Deliver
  <2>4. QED
    BY <2>3 DEF AL!Next
<1>4. ASSUME NEW p \in Publishers, MarkPublished(p) \/ MarkRaises(p)
      PROVE  [AL!Next]_(AL!vars)
  <2>0. publisher[p].pc = "mark"
    BY <1>4 DEF MarkPublished, MarkRaises
  <2>1. PICK j \in Jobs :
          j = publisher[p].current /\ event[j] # "absent" /\ sent[j] > 0
    BY <2>0 DEF InHand, TypeOK, Consistent
  <2>2. sent' = sent /\ (event' = [event EXCEPT ![j] = "published"] \/ event' = event)
    BY <1>4, <2>1 DEF MarkPublished, MarkRaises, rows
  <2>3. CASE event' = [event EXCEPT ![j] = "published"] /\ event[j] = "pending"
    <3>1. /\ recorded' = recorded
          /\ confirmed' = confirmed \union {j}
          /\ j \in recorded \ confirmed
      BY <2>1, <2>3 DEF TypeOK, Events
    <3>2. AL!Confirm(j)
      BY <2>1, <2>2, <3>1 DEF AL!Confirm
    <3>3. QED
      BY <3>2 DEF AL!Next
  <2>4. CASE event' = event \/ event[j] # "pending"
    <3>1. event' = event
      BY <2>1, <2>2, <2>4 DEF TypeOK, Events
    <3>2. UNCHANGED <<recorded, sent, confirmed>>
      BY <2>2, <3>1
    <3>3. QED
      BY <3>2 DEF AL!vars
  <2>5. QED
    BY <2>2, <2>3, <2>4
<1>5. ASSUME UNCHANGED event, UNCHANGED sent PROVE UNCHANGED AL!vars
  BY <1>5 DEF AL!vars
<1>6. QED
  BY <1>1, <1>2, <1>3, <1>4, <1>5
     DEF Next, PublisherStep, Fault, vars, AbandonedLockExpires, SlowLockExpires,
         Claim, SendFails, MarkFailed, Crash

\* The outbox implements at-least-once delivery: the safety half, for any
\* number of publishers and faults. That it gets there is left to TLC.
THEOREM ImplementsAtLeastOnce == Spec => AL!SafeSpec
  BY InitRefines, StepRefines, Invariant, PTL DEF Spec, AL!SafeSpec

-----------------------------------------------------------------------------
(***************************************************************************)
(* How often a job's message is sent. A row can still cause one message per *)
(* publisher that has it in hand and did not send it yet, and one more when *)
(* the next claim may take it. Together with the messages already sent this *)
(* never exceeds one plus the faults.                                       *)
(***************************************************************************)
Carriers(j) ==
    {p \in Publishers : /\ j \in publisher[p].batch
                        /\ ~(publisher[p].pc = "mark" /\ publisher[p].current = j)}

Open(j) == event[j] # "published" /\ (lock[j] # "fresh" \/ Holders(j) = {})

Debt(j) == sent[j] + Cardinality(Carriers(j)) + (IF Open(j) THEN 1 ELSE 0)

DebtBounded == \A j \in Jobs : Debt(j) <= 1 + outages

\* Two sets that differ in one element at most.
LEMMA DifferInOne ==
  ASSUME NEW A, NEW B, NEW x, IsFiniteSet(A), IsFiniteSet(B), A \ {x} = B \ {x}
  PROVE  /\ Cardinality(A) \in Nat /\ Cardinality(B) \in Nat
         /\ (x \in A <=> x \in B) => Cardinality(B) = Cardinality(A)
         /\ x \in A /\ x \notin B => Cardinality(B) + 1 = Cardinality(A)
         /\ x \notin A /\ x \in B => Cardinality(B) = Cardinality(A) + 1
<1>1. Cardinality(A) \in Nat /\ Cardinality(B) \in Nat
  BY FS_CardinalityType
<1>2. Cardinality(A \ {x}) = IF x \in A THEN Cardinality(A) - 1 ELSE Cardinality(A)
  BY FS_RemoveElement
<1>3. Cardinality(B \ {x}) = IF x \in B THEN Cardinality(B) - 1 ELSE Cardinality(B)
  BY FS_RemoveElement
<1>4. QED
  BY <1>1, <1>2, <1>3

\* When one publisher moves, the carriers of a job change by that publisher.
LEMMA CarriersOfOneMove ==
  ASSUME NEW j \in Jobs, NEW p \in Publishers,
         \A q \in Publishers : q # p => publisher'[q] = publisher[q]
  PROVE  LET c == Cardinality(Carriers(j))
         IN  /\ c \in Nat /\ c' \in Nat
             /\ (p \in Carriers(j) <=> p \in Carriers(j)') => c' = c
             /\ p \in Carriers(j) /\ p \notin Carriers(j)' => c' + 1 = c
             /\ p \notin Carriers(j) /\ p \in Carriers(j)' => c' = c + 1
<1>1. IsFiniteSet(Carriers(j)) /\ IsFiniteSet(Carriers(j)')
  <2>1. Carriers(j) \subseteq Publishers /\ Carriers(j)' \subseteq Publishers
    BY DEF Carriers
  <2>2. QED
    BY <2>1, FS_Subset, OutboxAssumption
<1>2. Carriers(j) \ {p} = Carriers(j)' \ {p}
  BY DEF Carriers
<1>3. QED
  BY <1>1, <1>2, DifferInOne

\* Initially every row may be claimed once and nothing is in hand.
LEMMA InitDebt == Init => DebtBounded
<1> SUFFICES ASSUME Init, NEW j \in Jobs PROVE Debt(j) <= 1 + outages
  BY DEF DebtBounded
<1>1. Carriers(j) = {}
  BY DEF Init, Polling, Carriers
<1>2. QED
  BY <1>1, FS_EmptySet DEF Init, Debt

\* Every step keeps the debt within one plus the faults: a send turns a carrier
\* into a message, a claim turns an open row into a carrier, a failure turns a
\* carrier into an open row, and what adds to the debt is a fault.
LEMMA StepDebt == IInv /\ DebtBounded /\ [Next]_vars => DebtBounded'
<1> SUFFICES ASSUME IInv, DebtBounded, [Next]_vars, NEW j \in Jobs
             PROVE  Debt(j)' <= 1 + outages'
  BY DEF DebtBounded
<1> USE OutboxAssumption
<1> DEFINE c == Cardinality(Carriers(j))
<1>a. /\ publisher \in [Publishers -> PublisherState]
      /\ \A q \in Publishers : Consistent(publisher[q])
      /\ sent[j] \in Nat /\ outages \in Nat
      /\ sent[j] + c + (IF Open(j) THEN 1 ELSE 0) <= 1 + outages
      /\ j \in Events /\ j \notin Changes
  BY DEF IInv, TypeOK, DebtBounded, Debt, Events
<1>b. ASSUME c' \in Nat, sent'[j] \in Nat, outages' \in Nat,
             sent'[j] + c' + (IF Open(j)' THEN 1 ELSE 0) <= 1 + outages'
      PROVE  Debt(j)' <= 1 + outages'
  BY <1>b DEF Debt
<1> HIDE DEF c
<1>0. ASSUME NEW p \in Publishers, \A q \in Publishers : q # p => publisher'[q] = publisher[q]
      PROVE  /\ c \in Nat /\ c' \in Nat
             /\ (p \in Carriers(j) <=> p \in Carriers(j)') => c' = c
             /\ p \in Carriers(j) /\ p \notin Carriers(j)' => c' + 1 = c
             /\ p \notin Carriers(j) /\ p \in Carriers(j)' => c' = c + 1
  BY <1>0, CarriersOfOneMove DEF c
<1>1. ASSUME UNCHANGED publisher PROVE c' = c /\ c \in Nat /\ Holders(j)' = Holders(j)
  <2>1. Carriers(j)' = Carriers(j) /\ Holders(j)' = Holders(j)
    BY <1>1 DEF Carriers, Holders
  <2>2. IsFiniteSet(Carriers(j))
    BY FS_Subset DEF Carriers
  <2>3. QED
    BY <2>1, <2>2, FS_CardinalityType DEF c
<1>2. ASSUME NEW e \in Events, Insert(e) PROVE Debt(j)' <= 1 + outages'
  <2>1. UNCHANGED <<publisher, sent, outages, lock>>
    BY <1>2 DEF Insert
  <2>2. event'[j] = "published" <=> event[j] = "published"
    BY <1>2, <1>a DEF Insert, IInv, TypeOK
  <2>3. Open(j)' = Open(j)
    BY <2>1, <2>2, <1>1 DEF Open
  <2>4. QED
    BY <1>a, <1>b, <1>1, <2>1, <2>3
<1>3. ASSUME NEW e \in Events, AbandonedLockExpires(e) PROVE Debt(j)' <= 1 + outages'
  <2>1. UNCHANGED <<publisher, sent, outages, event>>
    BY <1>3 DEF AbandonedLockExpires
  <2>2. Open(j)' => Open(j)
    BY <1>3, <1>a, <1>1, <2>1 DEF AbandonedLockExpires, Open, IInv, TypeOK
  <2>3. QED
    BY <1>a, <1>b, <1>1, <2>1, <2>2
<1>4. ASSUME NEW e \in Events, SlowLockExpires(e) PROVE Debt(j)' <= 1 + outages'
  <2>1. UNCHANGED <<publisher, sent, event>> /\ outages' = outages + 1
    BY <1>4 DEF SlowLockExpires, Outage
  <2>2. QED
    BY <1>a, <1>b, <1>1, <2>1
<1>5. ASSUME NEW p \in Publishers, Claim(p) PROVE Debt(j)' <= 1 + outages'
  <2>1. PICK batch \in (SUBSET Claimable) \ {{}} :
          /\ lock' = [e \in Events |-> IF e \in batch THEN "fresh" ELSE lock[e]]
          /\ publisher' = [publisher EXCEPT ![p] =
                              [pc |-> "route", batch |-> batch, current |-> NoEvent]]
    BY <1>5 DEF Claim
  <2>2. UNCHANGED <<event, sent, outages>>
    BY <1>5 DEF Claim
  <2>3. /\ publisher'[p].batch = batch /\ publisher'[p].pc = "route"
        /\ \A q \in Publishers : q # p => publisher'[q] = publisher[q]
    BY <1>a, <2>1
  <2>4. publisher[p].batch = {}
    BY <1>5, <1>a DEF Claim, Consistent
  <2>5. /\ p \notin Carriers(j) /\ (p \in Carriers(j)' <=> j \in batch)
    BY <2>3, <2>4 DEF Carriers
  <2>6. CASE j \in batch
    <3>1. Open(j) /\ ~Open(j)'
      BY <1>a, <2>1, <2>2, <2>3, <2>6 DEF Open, Claimable, Holders
    <3>2. QED
      BY <1>a, <1>b, <1>0, <2>2, <2>3, <2>5, <2>6, <3>1
  <2>7. CASE j \notin batch
    <3>1. Holders(j)' = Holders(j)
      BY <2>3, <2>4, <2>7 DEF Holders
    <3>2. Open(j)' = Open(j)
      BY <1>a, <2>1, <2>2, <2>7, <3>1 DEF Open
    <3>3. QED
      BY <1>a, <1>b, <1>0, <2>2, <2>3, <2>5, <2>7, <3>2
  <2>8. QED
    BY <2>6, <2>7
<1>6. ASSUME NEW p \in Publishers, NEW e \in Changes, RetainChange(p, e)
      PROVE  Debt(j)' <= 1 + outages'
  <2>1. /\ \A q \in Publishers : q # p => publisher'[q] = publisher[q]
        /\ publisher'[p] = NextEvent(p, e)
        /\ UNCHANGED <<sent, outages>>
    BY <1>6, <1>a DEF RetainChange
  <2>2. event'[j] = event[j] /\ lock'[j] = lock[j]
    BY <1>6, <1>a DEF RetainChange, IInv, TypeOK
  <2>3. /\ j \in publisher'[p].batch <=> j \in publisher[p].batch
        /\ publisher[p].pc # "mark" /\ publisher'[p].pc # "mark"
    BY <1>6, <1>a, <2>1 DEF RetainChange, NextEvent
  <2>4. p \in Carriers(j) <=> p \in Carriers(j)'
    BY <2>3 DEF Carriers
  <2>5. Holders(j)' = Holders(j)
    BY <2>1, <2>3 DEF Holders
  <2>6. Open(j)' = Open(j)
    BY <2>2, <2>5 DEF Open
  <2>7. QED
    BY <1>a, <1>b, <1>0, <2>1, <2>4, <2>6
<1>7. ASSUME NEW p \in Publishers, NEW k \in Jobs,
             Send(p, k) \/ SendFails(p, k) \/ SendUnconfirmed(p, k)
      PROVE  Debt(j)' <= 1 + outages'
  <2>1. /\ \A q \in Publishers : q # p => publisher'[q] = publisher[q]
        /\ publisher'[p].batch = publisher[p].batch
        /\ publisher'[p].current = k
        /\ publisher[p].pc = "route" /\ k \in publisher[p].batch
        /\ UNCHANGED <<event, lock>>
    BY <1>7, <1>a DEF Send, SendFails, SendUnconfirmed, PublisherState
  <2>2. Open(j)' = Open(j)
    <3>1. Holders(j)' = Holders(j)
      BY <2>1 DEF Holders
    <3>2. QED
      BY <2>1, <3>1 DEF Open
  <2>3. p \in Carriers(j) <=> j \in publisher[p].batch
    BY <2>1 DEF Carriers
  <2>4. CASE Send(p, k)
    <3>1. /\ publisher'[p].pc = "mark" /\ outages' = outages
          /\ sent'[j] = IF k = j THEN sent[j] + 1 ELSE sent[j]
      BY <2>4, <1>a DEF Send, PublisherState, IInv, TypeOK
    <3>2. p \in Carriers(j)' <=> j \in publisher[p].batch /\ k # j
      BY <2>1, <3>1 DEF Carriers
    <3>3. QED
      BY <1>a, <1>b, <1>0, <2>1, <2>2, <2>3, <3>1, <3>2
  <2>5. CASE SendFails(p, k) \/ SendUnconfirmed(p, k)
    <3>1. /\ publisher'[p].pc = "fail" /\ outages' = outages + 1
          /\ sent'[j] \in {sent[j], sent[j] + 1}
      BY <2>5, <1>a DEF SendFails, SendUnconfirmed, Outage, PublisherState, IInv, TypeOK
    <3>2. p \in Carriers(j)' <=> j \in publisher[p].batch
      BY <2>1, <3>1 DEF Carriers
    <3>3. QED
      BY <1>a, <1>b, <1>0, <2>1, <2>2, <2>3, <3>1, <3>2
  <2>6. QED
    BY <1>7, <2>4, <2>5
<1>8. ASSUME NEW p \in Publishers, MarkPublished(p) \/ MarkFailed(p)
      PROVE  Debt(j)' <= 1 + outages'
  <2> DEFINE k == publisher[p].current
  <2>1. /\ \A q \in Publishers : q # p => publisher'[q] = publisher[q]
        /\ publisher'[p] = NextEvent(p, k)
        /\ k \in publisher[p].batch /\ k \in Jobs
        /\ UNCHANGED <<sent, outages>>
    BY <1>8, <1>a DEF MarkPublished, MarkFailed, Consistent
  <2>2. publisher'[p].batch = publisher[p].batch \ {k} /\ publisher'[p].pc # "mark"
    BY <2>1 DEF NextEvent
  <2>3. p \in Carriers(j)' <=> j \in publisher[p].batch /\ j # k
    BY <2>2 DEF Carriers
  <2>4. CASE j = k
    <3>1. CASE MarkPublished(p)
      <4>1. p \notin Carriers(j)
        BY <2>4, <3>1 DEF MarkPublished, Carriers
      <4>2. ~Open(j)'
        BY <2>4, <3>1, <1>a DEF MarkPublished, Open, IInv, TypeOK
      <4>3. QED
        BY <1>a, <1>b, <1>0, <2>1, <2>3, <2>4, <4>1, <4>2
    <3>2. CASE MarkFailed(p)
      <4>1. p \in Carriers(j)
        BY <2>1, <2>4, <3>2 DEF MarkFailed, Carriers
      <4>2. QED
        BY <1>a, <1>b, <1>0, <2>1, <2>3, <2>4, <4>1
    <3>3. QED
      BY <1>8, <3>1, <3>2
  <2>5. CASE j # k
    <3>1. event'[j] = event[j] /\ lock'[j] = lock[j]
      BY <1>8, <2>5, <1>a DEF MarkPublished, MarkFailed, IInv, TypeOK
    <3>2. Holders(j)' = Holders(j)
      BY <2>1, <2>2, <2>5 DEF Holders
    <3>3. p \in Carriers(j) <=> j \in publisher[p].batch
      BY <2>5 DEF Carriers
    <3>4. Open(j)' = Open(j)
      BY <3>1, <3>2 DEF Open
    <3>5. QED
      BY <1>a, <1>b, <1>0, <2>1, <2>3, <2>5, <3>3, <3>4
  <2>6. QED
    BY <2>4, <2>5
<1>9. ASSUME NEW p \in Publishers, MarkRaises(p) PROVE Debt(j)' <= 1 + outages'
  <2> DEFINE k == publisher[p].current
  <2>1. /\ \A q \in Publishers : q # p => publisher'[q] = publisher[q]
        /\ publisher'[p].batch = publisher[p].batch /\ publisher'[p].pc = "fail"
        /\ sent' = sent /\ outages' = outages + 1
    BY <1>9, <1>a DEF MarkRaises, Outage, PublisherState
  <2>2. Holders(j)' = Holders(j)
    BY <2>1 DEF Holders
  <2>3. Open(j)' => Open(j)
    <3>1. CASE k = j /\ event' = [event EXCEPT ![k] = "published"]
      BY <3>1, <1>a DEF Open, IInv, TypeOK
    <3>2. CASE ~(k = j /\ event' = [event EXCEPT ![k] = "published"])
      <4>1. event'[j] = event[j] /\ lock'[j] = lock[j]
        BY <1>9, <3>2, <1>a DEF MarkRaises, rows, IInv, TypeOK
      <4>2. QED
        BY <2>2, <4>1 DEF Open
    <3>3. QED
      BY <3>1, <3>2
  <2>4. p \in Carriers(j)' <=> j \in publisher[p].batch
    BY <2>1 DEF Carriers
  <2>5. p \in Carriers(j) => j \in publisher[p].batch
    BY DEF Carriers
  <2>6. QED
    BY <1>a, <1>b, <1>0, <2>1, <2>3, <2>4, <2>5
<1>10. ASSUME NEW p \in Publishers, Crash(p) PROVE Debt(j)' <= 1 + outages'
  <2>1. /\ \A q \in Publishers : q # p => publisher'[q] = publisher[q]
        /\ publisher'[p].batch = {}
        /\ UNCHANGED <<event, lock, sent>> /\ outages' = outages + 1
    BY <1>10, <1>a DEF Crash, Outage, Polling
  <2>2. p \notin Carriers(j)'
    BY <2>1 DEF Carriers
  <2>3. QED
    BY <1>a, <1>b, <1>0, <2>1, <2>2
<1>11. CASE UNCHANGED vars
  <2>1. Open(j)' = Open(j)
    BY <1>11, <1>1 DEF vars, Open
  <2>2. QED
    BY <1>11, <1>a, <1>b, <1>1, <2>1 DEF vars
<1>12. QED
  BY <1>2, <1>3, <1>4, <1>5, <1>6, <1>7, <1>8, <1>9, <1>10, <1>11
     DEF Next, PublisherStep, Fault

\* A publisher about to publish is a carrier: what was sent so far is paid for
\* by faults.
LEMMA SendLeavesDebt ==
  ASSUME IInv, DebtBounded, NEW p \in Publishers, NEW j \in Jobs,
         publisher[p].pc = "route", j \in publisher[p].batch
  PROVE  sent[j] <= outages
<1> DEFINE c == Cardinality(Carriers(j))
<1>1. c \in Nat \ {0}
  <2>1. p \in Carriers(j)
    BY DEF Carriers
  <2>2. IsFiniteSet(Carriers(j))
    BY FS_Subset, OutboxAssumption DEF Carriers
  <2>3. QED
    BY <2>1, <2>2, FS_CardinalityType, FS_EmptySet
<1>2. sent[j] + c + (IF Open(j) THEN 1 ELSE 0) <= 1 + outages
  BY DEF DebtBounded, Debt
<1>3. sent[j] \in Nat /\ outages \in Nat
  BY OutboxAssumption DEF IInv, TypeOK
<1> HIDE DEF c
<1>4. QED
  BY <1>1, <1>2, <1>3

\* The debt bounds the messages sent.
LEMMA DebtBoundsSends == IInv /\ DebtBounded => ResendsAreFaults
<1> SUFFICES ASSUME IInv, DebtBounded, NEW j \in Jobs PROVE sent[j] <= 1 + outages
  BY DEF ResendsAreFaults
<1> DEFINE c == Cardinality(Carriers(j))
<1>1. c \in Nat
  <2>1. IsFiniteSet(Carriers(j))
    BY FS_Subset, OutboxAssumption DEF Carriers
  <2>2. QED
    BY <2>1, FS_CardinalityType
<1>2. sent[j] + c + (IF Open(j) THEN 1 ELSE 0) <= 1 + outages
  BY DEF DebtBounded, Debt
<1>3. sent[j] \in Nat /\ outages \in Nat
  BY OutboxAssumption DEF IInv, TypeOK
<1> HIDE DEF c
<1>4. QED
  BY <1>1, <1>2, <1>3

\* Each message beyond the first is paid for by a fault of its own, for any
\* number of publishers and any batch size (outbox.py 34-56).
THEOREM ResendsNeedFaults == Spec => []ResendsAreFaults
  BY DebtBoundsSends, InitDebt, StepDebt, Invariant, PTL DEF Spec

-----------------------------------------------------------------------------
\* Without faults, what a publisher has in hand is freshly locked and nobody
\* else's; nothing gets to the except branch.
CleanBatches ==
    outages = 0 => \A p \in Publishers :
        /\ publisher[p].pc # "fail"
        /\ \A e \in publisher[p].batch : lock[e] = "fresh"
        /\ \A q \in Publishers : q # p => publisher[p].batch \intersect publisher[q].batch = {}

\* Initially all batches are empty.
LEMMA InitClean == Init => CleanBatches
  BY DEF Init, CleanBatches, Polling

\* Every step keeps it: a claim takes rows whose lock is not fresh, which
\* nobody has, and only the holder clears a lock.
LEMMA StepClean == IInv /\ CleanBatches /\ [Next]_vars => CleanBatches'
<1> SUFFICES ASSUME IInv, CleanBatches, [Next]_vars, outages' = 0
             PROVE  CleanBatches'
  BY DEF CleanBatches
<1> USE OutboxAssumption
<1>a. /\ publisher \in [Publishers -> PublisherState]
      /\ \A p \in Publishers : Consistent(publisher[p])
      /\ lock \in [Events -> Ages] /\ outages \in Nat
  BY DEF IInv, TypeOK
<1>1. ~Fault
  <2>1. Fault => outages' = outages + 1
    BY DEF Fault, SendFails, SendUnconfirmed, MarkRaises, Crash, SlowLockExpires, Outage
  <2>2. outages + 1 # 0
    BY <1>a
  <2>3. QED
    BY <2>1, <2>2
<1>2. ASSUME NEW p \in Publishers, Claim(p) PROVE CleanBatches'
  <2>1. PICK batch \in (SUBSET Claimable) \ {{}} :
          /\ lock' = [e \in Events |-> IF e \in batch THEN "fresh" ELSE lock[e]]
          /\ publisher' = [publisher EXCEPT ![p] =
                              [pc |-> "route", batch |-> batch, current |-> NoEvent]]
    BY <1>2 DEF Claim
  <2>2. \A q \in Publishers : publisher[q].pc # "fail"
                              /\ \A e \in publisher[q].batch : e \in Events /\ lock[e] = "fresh"
    BY <1>2, <1>a DEF Claim, CleanBatches, PublisherState
  <2>3. \A e \in batch : e \in Events /\ lock[e] # "fresh"
    BY DEF Claimable
  <2>4. /\ publisher'[p].batch = batch /\ publisher'[p].pc = "route"
        /\ \A q \in Publishers : q # p => publisher'[q] = publisher[q]
    BY <1>a, <2>1
  <2>5. \A q \in Publishers : publisher'[q].pc # "fail"
                              /\ \A e \in publisher'[q].batch : lock'[e] = "fresh"
    BY <2>1, <2>2, <2>3, <2>4
  <2>6. \A q \in Publishers : q # p => batch \intersect publisher[q].batch = {}
    BY <2>2, <2>3
  <2>7. \A q, r \in Publishers :
            q # r => publisher'[q].batch \intersect publisher'[r].batch = {}
    BY <1>2, <2>4, <2>6 DEF Claim, CleanBatches
  <2>8. QED
    BY <2>5, <2>7 DEF CleanBatches
<1>3. ASSUME NEW p \in Publishers, NEW e, lock' = [lock EXCEPT ![e] = "free"],
             outages' = outages, e \in publisher[p].batch,
             publisher' = [publisher EXCEPT ![p] = NextEvent(p, e)]
      PROVE  CleanBatches'
  <2>1. /\ publisher'[p].batch = publisher[p].batch \ {e} /\ publisher'[p].pc # "fail"
        /\ \A q \in Publishers : q # p => publisher'[q] = publisher[q]
    BY <1>3, <1>a DEF NextEvent
  <2>2. \A q \in Publishers : e \notin publisher'[q].batch
    BY <1>3, <2>1 DEF CleanBatches
  <2>3. \A q \in Publishers : /\ publisher'[q].batch \subseteq publisher[q].batch
                              /\ publisher[q].batch \subseteq Events
    BY <1>a, <2>1 DEF PublisherState
  <2>4. \A q \in Publishers : publisher'[q].pc # "fail"
                              /\ \A f \in publisher'[q].batch : lock'[f] = "fresh"
    BY <1>3, <1>a, <2>1, <2>2, <2>3 DEF CleanBatches
  <2>5. QED
    BY <1>3, <2>3, <2>4 DEF CleanBatches
<1>4. ASSUME NEW p \in Publishers, NEW e \in Changes, RetainChange(p, e) PROVE CleanBatches'
  BY <1>3, <1>4 DEF RetainChange
<1>5. ASSUME NEW p \in Publishers, MarkPublished(p) PROVE CleanBatches'
  BY <1>3, <1>5, <1>a DEF MarkPublished, Consistent
<1>6. ASSUME NEW p \in Publishers, MarkFailed(p) PROVE CleanBatches'
  BY <1>6 DEF MarkFailed, CleanBatches
<1>7. ASSUME NEW p \in Publishers, NEW j \in Jobs, Send(p, j) PROVE CleanBatches'
  <2>1. /\ UNCHANGED <<lock, outages>> /\ publisher'[p].pc = "mark"
        /\ \A q \in Publishers : /\ publisher'[q].batch = publisher[q].batch
                                 /\ q # p => publisher'[q] = publisher[q]
    BY <1>7, <1>a DEF Send, PublisherState
  <2>2. QED
    BY <2>1 DEF CleanBatches
<1>8. ASSUME NEW e \in Events, Insert(e) \/ AbandonedLockExpires(e) PROVE CleanBatches'
  <2>1. UNCHANGED <<publisher, outages>>
    BY <1>8 DEF Insert, AbandonedLockExpires
  <2>2. \A f \in Events : lock'[f] = lock[f] \/ Holders(f) = {}
    BY <1>8, <1>a DEF Insert, AbandonedLockExpires
  <2>3. \A q \in Publishers : \A f \in publisher[q].batch :
            f \in Events /\ Holders(f) # {}
    BY <1>a DEF PublisherState, Holders
  <2>4. QED
    BY <2>1, <2>2, <2>3 DEF CleanBatches
<1>9. CASE UNCHANGED vars
  BY <1>9 DEF vars, CleanBatches
<1>10. QED
  BY <1>1, <1>2, <1>4, <1>5, <1>6, <1>7, <1>8, <1>9 DEF Next, PublisherStep

\* Without faults no two publishers have the same event in hand
\* (outbox.py 34-56).
THEOREM DisjointClaims == Spec => []ClaimsDisjointWithoutFaults
<1>1. CleanBatches => ClaimsDisjointWithoutFaults
  <2> SUFFICES ASSUME CleanBatches, outages = 0, NEW e \in Events
               PROVE  Cardinality(Holders(e)) <= 1
    BY DEF ClaimsDisjointWithoutFaults
  <2>1. CASE Holders(e) = {}
    BY <2>1, FS_EmptySet
  <2>2. CASE Holders(e) # {}
    <3>1. PICK p : Holders(e) = {p}
      BY <2>2 DEF Holders, CleanBatches
    <3>2. Cardinality({p}) = 1
      BY FS_Singleton
    <3>3. QED
      BY <3>1, <3>2
  <2>3. QED
    BY <2>1, <2>2
<1>2. QED
  BY <1>1, InitClean, StepClean, Invariant, PTL DEF Spec

=============================================================================
