----------------------------- MODULE AtLeastOnce -----------------------------
(***************************************************************************)
(* What the transactional outbox promises to the rest of the pipeline, with *)
(* no publishers, locks or batches: an event that was recorded is handed to *)
(* the broker one or more times, and is confirmed only after a hand-over.   *)
(* Outbox.tla implements this specification.                                *)
(***************************************************************************)
EXTENDS Naturals

CONSTANT Events

VARIABLES
    recorded,   \* the events whose transaction committed
    delivered,  \* delivered[e]: how many times the broker accepted e
    confirmed   \* the events the outbox will not hand over on its own again

vars == <<recorded, delivered, confirmed>>

Init ==
    /\ recorded = {}
    /\ delivered = [e \in Events |-> 0]
    /\ confirmed = {}

Record(e) ==
    /\ e \notin recorded
    /\ recorded' = recorded \union {e}
    /\ UNCHANGED <<delivered, confirmed>>

\* A confirmed event may still be delivered: a publisher that is late does
\* not know that another one confirmed it.
Deliver(e) ==
    /\ e \in recorded
    /\ delivered' = [delivered EXCEPT ![e] = @ + 1]
    /\ UNCHANGED <<recorded, confirmed>>

Confirm(e) ==
    /\ e \in recorded \ confirmed
    /\ delivered[e] > 0
    /\ confirmed' = confirmed \union {e}
    /\ UNCHANGED <<recorded, delivered>>

Next == \E e \in Events : Record(e) \/ Deliver(e) \/ Confirm(e)

SafeSpec == Init /\ [][Next]_vars

FirstDelivery(e) == delivered[e] = 0 /\ Deliver(e)

\* The liveness half of the promise: a recorded event is delivered and then
\* confirmed. Recording is up to the clients.
Spec ==
    /\ SafeSpec
    /\ \A e \in Events : WF_vars(FirstDelivery(e)) /\ WF_vars(Confirm(e))

=============================================================================
