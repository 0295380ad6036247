------------------------------ MODULE MCOutbox ------------------------------
(***************************************************************************)
(* Instances of Outbox for TLC: two publishers, so that claims can overlap  *)
(* and go stale under each other; two job events and one change event, so   *)
(* that a batch holds several rows and a fault can strike between them.     *)
(***************************************************************************)
EXTENDS Outbox

CONSTANTS p1, p2, j1, j2, c1

MCPublishers == {p1, p2}
MCJobs == {j1, j2}
MCChanges == {c1}
=============================================================================
