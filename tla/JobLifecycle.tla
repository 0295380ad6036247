---------------------------- MODULE JobLifecycle ----------------------------
(***************************************************************************)
(* What PipelineService promises of a job's status: it starts queued and    *)
(* then moves along the table of allowed transitions only. The service      *)
(* checks the table in one transaction and writes in another; JobQueue.tla  *)
(* says when the promise holds all the same.                                *)
(***************************************************************************)
EXTENDS JobStates

CONSTANT Jobs

VARIABLE status

Init == status = [j \in Jobs |-> "absent"]

Create(j) ==
    /\ status[j] = "absent"
    /\ status' = [status EXCEPT ![j] = "queued"]

Transition(j) ==
    \E t \in JobStatus :
        /\ MayBecome(status[j], t)
        /\ status' = [status EXCEPT ![j] = t]

Next == \E j \in Jobs : Create(j) \/ Transition(j)

Spec == Init /\ [][Next]_status

=============================================================================
