----------------------------- MODULE JobStates ------------------------------
(***************************************************************************)
(* The statuses of a pipeline job (packages/core/pipeline/models.py) and    *)
(* the table of transitions PipelineService allows. "absent" is a job whose *)
(* row was not inserted yet.                                                *)
(***************************************************************************)

JobStatus == {"queued", "running", "completed", "failed"}

IsFinal(s) == s \in {"completed", "failed"}

Allowed ==
    {<<"queued", "running">>, <<"queued", "failed">>,
     <<"running", "completed">>, <<"running", "failed">>,
     <<"failed", "queued">>}

MayBecome(s, t) == <<s, t>> \in Allowed

=============================================================================
