----------------------------- MODULE MCPipeline -----------------------------
(***************************************************************************)
(* Instances of Pipeline for TLC.                                           *)
(***************************************************************************)
EXTENDS Pipeline, TLC

CONSTANTS p1, p2, w1, w2, v1, j1, e1, e2

MCPublishersOne == {p1}
MCPublishersTwo == {p1, p2}
MCIngestWorkersOne == {w1}
MCIngestWorkersTwo == {w1, w2}
MCEmbedWorkers == {v1}
MCIngestJobs == {j1}
MCEmbedJobsOne == {e1}
MCEmbedJobsTwo == {e1, e2}
MCNone == {}
=============================================================================
