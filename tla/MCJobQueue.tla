----------------------------- MODULE MCJobQueue -----------------------------
(***************************************************************************)
(* Instances of JobQueue for TLC. Two ingest workers, so that duplicates    *)
(* and redeliveries of one job are processed side by side; one embedding    *)
(* worker behind them.                                                      *)
(***************************************************************************)
EXTENDS JobQueue, TLC

CONSTANTS w1, w2, v1, j1, e1, e2

MCWorkersOne == {w1}
MCWorkersTwo == {w1, w2}
MCEmbedWorkers == {v1}
MCNone == {}
MCIngestJobs == {j1}
MCEmbedJobsOne == {e1}
MCEmbedJobsTwo == {e1, e2}

\* Sound where only invariants are checked.
Symmetry == Permutations(MCWorkersTwo) \union Permutations(MCEmbedJobsTwo)
=============================================================================
