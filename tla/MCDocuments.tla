---------------------------- MODULE MCDocuments ----------------------------
(***************************************************************************)
(* Instances of Documents for TLC: names that can come by the same contents,*)
(* an ingest worker and the sync worker indexing side by side, on one       *)
(* directory or, as in docker-compose.production.yml, each on its own.      *)
(***************************************************************************)
EXTENDS Documents, TLC

CONSTANTS f1, f2, c1, c2, w1, h1, h2, h3

MCFiles == {f1, f2}
MCContents == {c1, c2}
MCWorkers == {w1}

OneFile == {f1}

\* Others take files out.
TakenOut == {None}

OneHost == {h1}
AtOneHost == [p \in Indexers |-> h1]

\* The API, and with it the manager, on h1, the ingest worker on h2, the sync worker on h3.
ThreeHosts == {h1, h2, h3}
Apart == [p \in Indexers |-> IF p = w1 THEN h2 ELSE IF p = Syncer THEN h3 ELSE h1]

\* Sound where only invariants and action properties are checked.
Symmetry == Permutations(MCFiles) \union Permutations(MCContents)
ContentSymmetry == Permutations(MCContents)
=============================================================================
