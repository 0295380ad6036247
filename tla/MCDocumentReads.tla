-------------------------- MODULE MCDocumentReads --------------------------
(***************************************************************************)
(* An instance of DocumentReads for TLC: two requests of a user, who may    *)
(* become a manager, for one document of his or of another one.             *)
(***************************************************************************)
EXTENDS DocumentReads, TLC

CONSTANTS u1, u2, g1, d1, r1, r2

MCUsers == {u1}
MCOwners == {u1, u2}
MCGroups == {g1}
MCDocs == {d1}
MCRequests == {r1, r2}

\* Sound where only invariants and action properties are checked.
Symmetry == Permutations(MCRequests)
=============================================================================
