---------------------------- MODULE MCLocalStore ----------------------------
(***************************************************************************)
(* An instance of LocalStore for TLC: three requests over two names and     *)
(* three contents, one of them without any text.                            *)
(***************************************************************************)
EXTENDS LocalStore, TLC

CONSTANTS f1, f2, c1, c2, scan, r1, r2, r3

MCNames == {f1, f2}
MCContents == {c1, c2, scan}
MCRequests == {r1, r2, r3}

\* A text with blanks at these positions.
Text(length, blanks) == [i \in 0..(length - 1) |-> i \in blanks]
MCPages == [c \in MCContents |->
    CASE c = c1 -> <<Text(11, {5, 7}), Text(3, {})>>
      [] c = c2 -> <<Text(13, {2, 4, 9}), Text(1, {}), Text(9, {}), Text(6, {3})>>
      [] c = scan -> <<>>]

\* Sound where only invariants and action properties are checked.
Symmetry == Permutations(MCRequests) \union Permutations(MCNames)
=============================================================================
