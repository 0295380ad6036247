----------------------------- MODULE MCAccounts -----------------------------
(***************************************************************************)
(* An instance of Accounts for TLC: a founder with a tab, and a keyring that *)
(* he and a guest use.                                                      *)
(***************************************************************************)
EXTENDS Accounts, TLC

CONSTANTS u1, u2, t1, k1, c1, c2

MCUsers == {u1, u2}
MCFounders == {u1}
MCTabs == {t1}
MCKeyrings == {k1}
MCUses == (t1 :> {u1}) @@ (k1 :> {u1, u2})
MCGivenRoles == {"viewer", "owner"}
MCGivenEmails == {None}
MCCalls == {c1, c2}
Symmetry == Permutations(MCCalls)
=============================================================================
