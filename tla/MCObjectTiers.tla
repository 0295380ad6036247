--------------------------- MODULE MCObjectTiers ---------------------------
(***************************************************************************)
(* An instance of ObjectTiers for TLC: two objects and two runs.            *)
(***************************************************************************)
EXTENDS ObjectTiers, TLC

CONSTANTS o1, o2, m1, m2, up1, r1

MCKeys == {o1, o2}
MCMovers == {m1, m2}
MCUploaders == {up1}
MCReaders == {r1}
=============================================================================
