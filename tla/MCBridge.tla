------------------------------- MODULE MCBridge -------------------------------
(***************************************************************************)
(* Small instances of Bridge for TLC.                                      *)
(***************************************************************************)
EXTENDS Bridge, TLC

CONSTANTS t1, t2, d1, d2

Symmetric == Permutations(Attempts) \cup Permutations(Destinations)
=============================================================================
