------------------------------ MODULE MCDesktop ------------------------------
(***************************************************************************)
(* A small instance of Desktop for TLC.                                    *)
(***************************************************************************)
EXTENDS Desktop, TLC

CONSTANTS here, there, r1, r2, o1

Symmetric == Permutations({here, there}) \cup Permutations(Receipts)
=============================================================================
