------------------------------ MODULE MCFounding ------------------------------
(***************************************************************************)
(* A small instance of Founding for TLC.                                   *)
(***************************************************************************)
EXTENDS Founding, TLC

CONSTANTS k1, k2, k3, e1, u1

Symmetric == Permutations(VaultKeys \ {FirstKey})
=============================================================================
