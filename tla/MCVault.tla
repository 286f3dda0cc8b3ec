------------------------------- MODULE MCVault -------------------------------
(***************************************************************************)
(* Small instances of Vault for TLC.                                       *)
(***************************************************************************)
EXTENDS Vault, TLC

CONSTANTS k1, k2, k3, e1, e2, u1, u2

Symmetric == Permutations(VaultKeys \ {FirstKey}) \cup Permutations(Contents) \cup Permutations(Procs)
=============================================================================
