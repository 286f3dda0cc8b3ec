------------------------------ MODULE MCRelease ------------------------------
(***************************************************************************)
(* Small instances of Release for TLC.                                     *)
(***************************************************************************)
EXTENDS Release, TLC

CONSTANTS s1, s2, t1, t2, a1, a2, p1, p2

MCDigest == [p \in Payloads |-> <<"sha256", p>>]

\* Identifiers of one kind are interchangeable; liveness runs do not use this.
Symmetric == Permutations(SealIds) \cup Permutations(AttemptIds) \cup Permutations(AuthIds)
             \cup Permutations(Payloads)
=============================================================================
