----------------------------- MODULE MCRendezvous -----------------------------
(***************************************************************************)
(* Small instances of Rendezvous for TLC.                                  *)
(***************************************************************************)
EXTENDS Rendezvous

CONSTANTS p1, p2
=============================================================================
