------------------------------ MODULE MCEvidence ------------------------------
(***************************************************************************)
(* A small instance of Evidence for TLC.                                   *)
(***************************************************************************)
EXTENDS Evidence, TLC

CONSTANTS d1, d2, d3, d4, d5, d6, d7, d8, d9

MCDigests == <<d1, d2, d3, d4, d5, d6, d7, d8, d9>>
=============================================================================
