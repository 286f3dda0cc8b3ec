------------------------------- MODULE MCSession -------------------------------
(***************************************************************************)
(* Small instances of Session for TLC.                                     *)
(***************************************************************************)
EXTENDS Session, TLC

CONSTANTS d1, d2, x1, x2
=============================================================================
