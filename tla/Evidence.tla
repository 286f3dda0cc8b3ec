------------------------------- MODULE Evidence -------------------------------
(***************************************************************************)
(* The two checks of one anchored batch, over the same network: the fast   *)
(* confirmation that lets a record be sent, and the recipient's check of   *)
(* the archive.  They share no state of the program, so one behaviour is   *)
(* one or the other.                                                       *)
(***************************************************************************)
EXTENDS FastConfirm, Portable

vars == <<batch, placed, fastVars, portableVars>>

Batches == {SubSeq(Digests, 1, n) : n \in 1 .. Len(Digests)}

\* A payload of one record is submitted.
Confirming ==
  /\ batch = SubSeq(Digests, 1, 1) /\ placed = 0
  /\ FastInit /\ PortableInit

\* A batch was archived some time ago, or never.
Receiving ==
  /\ batch \in Batches /\ placed \in {0, Interval + 1, Rounds}
  /\ PortableInit
  /\ operators = CHOOSE two \in Configurations : TRUE
  /\ liar = None /\ wait = FullWait /\ now = 0
  /\ observer = [i \in 1 .. 2 |-> Gone(Starting)] /\ evidence = None /\ outcome = "elsewhere"

Init == Confirming \/ Receiving

Next ==
  \/ outcome # "elsewhere" /\ FastNext /\ UNCHANGED portableVars
  \/ outcome = "elsewhere" /\ Len(batch) = 2 /\ PortableNext /\ UNCHANGED <<batch, placed, fastVars>>

Spec == Init /\ [][Next]_vars /\ FastFairness

-----------------------------------------------------------------------------
(* Properties.                                                             *)

\* Every record of a batch has a proof that is accepted, the root is the one of the standard's tree
\* at every size, and no proof, of whatever claimed size, place or path, is accepted for a record
\* that is not in the batch, or for another place in a batch of that size (merkleRoot, inclusion,
\* verifyInclusion).
InclusionSound == bundle = None /\ outcome = "elsewhere" => InclusionExact(batch, {Digests[i] : i \in DOMAIN Digests})
=============================================================================
