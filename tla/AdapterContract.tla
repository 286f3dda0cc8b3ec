---------------------------- MODULE AdapterContract ----------------------------
(***************************************************************************)
(* What the durable release runtime may assume of a release adapter.  An   *)
(* attempt is handed over once; the provider's page may come to see its    *)
(* text at any later time, even after the answer; the answer is            *)
(* FAILED_BEFORE_EGRESS only if that never happens, SUBMISSION_OBSERVED    *)
(* only if it has, and OUTCOME_UNKNOWN says nothing.  Module Release takes *)
(* its adapter to be this one; module Bridge shows the Chrome bridge is.   *)
(***************************************************************************)
CONSTANTS Attempts, None

VARIABLES fate,   \* what became of each attempt
          answer  \* what the adapter said of it

vars == <<fate, answer>>

Init ==
  /\ fate = [t \in Attempts |-> "new"]
  /\ answer = [t \in Attempts |-> None]

Hand(t) ==
  /\ fate[t] = "new"
  /\ fate' = [fate EXCEPT ![t] = "inflight"]
  /\ UNCHANGED answer

Expose(t) ==
  /\ fate[t] = "inflight"
  /\ fate' = [fate EXCEPT ![t] = "exposed"]
  /\ UNCHANGED answer

Refuse(t) ==
  /\ fate[t] \in {"new", "inflight"} /\ answer[t] = None
  /\ fate' = [fate EXCEPT ![t] = "refused"]
  /\ answer' = [answer EXCEPT ![t] = "FAILED_BEFORE_EGRESS"]

Say(t) ==
  /\ fate[t] \in {"inflight", "exposed"} /\ answer[t] = None
  /\ \E said \in {"OUTCOME_UNKNOWN"}
                 \cup (IF fate[t] = "exposed" THEN {"SUBMISSION_OBSERVED"} ELSE {}) :
       answer' = [answer EXCEPT ![t] = said]
  /\ UNCHANGED fate

Next == \E t \in Attempts : Hand(t) \/ Expose(t) \/ Refuse(t) \/ Say(t)

Spec == Init /\ [][Next]_vars
=============================================================================
