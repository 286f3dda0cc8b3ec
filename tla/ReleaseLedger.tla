---------------------------- MODULE ReleaseLedger ----------------------------
(***************************************************************************)
(* What the release runtime promises a person, without journals, files,    *)
(* crashes or modes: an authorization is granted once, spent durably by    *)
(* one attempt, and only a spent one is handed to the adapter, once.       *)
(***************************************************************************)
EXTENDS Naturals

CONSTANTS AuthIds, AttemptIds, None

VARIABLES granted, \* the authorizations people granted
          spentBy, \* the attempt each authorization was spent on, or None
          sends    \* how often each attempt was handed to the adapter

ledger == <<granted, spentBy, sends>>

LedgerInit ==
  /\ granted = {}
  /\ spentBy = [a \in AuthIds |-> None]
  /\ sends = [t \in AttemptIds |-> 0]

GrantOne ==
  /\ \E a \in AuthIds \ granted : granted' = granted \cup {a}
  /\ UNCHANGED <<spentBy, sends>>

\* Authorizations become spent, for good, on attempts of their own not yet sent.
Spend ==
  /\ spentBy' # spentBy
  /\ \A a \in AuthIds :
       \/ spentBy'[a] = spentBy[a]
       \/ /\ spentBy[a] = None /\ a \in granted
          /\ spentBy'[a] \in AttemptIds /\ sends[spentBy'[a]] = 0
          /\ \A b \in AuthIds \ {a} : spentBy'[b] # spentBy'[a]
  /\ UNCHANGED <<granted, sends>>

\* Only an attempt that durably spent an authorization reaches the adapter, once.
SendOne ==
  /\ \E t \in AttemptIds :
       /\ sends[t] = 0
       /\ \E a \in AuthIds : spentBy[a] = t
       /\ sends' = [sends EXCEPT ![t] = 1]
  /\ UNCHANGED <<granted, spentBy>>

LedgerNext == GrantOne \/ Spend \/ SendOne

LedgerSpec == LedgerInit /\ [][LedgerNext]_ledger
=============================================================================
