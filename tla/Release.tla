------------------------------- MODULE Release -------------------------------
(***************************************************************************)
(* The release runtime: a journal of sealed versions and dispatch attempts *)
(* behind a serial queue (spikes/release/runtime.mjs), kept on disk        *)
(* through a temporary file, a rename and a directory sync, either by the  *)
(* runtime itself or by the vault release store                            *)
(* (spikes/demonstrator/store.mjs).                                        *)
(*                                                                         *)
(* mem is #state, disk is what a restart reads, stable is what survives a  *)
(* loss of power.  op is the call the serial queue is running; a call that *)
(* throws before it writes changes nothing and is not an action.           *)
(***************************************************************************)
EXTENDS Naturals

CONSTANTS SealIds,         \* randomUUID() values drawn by seal
          AttemptIds,      \* randomUUID() values drawn by release
          AuthIds,         \* randomUUID() values drawn by confirm and retry
          Payloads,        \* valid payloads
          Digest,          \* SHA-256 of the payload's JSON
          Scopes,          \* tab or conversation scopes
          Protocols,       \* adapter protocol names a request may carry
          RuntimeProtocol, \* the protocol this runtime was built with
          Modes,           \* the protection modes in use
          None             \* null

Classes  == {"PRE_DISCLOSURE_PROTECTED", "RETROSPECTIVE_CONTINUOUS"}
Outcomes == {"SUBMISSION_OBSERVED", "FAILED_BEFORE_EGRESS", "OUTCOME_UNKNOWN"}
Digests  == {Digest[p] : p \in Payloads}

Seal == [scope : Scopes, mode : Modes, payload : Payloads, digest : Digests,
         confirmation : Digests \cup {None}, authorization : AuthIds \cup {None},
         priorAttempt : AttemptIds \cup {None}, cancelled : BOOLEAN]

Attempt == [sealId : SealIds, digest : Digests, scope : Scopes, protocol : Protocols,
            confirmation : Digests \cup {None}, authorization : AuthIds \cup {None},
            priorAttempt : AttemptIds \cup {None}, releaseClass : Classes,
            state : Outcomes \cup {"DISPATCHING"}]

Journal == [seals : [SealIds -> Seal \cup {None}],
            attempts : [AttemptIds -> Attempt \cup {None}]]

EmptyJournal == [seals |-> [s \in SealIds |-> None],
                 attempts |-> [t \in AttemptIds |-> None]]

ASSUME ReleaseAssumption ==
  /\ DOMAIN Digest = Payloads
  /\ \A p, q \in Payloads : Digest[p] = Digest[q] => p = q
  /\ RuntimeProtocol \in Protocols
  /\ Modes \subseteq {"Continuous", "Sealed", "Always Protect"}
  /\ None \notin AuthIds \cup AttemptIds \cup SealIds \cup Digests
  /\ None \notin Seal /\ None \notin Attempt
-----------------------------------------------------------------------------
VARIABLES up,         \* the process is running
          mem,        \* #state
          disk,       \* the journal the next start reads
          stable,     \* the journal after the last completed directory sync
          op,         \* the call at the head of the serial queue
          used,       \* every identifier drawn so far
          fate,       \* what became of each attempt handed to the adapter
          dispatched, \* how often each attempt was handed to the adapter
          granted,    \* history: the authorizations people granted
          told        \* history: the answers callers received

world == <<fate, dispatched>>
vars  == <<up, mem, disk, stable, op, used, fate, dispatched, granted, told>>

Kinds == {"none", "init", "seal", "confirm", "retry", "cancel", "consume", "complete"}
Steps == {"idle", "verify", "write", "sync", "send", "sending"}

Idle == [kind |-> "none", pc |-> "idle", next |-> EmptyJournal, id |-> None, attempt |-> None]

Grant(a, id, seal) == [authorization |-> a, sealId |-> id,
                       digest |-> seal.digest, scope |-> seal.scope]

TypeOK ==
  /\ up \in BOOLEAN
  /\ mem \in Journal /\ disk \in Journal /\ stable \in Journal
  /\ op \in [kind : Kinds, pc : Steps, next : Journal,
             id : SealIds \cup {None}, attempt : AttemptIds \cup {None}]
  /\ used \subseteq SealIds \cup AttemptIds \cup AuthIds
  /\ fate \in [AttemptIds -> {"unsent", "inflight", "exposed", "refused"}]
  /\ dispatched \in [AttemptIds -> Nat]
  /\ granted \subseteq [authorization : AuthIds, sealId : SealIds,
                        digest : Digests, scope : Scopes]
  /\ told \subseteq [answer : {"cancelled", "observed"}, id : SealIds]

Init ==
  /\ up = FALSE
  /\ mem = EmptyJournal /\ disk = EmptyJournal /\ stable = EmptyJournal
  /\ op = Idle
  /\ used = {}
  /\ fate = [t \in AttemptIds |-> "unsent"]
  /\ dispatched = [t \in AttemptIds |-> 0]
  /\ granted = {} /\ told = {}
-----------------------------------------------------------------------------
(* Calls at the head of the serial queue, up to their first write.         *)

Ready == up /\ op.pc = "idle"

HasSeal(id, scope) == mem.seals[id] # None /\ mem.seals[id].scope = scope

Persist(kind, next, id, t) ==
  op' = [kind |-> kind, pc |-> "write", next |-> next, id |-> id, attempt |-> t]

WithSeal(journal, id, seal) == [journal EXCEPT !.seals[id] = seal]

SealPayload(id, scope, payload, mode) ==
  /\ Ready /\ id \notin used
  /\ used' = used \cup {id}
  /\ Persist("seal",
       WithSeal(mem, id, [scope |-> scope, mode |-> mode, payload |-> payload,
                          digest |-> Digest[payload], confirmation |-> None,
                          authorization |-> None, priorAttempt |-> None, cancelled |-> FALSE]),
       id, None)
  /\ UNCHANGED <<up, mem, disk, stable, world, granted, told>>

Confirm(id, scope, expectedDigest) ==
  /\ Ready /\ HasSeal(id, scope)
  /\ mem.seals[id].mode # "Continuous"
  /\ mem.seals[id].digest = expectedDigest
  /\ mem.seals[id].confirmation = None /\ ~mem.seals[id].cancelled
  /\ op' = [kind |-> "confirm", pc |-> "verify", next |-> mem, id |-> id, attempt |-> None]
  /\ UNCHANGED <<up, mem, disk, stable, used, world, granted, told>>

\* Mutant: the digest inside the confirmation is not compared.
ConfirmedAnyDigest(d, a) ==
  LET id == op.id
      seal == mem.seals[id]
  IN /\ op.pc = "verify"
     /\ a \notin used
     /\ used' = used \cup {a}
     /\ granted' = granted \cup {Grant(a, id, seal)}
     /\ Persist("confirm",
          WithSeal(mem, id, [seal EXCEPT !.confirmation = d, !.authorization = a]), id, None)
     /\ UNCHANGED <<up, mem, disk, stable, world, told>>

\* The awaited confirmation callback resolves with a confirmation of digest d.
Confirmed(d, a) ==
  LET id == op.id
      seal == mem.seals[id]
  IN /\ op.pc = "verify"
     /\ d = seal.digest
     /\ a \notin used
     /\ used' = used \cup {a}
     /\ granted' = granted \cup {Grant(a, id, seal)}
     /\ Persist("confirm",
          WithSeal(mem, id, [seal EXCEPT !.confirmation = d, !.authorization = a]), id, None)
     /\ UNCHANGED <<up, mem, disk, stable, world, told>>

\* It rejects, returns nothing, or returns another version's confirmation.
ConfirmationRefused ==
  /\ op.pc = "verify"
  /\ op' = Idle
  /\ UNCHANGED <<up, mem, disk, stable, used, world, granted, told>>

\* Mutant: retry does not look at the outcome of the prior attempt.
RetryAnyOutcome(id, scope, t, explicit, a) ==
  /\ Ready /\ HasSeal(id, scope)
  /\ explicit
  /\ mem.attempts[t] # None /\ mem.seals[id].priorAttempt = t
  /\ mem.seals[id].authorization = None /\ ~mem.seals[id].cancelled
  /\ a \notin used
  /\ used' = used \cup {a}
  /\ granted' = granted \cup {Grant(a, id, mem.seals[id])}
  /\ Persist("retry", WithSeal(mem, id, [mem.seals[id] EXCEPT !.authorization = a]), id, None)
  /\ UNCHANGED <<up, mem, disk, stable, world, told>>

Retry(id, scope, t, explicit, a) ==
  /\ Ready /\ HasSeal(id, scope)
  /\ explicit
  /\ mem.attempts[t] # None /\ mem.attempts[t].sealId = id
  /\ mem.seals[id].priorAttempt = t
  /\ mem.attempts[t].releaseClass # "RETROSPECTIVE_CONTINUOUS"
  /\ mem.attempts[t].state \in {"OUTCOME_UNKNOWN", "FAILED_BEFORE_EGRESS"}
  /\ mem.seals[id].authorization = None /\ ~mem.seals[id].cancelled
  /\ a \notin used
  /\ used' = used \cup {a}
  /\ granted' = granted \cup {Grant(a, id, mem.seals[id])}
  /\ Persist("retry", WithSeal(mem, id, [mem.seals[id] EXCEPT !.authorization = a]), id, None)
  /\ UNCHANGED <<up, mem, disk, stable, world, told>>

\* Mutant: cancel does not ask whether the version was already attempted.
CancelAttempted(id, scope, expectedDigest) ==
  /\ Ready /\ HasSeal(id, scope)
  /\ mem.seals[id].digest = expectedDigest /\ ~mem.seals[id].cancelled
  /\ Persist("cancel",
       WithSeal(mem, id, [mem.seals[id] EXCEPT !.authorization = None, !.cancelled = TRUE]),
       id, None)
  /\ UNCHANGED <<up, mem, disk, stable, used, world, granted, told>>

Cancel(id, scope, expectedDigest) ==
  /\ Ready /\ HasSeal(id, scope)
  /\ mem.seals[id].digest = expectedDigest
  /\ mem.seals[id].priorAttempt = None /\ ~mem.seals[id].cancelled
  /\ Persist("cancel",
       WithSeal(mem, id, [mem.seals[id] EXCEPT !.authorization = None, !.cancelled = TRUE]),
       id, None)
  /\ UNCHANGED <<up, mem, disk, stable, used, world, granted, told>>

\* Mutant: the attempt is recorded but the seal keeps its authorization.
ConsumedNothing(id, t, protocol, class) ==
  LET seal == mem.seals[id]
      protected == class = "PRE_DISCLOSURE_PROTECTED"
  IN [seals |-> [mem.seals EXCEPT ![id] = [seal EXCEPT !.priorAttempt = t]],
      attempts |-> [mem.attempts EXCEPT ![t] =
                   [sealId |-> id, digest |-> seal.digest, scope |-> seal.scope,
                    protocol |-> protocol,
                    confirmation |-> IF protected THEN seal.confirmation ELSE None,
                    authorization |-> IF protected THEN seal.authorization ELSE None,
                    priorAttempt |-> IF protected THEN seal.priorAttempt ELSE None,
                    releaseClass |-> class, state |-> "DISPATCHING"]]]

\* The journal with the new attempt t of seal id, its authorization consumed.
Consumed(id, t, protocol, class) ==
  LET seal == mem.seals[id]
      protected == class = "PRE_DISCLOSURE_PROTECTED"
  IN [seals |-> [mem.seals EXCEPT ![id] =
                   [seal EXCEPT !.authorization = IF protected THEN None ELSE @,
                                !.priorAttempt = t]],
      attempts |-> [mem.attempts EXCEPT ![t] =
                   [sealId |-> id, digest |-> seal.digest, scope |-> seal.scope,
                    protocol |-> protocol,
                    confirmation |-> IF protected THEN seal.confirmation ELSE None,
                    authorization |-> IF protected THEN seal.authorization ELSE None,
                    priorAttempt |-> IF protected THEN seal.priorAttempt ELSE None,
                    releaseClass |-> class, state |-> "DISPATCHING"]]]

\* What both kinds of release require of the request before they draw an attempt.
Current(id, scope, expectedDigest, currentPayload, protocol) ==
  /\ HasSeal(id, scope)
  /\ protocol = RuntimeProtocol
  /\ expectedDigest = mem.seals[id].digest
  /\ Digest[currentPayload] = mem.seals[id].digest

Release(id, scope, expectedDigest, currentPayload, protocol, t) ==
  /\ Ready /\ Current(id, scope, expectedDigest, currentPayload, protocol)
  /\ mem.seals[id].mode # "Continuous" /\ ~mem.seals[id].cancelled
  /\ mem.seals[id].confirmation # None /\ mem.seals[id].authorization # None
  /\ t \notin used
  /\ used' = used \cup {t}
  /\ Persist("consume", Consumed(id, t, protocol, "PRE_DISCLOSURE_PROTECTED"), id, t)
  /\ UNCHANGED <<up, mem, disk, stable, world, granted, told>>

ReleaseContinuous(id, scope, expectedDigest, currentPayload, protocol, t) ==
  /\ Ready /\ Current(id, scope, expectedDigest, currentPayload, protocol)
  /\ mem.seals[id].mode = "Continuous"
  /\ mem.seals[id].priorAttempt = None
  /\ t \notin used
  /\ used' = used \cup {t}
  /\ Persist("consume", Consumed(id, t, protocol, "RETROSPECTIVE_CONTINUOUS"), id, t)
  /\ UNCHANGED <<up, mem, disk, stable, world, granted, told>>
-----------------------------------------------------------------------------
(* persist: temporary file, rename, directory sync, then #state.           *)

\* Where the call goes when it throws: init fails the whole start.
Abandon ==
  /\ op' = Idle
  /\ up' = (op.kind # "init")
  /\ mem' = IF op.kind = "init" THEN EmptyJournal ELSE mem

\* The temporary file cannot be written, or a fault hook before it throws.
WriteFails ==
  /\ op.pc = "write"
  /\ Abandon
  /\ UNCHANGED <<disk, stable, used, world, granted, told>>

\* Mutant: the caller goes on after the rename, without the directory sync.
RenameUnsynced ==
  /\ op.pc = "write"
  /\ disk' = op.next
  /\ mem' = op.next
  /\ op' = IF op.kind = "consume" THEN [op EXCEPT !.pc = "send"] ELSE Idle
  /\ UNCHANGED <<up, stable, used, world, granted, told>>

Rename ==
  /\ op.pc = "write"
  /\ disk' = op.next
  /\ op' = [op EXCEPT !.pc = "sync"]
  /\ UNCHANGED <<up, mem, stable, used, world, granted, told>>

\* The rename happened, the directory sync did not: #state stays behind disk.
SyncFails ==
  /\ op.pc = "sync"
  /\ Abandon
  /\ UNCHANGED <<disk, stable, used, world, granted, told>>

\* What the caller learns when the write it waits for is durable.
Answers ==
  {[answer |-> "cancelled", id |-> s] : s \in {s \in SealIds : op.kind = "cancel" /\ op.id = s}}
  \cup
  {[answer |-> "observed", id |-> s] : s \in {s \in SealIds :
      /\ op.kind = "complete" /\ op.id = s
      /\ op.next.attempts[op.attempt].state = "SUBMISSION_OBSERVED"}}

Sync ==
  /\ op.pc = "sync"
  /\ stable' = disk
  /\ mem' = op.next
  /\ op' = IF op.kind = "consume" THEN [op EXCEPT !.pc = "send"] ELSE Idle
  /\ told' = told \cup Answers
  /\ UNCHANGED <<up, disk, used, world, granted>>
-----------------------------------------------------------------------------
(* The dispatch callback and what the adapter does with the attempt.       *)

\* The hook after consumption throws: the attempt stays DISPATCHING.
FaultAfterConsumption ==
  /\ op.pc = "send"
  /\ op' = Idle
  /\ UNCHANGED <<up, mem, disk, stable, used, world, granted, told>>

Dispatch ==
  /\ op.pc = "send"
  /\ op' = [op EXCEPT !.pc = "sending"]
  /\ dispatched' = [dispatched EXCEPT ![op.attempt] = @ + 1]
  /\ fate' = [fate EXCEPT ![op.attempt] = "inflight"]
  /\ UNCHANGED <<up, mem, disk, stable, used, granted, told>>

\* The extension submits: it may do so after the runtime stopped waiting or died.
Expose(t) ==
  /\ fate[t] = "inflight"
  /\ fate' = [fate EXCEPT ![t] = "exposed"]
  /\ UNCHANGED <<up, mem, disk, stable, op, used, dispatched, granted, told>>

\* The adapter answers: observed only after exposure, failed only when nothing
\* will be exposed, unknown at any time (a throw or a foreign value counts as that).
AdapterMayAnswer(t, outcome) ==
  /\ outcome = "SUBMISSION_OBSERVED" => fate[t] = "exposed"
  /\ outcome = "FAILED_BEFORE_EGRESS" => fate[t] = "inflight"

\* The journal with the outcome of attempt t recorded.
Settled(t, outcome) ==
  [mem EXCEPT !.attempts = [mem.attempts EXCEPT ![t] = [mem.attempts[t] EXCEPT !.state = outcome]]]

Answered(outcome) ==
  LET t == op.attempt
  IN /\ op.pc = "sending"
     /\ AdapterMayAnswer(t, outcome)
     /\ fate' = IF outcome = "FAILED_BEFORE_EGRESS" THEN [fate EXCEPT ![t] = "refused"] ELSE fate
     /\ Persist("complete", Settled(t, outcome), op.id, t)
     /\ UNCHANGED <<up, mem, disk, stable, used, dispatched, granted, told>>
-----------------------------------------------------------------------------
(* Crash and restart.                                                      *)

Crash ==
  /\ up
  /\ up' = FALSE
  /\ op' = Idle
  /\ mem' = EmptyJournal
  /\ disk' \in {disk, stable}
  /\ UNCHANGED <<stable, used, world, granted, told>>

\* Mutants: init invents an outcome name, takes an interrupted attempt for one that
\* never left, or drops it.
RepairedTo(journal, state) ==
  [journal EXCEPT !.attempts = [t \in AttemptIds |->
     IF journal.attempts[t] # None /\ journal.attempts[t].state = "DISPATCHING"
     THEN [journal.attempts[t] EXCEPT !.state = state]
     ELSE journal.attempts[t]]]
RecoveredMisnamed(journal) == RepairedTo(journal, "INTERRUPTED")
RecoveredAsFailed(journal) == RepairedTo(journal, "FAILED_BEFORE_EGRESS")
RecoveredForgetting(journal) ==
  [journal EXCEPT !.attempts = [t \in AttemptIds |->
     IF journal.attempts[t] # None /\ journal.attempts[t].state = "DISPATCHING"
     THEN None ELSE journal.attempts[t]]]

\* init: no attempt of the previous process is still being dispatched.
Recovered(journal) ==
  [journal EXCEPT !.attempts = [t \in AttemptIds |->
     IF journal.attempts[t] # None /\ journal.attempts[t].state = "DISPATCHING"
     THEN [journal.attempts[t] EXCEPT !.state = "OUTCOME_UNKNOWN"]
     ELSE journal.attempts[t]]]

Start ==
  /\ ~up
  /\ up' = TRUE
  /\ mem' = Recovered(disk)
  /\ Persist("init", Recovered(disk), None, None)
  /\ UNCHANGED <<disk, stable, used, world, granted, told>>
-----------------------------------------------------------------------------
Call ==
  \/ \E id \in SealIds, scope \in Scopes, p \in Payloads, mode \in Modes :
        SealPayload(id, scope, p, mode)
  \/ \E id \in SealIds, scope \in Scopes, d \in Digests :
        Confirm(id, scope, d) \/ Cancel(id, scope, d)
  \/ \E id \in SealIds, scope \in Scopes, t \in AttemptIds, explicit \in BOOLEAN, a \in AuthIds :
        Retry(id, scope, t, explicit, a)
  \/ \E id \in SealIds, scope \in Scopes, d \in Digests, p \in Payloads,
        protocol \in Protocols, t \in AttemptIds :
        Release(id, scope, d, p, protocol, t) \/ ReleaseContinuous(id, scope, d, p, protocol, t)

\* The running call's own steps, each of which ends in a finite time.
Progress ==
  \/ \E d \in Digests, a \in AuthIds : Confirmed(d, a)
  \/ ConfirmationRefused
  \/ WriteFails \/ Rename \/ SyncFails \/ Sync
  \/ FaultAfterConsumption \/ Dispatch
  \/ \E outcome \in Outcomes : Answered(outcome)

Next == Call \/ Progress \/ (\E t \in AttemptIds : Expose(t)) \/ Crash \/ Start

Spec == Init /\ [][Next]_vars

-----------------------------------------------------------------------------
(* Properties.                                                             *)

Live(journal) == {journal.seals[s].authorization : s \in {s \in SealIds : journal.seals[s] # None}}

\* Once an attempt has been handed to the adapter, a loss of power at any later
\* moment restores a journal that records it and in which the authorization it
\* consumed is gone (release persists, syncs and only then dispatches).
ConsumedBeforeDispatch ==
  \A t \in AttemptIds : dispatched[t] > 0 =>
    \A journal \in {disk, stable} \cup (IF up THEN {mem} ELSE {}) :
      /\ journal.attempts[t] # None
      /\ journal.attempts[t].authorization # None =>
           journal.attempts[t].authorization \notin Live(journal)

\* One authorization pays for one dispatch: no attempt is handed over twice and no
\* two dispatched attempts share an authorization, across crashes, failed writes,
\* racing releases and retries.
AuthorizationSpentOnce ==
  \A t, u \in AttemptIds : dispatched[t] > 0 /\ dispatched[u] > 0 =>
    /\ dispatched[t] = 1
    /\ t # u => \/ stable.attempts[t].authorization = None
                \/ stable.attempts[t].authorization # stable.attempts[u].authorization

\* Everything dispatched as protected is the version, scope and digest some person
\* authorized, confirmed for that very digest and under this runtime's protocol.
ExactVersionAuthorized ==
  \A t \in AttemptIds : dispatched[t] > 0 /\ stable.attempts[t].releaseClass = "PRE_DISCLOSURE_PROTECTED" =>
    LET attempt == stable.attempts[t]
    IN /\ [authorization |-> attempt.authorization, sealId |-> attempt.sealId,
           digest |-> attempt.digest, scope |-> attempt.scope] \in granted
       /\ attempt.confirmation = attempt.digest
       /\ attempt.protocol = RuntimeProtocol

\* A cancellation the caller was told of is final for a protected version: nothing
\* of it was dispatched before and nothing is dispatched after, restarts included.
CancelIsFinal ==
  \A s \in SealIds, t \in AttemptIds :
    [answer |-> "cancelled", id |-> s] \in told /\ stable.seals[s].mode # "Continuous" =>
      ~(dispatched[t] > 0 /\ stable.attempts[t].sealId = s)

\* A recorded outcome is true of the page: refused attempts never reach it, observed
\* ones did, wherever the record is read.
RecordIsTrue ==
  \A t \in AttemptIds : \A journal \in {disk, stable} \cup (IF up THEN {mem} ELSE {}) :
    journal.attempts[t] # None =>
      /\ journal.attempts[t].state = "SUBMISSION_OBSERVED" => fate[t] = "exposed"
      /\ journal.attempts[t].state = "FAILED_BEFORE_EGRESS" => fate[t] = "refused"

\* After a caller was told that a version's submission was observed, that version is
\* never dispatched again: retry refuses it, and no restart forgets it.
ObservedIsFinal ==
  [][\A t \in AttemptIds : dispatched'[t] > dispatched[t] =>
       [answer |-> "observed", id |-> mem.attempts[t].sealId] \notin told]_vars

\* The durable history only grows: attempts are not forgotten or rewritten, and an
\* attempt with a final outcome keeps it through every later write and restart.
DurableHistoryGrows ==
  [][\A t \in AttemptIds : stable.attempts[t] # None =>
       /\ stable'.attempts[t] # None
       /\ \/ stable'.attempts[t] = stable.attempts[t]
          \/ /\ stable.attempts[t].state = "DISPATCHING"
             /\ [stable'.attempts[t] EXCEPT !.state = "DISPATCHING"] = stable.attempts[t]]_vars

\* What callers and the journal once knew of an attempt stays so.
HistoryIsFinal == ObservedIsFinal /\ DurableHistoryGrows

-----------------------------------------------------------------------------
(* The runtime implements the ledger: an authorization is spent once the   *)
(* attempt that carries it survives a loss of power.                       *)

SpentOn(a) == {t \in AttemptIds : stable.attempts[t] # None /\ stable.attempts[t].authorization = a}

SpentBy == [a \in AuthIds |-> IF SpentOn(a) = {} THEN None ELSE CHOOSE t \in SpentOn(a) : TRUE]

Retrospective(t) ==
  stable.attempts[t] # None /\ stable.attempts[t].releaseClass = "RETROSPECTIVE_CONTINUOUS"

ProtectedSends == [t \in AttemptIds |-> IF Retrospective(t) THEN 0 ELSE dispatched[t]]

Ledger == INSTANCE ReleaseLedger WITH
            granted <- {g.authorization : g \in granted}, spentBy <- SpentBy, sends <- ProtectedSends

\* Every step of the runtime, crashes and failed writes included, is a step of the
\* ledger or invisible to it: grants, durable spending and single sends only.
ImplementsLedger == Ledger!LedgerSpec
=============================================================================
