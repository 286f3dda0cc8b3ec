---------------------------- MODULE ReleaseProofs ----------------------------
(***************************************************************************)
(* Proofs about Release for any number of seals, attempts, authorizations, *)
(* payloads and scopes.                                                    *)
(***************************************************************************)
EXTENDS Release, TLAPS

(***************************************************************************)
(* The shapes of journals and of the running call.                         *)
(***************************************************************************)

OpType == [kind : Kinds, pc : Steps, next : Journal,
           id : SealIds \cup {None}, attempt : AttemptIds \cup {None}]

LEMMA EmptyType == EmptyJournal \in Journal
  BY DEF EmptyJournal, Journal

LEMMA IdleType == Idle \in OpType
  BY EmptyType DEF Idle, OpType, Kinds, Steps

LEMMA SealType ==
  ASSUME NEW j \in Journal, NEW s \in SealIds, j.seals[s] # None
  PROVE  j.seals[s] \in Seal
  BY DEF Journal

LEMMA AttemptType ==
  ASSUME NEW j \in Journal, NEW t \in AttemptIds, j.attempts[t] # None
  PROVE  j.attempts[t] \in Attempt
  BY DEF Journal

LEMMA WithSealType ==
  ASSUME NEW j \in Journal, NEW s \in SealIds, NEW seal \in Seal
  PROVE  WithSeal(j, s, seal) \in Journal
  BY DEF Journal, WithSeal

LEMMA RecoveredType == ASSUME NEW j \in Journal PROVE Recovered(j) \in Journal
  <1>1. ASSUME NEW t \in AttemptIds
        PROVE  Recovered(j).attempts[t] \in Attempt \cup {None}
    <2>1. CASE j.attempts[t] # None /\ j.attempts[t].state = "DISPATCHING"
      <3>1. j.attempts[t] \in Attempt BY <2>1, AttemptType
      <3>2. [j.attempts[t] EXCEPT !.state = "OUTCOME_UNKNOWN"] \in Attempt
        BY <3>1 DEF Attempt, Outcomes
      <3> QED BY <2>1, <3>2 DEF Recovered, Journal
    <2>2. CASE ~(j.attempts[t] # None /\ j.attempts[t].state = "DISPATCHING")
      BY <2>2 DEF Recovered, Journal
    <2> QED BY <2>1, <2>2
  <1>2. Recovered(j).seals = j.seals BY DEF Recovered, Journal
  <1>3. Recovered(j).attempts = [t \in AttemptIds |-> Recovered(j).attempts[t]]
    BY DEF Recovered, Journal
  <1>4. Recovered(j) = [seals |-> Recovered(j).seals, attempts |-> Recovered(j).attempts]
    BY DEF Recovered, Journal
  <1> QED BY <1>1, <1>2, <1>3, <1>4 DEF Journal

LEMMA SettledType ==
  ASSUME mem \in Journal, NEW t \in AttemptIds, mem.attempts[t] # None, NEW outcome \in Outcomes
  PROVE  Settled(t, outcome) \in Journal
  <1>1. mem.attempts[t] \in Attempt BY AttemptType
  <1>2. [mem.attempts[t] EXCEPT !.state = outcome] \in Attempt
    BY <1>1 DEF Attempt
  <1> QED BY <1>2 DEF Settled, Journal

LEMMA ConsumedType ==
  ASSUME mem \in Journal, NEW id \in SealIds, mem.seals[id] # None,
         NEW t \in AttemptIds, NEW protocol \in Protocols, NEW class \in Classes
  PROVE  /\ Consumed(id, t, protocol, class) \in Journal
         /\ Consumed(id, t, protocol, class).seals[id] # None
         /\ Consumed(id, t, protocol, class).attempts[t] # None
  <1>1. mem.seals[id] \in Seal BY SealType
  <1>2. Consumed(id, t, protocol, class).seals[id] \in Seal
    BY <1>1 DEF Consumed, Seal, Journal
  <1>3. Consumed(id, t, protocol, class).attempts[t] \in Attempt
    BY <1>1 DEF Consumed, Seal, Attempt, Journal
  <1>4. Consumed(id, t, protocol, class) \in Journal
    BY <1>2, <1>3 DEF Consumed, Journal
  <1> QED BY <1>2, <1>3, <1>4, ReleaseAssumption
-----------------------------------------------------------------------------
(***************************************************************************)
(* The running call refers to things that exist.                           *)
(***************************************************************************)

OpRefers ==
  /\ op.pc = "verify" => op.id \in SealIds /\ mem.seals[op.id] # None
  /\ op.kind = "consume" => op.attempt \in AttemptIds /\ op.next.attempts[op.attempt] # None
  /\ op.pc \in {"send", "sending"} => op.kind = "consume" /\ mem = op.next

LEMMA InitTyped == Init => TypeOK /\ OpRefers
  <1> SUFFICES ASSUME Init PROVE TypeOK /\ OpRefers
    OBVIOUS
  <1>1. op \in OpType BY IdleType DEF Init
  <1>2. dispatched \in [AttemptIds -> Nat]
    BY DEF Init
  <1>3. fate \in [AttemptIds -> {"unsent", "inflight", "exposed", "refused"}]
    BY DEF Init
  <1>4. up \in BOOLEAN /\ mem \in Journal /\ disk \in Journal /\ stable \in Journal
    BY EmptyType DEF Init
  <1>5. TypeOK BY <1>1, <1>2, <1>3, <1>4 DEF Init, TypeOK, OpType
  <1>6. OpRefers BY DEF Init, Idle, OpRefers
  <1> QED BY <1>5, <1>6

LEMMA StepTyped ==
  ASSUME TypeOK, OpRefers, [Next]_vars
  PROVE  TypeOK'
  <1>0. /\ mem \in Journal /\ disk \in Journal /\ stable \in Journal
        /\ op \in OpType /\ op.next \in Journal /\ op.id \in SealIds \cup {None}
        /\ op.attempt \in AttemptIds \cup {None}
    BY DEF TypeOK, OpType
  <1>1. ASSUME NEW kind \in Kinds, NEW next \in Journal, NEW id \in SealIds \cup {None},
               NEW t \in AttemptIds \cup {None}, Persist(kind, next, id, t)
        PROVE  op' \in OpType
    BY <1>1 DEF Persist, OpType, Steps
  <1>2. ASSUME NEW id \in SealIds, NEW scope \in Scopes, NEW p \in Payloads, NEW mode \in Modes,
               SealPayload(id, scope, p, mode)
        PROVE  TypeOK'
    <2>1. [scope |-> scope, mode |-> mode, payload |-> p, digest |-> Digest[p],
           confirmation |-> None, authorization |-> None, priorAttempt |-> None,
           cancelled |-> FALSE] \in Seal
      BY DEF Seal, Digests
    <2>2. op' \in OpType
      BY <1>0, <1>1, <1>2, <2>1, WithSealType DEF SealPayload, Kinds
    <2> QED BY <1>2, <2>2 DEF SealPayload, TypeOK, OpType, world
  <1>3. ASSUME NEW id \in SealIds, NEW scope \in Scopes, NEW d \in Digests,
               Confirm(id, scope, d)
        PROVE  TypeOK'
    <2>1. op' \in OpType
      BY <1>0, <1>3 DEF Confirm, OpType, Kinds, Steps
    <2> QED BY <1>3, <2>1 DEF Confirm, TypeOK, OpType, world
  <1>4. ASSUME NEW id \in SealIds, NEW scope \in Scopes, NEW d \in Digests,
               Cancel(id, scope, d)
        PROVE  TypeOK'
    <2>1. mem.seals[id] \in Seal BY <1>0, <1>4, SealType DEF Cancel, HasSeal
    <2>2. [mem.seals[id] EXCEPT !.authorization = None, !.cancelled = TRUE] \in Seal
      BY <2>1 DEF Seal
    <2>3. op' \in OpType
      BY <1>0, <1>1, <1>4, <2>2, WithSealType DEF Cancel, Kinds
    <2> QED BY <1>4, <2>3 DEF Cancel, TypeOK, OpType, world
  <1>5. ASSUME NEW id \in SealIds, NEW scope \in Scopes, NEW t \in AttemptIds,
               NEW explicit \in BOOLEAN, NEW a \in AuthIds, Retry(id, scope, t, explicit, a)
        PROVE  TypeOK'
    <2>1. mem.seals[id] \in Seal BY <1>0, <1>5, SealType DEF Retry, HasSeal
    <2>2. [mem.seals[id] EXCEPT !.authorization = a] \in Seal
      BY <2>1 DEF Seal
    <2>3. op' \in OpType
      BY <1>0, <1>1, <1>5, <2>2, WithSealType DEF Retry, Kinds
    <2>4. Grant(a, id, mem.seals[id]) \in
            [authorization : AuthIds, sealId : SealIds, digest : Digests, scope : Scopes]
      BY <2>1 DEF Grant, Seal
    <2> QED BY <1>5, <2>3, <2>4 DEF Retry, TypeOK, OpType, world
  <1>6. ASSUME NEW id \in SealIds, NEW scope \in Scopes, NEW d \in Digests, NEW p \in Payloads,
               NEW protocol \in Protocols, NEW t \in AttemptIds,
               Release(id, scope, d, p, protocol, t)
        PROVE  TypeOK'
    <2>1. op' \in OpType
      BY <1>0, <1>1, <1>6, ConsumedType DEF Release, Current, HasSeal, Kinds, Classes
    <2> QED BY <1>6, <2>1 DEF Release, TypeOK, OpType, world
  <1>7. ASSUME NEW id \in SealIds, NEW scope \in Scopes, NEW d \in Digests, NEW p \in Payloads,
               NEW protocol \in Protocols, NEW t \in AttemptIds,
               ReleaseContinuous(id, scope, d, p, protocol, t)
        PROVE  TypeOK'
    <2>1. op' \in OpType
      BY <1>0, <1>1, <1>7, ConsumedType DEF ReleaseContinuous, Current, HasSeal, Kinds, Classes
    <2> QED BY <1>7, <2>1 DEF ReleaseContinuous, TypeOK, OpType, world
  <1>8. ASSUME NEW d \in Digests, NEW a \in AuthIds, Confirmed(d, a)
        PROVE  TypeOK'
    <2>1. op.id \in SealIds /\ mem.seals[op.id] \in Seal
      BY <1>0, <1>8, SealType DEF Confirmed, OpRefers
    <2>2. [mem.seals[op.id] EXCEPT !.confirmation = d, !.authorization = a] \in Seal
      BY <2>1 DEF Seal
    <2>3. op' \in OpType
      BY <1>0, <1>1, <1>8, <2>1, <2>2, WithSealType DEF Confirmed, Kinds
    <2>4. Grant(a, op.id, mem.seals[op.id]) \in
            [authorization : AuthIds, sealId : SealIds, digest : Digests, scope : Scopes]
      BY <2>1 DEF Grant, Seal
    <2> QED BY <1>8, <2>3, <2>4 DEF Confirmed, TypeOK, OpType, world
  <1>9. CASE ConfirmationRefused
    BY <1>9, IdleType DEF ConfirmationRefused, TypeOK, OpType, world
  <1>10. CASE WriteFails
    BY <1>10, IdleType, EmptyType DEF WriteFails, Abandon, TypeOK, OpType, world
  <1>11. CASE Rename
    <2>1. op' \in OpType BY <1>0, <1>11 DEF Rename, OpType, Steps
    <2> QED BY <1>0, <1>11, <2>1 DEF Rename, TypeOK, OpType, world
  <1>12. CASE SyncFails
    BY <1>12, IdleType, EmptyType DEF SyncFails, Abandon, TypeOK, OpType, world
  <1>13. CASE Sync
    <2>1. op' \in OpType BY <1>0, <1>13, IdleType DEF Sync, OpType, Steps
    <2>2. Answers \subseteq [answer : {"cancelled", "observed"}, id : SealIds]
      BY DEF Answers
    <2> QED BY <1>0, <1>13, <2>1, <2>2 DEF Sync, TypeOK, OpType, world
  <1>14. CASE FaultAfterConsumption
    BY <1>14, IdleType DEF FaultAfterConsumption, TypeOK, OpType, world
  <1>15. CASE Dispatch
    <2>1. op' \in OpType BY <1>0, <1>15 DEF Dispatch, OpType, Steps
    <2>2. dispatched' \in [AttemptIds -> Nat]
      BY <1>15 DEF Dispatch, TypeOK, OpRefers
    <2>3. fate' \in [AttemptIds -> {"unsent", "inflight", "exposed", "refused"}]
      BY <1>15 DEF Dispatch, TypeOK
    <2> QED BY <1>0, <1>15, <2>1, <2>2, <2>3 DEF Dispatch, TypeOK, OpType, world
  <1>16. ASSUME NEW outcome \in Outcomes, Answered(outcome)
         PROVE  TypeOK'
    <2>0. op.pc = "sending" /\ op.attempt \in AttemptIds /\ mem.attempts[op.attempt] # None
      BY <1>16 DEF Answered, OpRefers
    <2>1. mem.attempts[op.attempt] \in Attempt
      BY <1>0, <2>0, AttemptType
    <2>2. Settled(op.attempt, outcome) \in Journal
      BY <1>0, <2>0, SettledType
    <2>3. op' \in OpType
      BY <1>0, <1>1, <1>16, <2>0, <2>2 DEF Answered, Kinds
    <2>4. fate' \in [AttemptIds -> {"unsent", "inflight", "exposed", "refused"}]
      BY <1>16 DEF Answered, TypeOK
    <2> QED BY <1>16, <2>3, <2>4 DEF Answered, TypeOK, OpType, world
  <1>17. ASSUME NEW t \in AttemptIds, Expose(t)
         PROVE  TypeOK'
    BY <1>17 DEF Expose, TypeOK, OpType, world
  <1>18. CASE Crash
    BY <1>0, <1>18, IdleType, EmptyType DEF Crash, TypeOK, OpType, world
  <1>19. CASE Start
    <2>1. op' \in OpType
      BY <1>0, <1>1, <1>19, RecoveredType DEF Start, Kinds
    <2> QED BY <1>0, <1>19, <2>1, RecoveredType DEF Start, TypeOK, OpType, world
  <1>20. CASE UNCHANGED vars
    BY <1>20 DEF vars, TypeOK, world
  <1> QED
    BY <1>2, <1>3, <1>4, <1>5, <1>6, <1>7, <1>8, <1>9, <1>10, <1>11, <1>12, <1>13, <1>14,
     <1>15, <1>16, <1>17, <1>18, <1>19, <1>20 DEF Next, Call, Progress

LEMMA StepRefers ==
  ASSUME TypeOK, OpRefers, [Next]_vars
  PROVE  OpRefers'
  <1>0. /\ mem \in Journal /\ op \in OpType /\ op.next \in Journal
    BY DEF TypeOK, OpType
  <1>1. CASE op' = Idle
    BY <1>1 DEF OpRefers, Idle
  <1>2. ASSUME NEW kind \in Kinds \ {"consume"}, NEW next, NEW id, NEW t, Persist(kind, next, id, t)
        PROVE  OpRefers'
    BY <1>2 DEF OpRefers, Persist
  <1>3. ASSUME NEW id \in SealIds, NEW t \in AttemptIds, NEW protocol \in Protocols,
               NEW class \in Classes, mem.seals[id] # None,
               Persist("consume", Consumed(id, t, protocol, class), id, t)
        PROVE  OpRefers'
    BY <1>0, <1>3, ConsumedType DEF OpRefers, Persist
  <1>4. CASE UNCHANGED <<mem, op>>
    BY <1>4 DEF OpRefers
  <1>5. CASE Call
    <2>1. ASSUME NEW id \in SealIds, NEW scope \in Scopes, NEW d \in Digests,
                 Confirm(id, scope, d)
          PROVE  OpRefers'
      BY <2>1 DEF Confirm, HasSeal, OpRefers
    <2>2. ASSUME NEW id \in SealIds, NEW scope \in Scopes, NEW d \in Digests, NEW p \in Payloads,
                 NEW protocol \in Protocols, NEW t \in AttemptIds,
                 Release(id, scope, d, p, protocol, t) \/ ReleaseContinuous(id, scope, d, p, protocol, t)
          PROVE  OpRefers'
      BY <1>3, <2>2 DEF Release, ReleaseContinuous, Current, HasSeal, Classes
    <2>3. ASSUME NEW id \in SealIds, NEW scope \in Scopes, NEW d \in Digests, Cancel(id, scope, d)
          PROVE  OpRefers'
      BY <1>2, <2>3 DEF Cancel, Kinds
    <2>4. ASSUME NEW id \in SealIds, NEW scope \in Scopes, NEW t \in AttemptIds,
                 NEW explicit \in BOOLEAN, NEW a \in AuthIds, Retry(id, scope, t, explicit, a)
          PROVE  OpRefers'
      BY <1>2, <2>4 DEF Retry, Kinds
    <2>5. ASSUME NEW id \in SealIds, NEW scope \in Scopes, NEW p \in Payloads, NEW mode \in Modes,
                 SealPayload(id, scope, p, mode)
          PROVE  OpRefers'
      BY <1>2, <2>5 DEF SealPayload, Kinds
    <2> QED BY <1>5, <2>1, <2>2, <2>3, <2>4, <2>5 DEF Call
  <1>6. CASE Progress
    <2>1. ASSUME NEW d \in Digests, NEW a \in AuthIds, Confirmed(d, a)
          PROVE  OpRefers'
      BY <1>2, <2>1 DEF Confirmed, Kinds
    <2>2. CASE ConfirmationRefused \/ WriteFails \/ SyncFails \/ FaultAfterConsumption
      BY <1>1, <2>2 DEF ConfirmationRefused, WriteFails, SyncFails, FaultAfterConsumption, Abandon
    <2>3. CASE Rename
      <3>1. op'.pc = "sync" /\ op'.kind = op.kind /\ op'.next = op.next /\ op'.attempt = op.attempt
        BY <1>0, <2>3 DEF Rename, OpType
      <3> QED BY <3>1 DEF OpRefers
    <2>4. CASE Sync
      <3>1. CASE op.kind = "consume"
        <4>1. op'.pc = "send" /\ op'.kind = op.kind /\ op'.next = op.next /\ op'.attempt = op.attempt
          BY <1>0, <2>4, <3>1 DEF Sync, OpType
        <4> QED BY <2>4, <3>1, <4>1 DEF OpRefers, Sync
      <3> QED BY <1>1, <2>4, <3>1 DEF Sync
    <2>5. CASE Dispatch
      <3>1. op'.pc = "sending" /\ op'.kind = op.kind /\ op'.next = op.next /\ op'.attempt = op.attempt
        BY <1>0, <2>5 DEF Dispatch, OpType
      <3> QED BY <2>5, <3>1 DEF OpRefers, Dispatch
    <2>6. ASSUME NEW outcome \in Outcomes, Answered(outcome)
          PROVE  OpRefers'
      BY <1>2, <2>6 DEF Answered, Kinds
    <2> QED BY <1>6, <2>1, <2>2, <2>3, <2>4, <2>5, <2>6 DEF Progress
  <1>7. CASE Crash BY <1>1, <1>7 DEF Crash
  <1>8. CASE Start BY <1>2, <1>8 DEF Start, Kinds
  <1>9. CASE \E t \in AttemptIds : Expose(t)
    BY <1>4, <1>9 DEF Expose
  <1>10. CASE UNCHANGED vars
    BY <1>4, <1>10 DEF vars
  <1> QED BY <1>5, <1>6, <1>7, <1>8, <1>9, <1>10 DEF Next

\* The journals, the running call and the histories keep their shapes: in particular
\* every journal that can be on disk is one a restart can read.
THEOREM TypeCorrect == Spec => []TypeOK
  <1>1. Init => TypeOK /\ OpRefers
    BY InitTyped
  <1>2. TypeOK /\ OpRefers /\ [Next]_vars => (TypeOK /\ OpRefers)'
    BY StepTyped, StepRefers
  <1> QED BY <1>1, <1>2, PTL DEF Spec
-----------------------------------------------------------------------------
(***************************************************************************)
(* The strengthening.  Four journals can become the one the runtime acts   *)
(* on: #state, the file, the file as last synced, and the one a running    *)
(* call is about to write.  Each must be sound on its own with respect to  *)
(* what has happened outside; View says so with the outside as parameters: *)
(* u identifiers drawn, g grants, d hand-overs, f fates, w answers.        *)
(***************************************************************************)

\* No journal has forgotten an attempt that was handed to the adapter.
Recorded(j, d) == \A t \in AttemptIds : d[t] > 0 => j.attempts[t] # None

\* An authorization is held by one seal or was consumed by one attempt.
Separate(j) ==
  \A t \in AttemptIds : j.attempts[t] # None /\ j.attempts[t].authorization # None =>
    /\ \A s \in SealIds : j.seals[s] # None => j.seals[s].authorization # j.attempts[t].authorization
    /\ \A r \in AttemptIds \ {t} :
         j.attempts[r] # None => j.attempts[r].authorization # j.attempts[t].authorization

OneOwner(j) ==
  \A s \in SealIds : j.seals[s] # None /\ j.seals[s].authorization # None =>
    \A r \in SealIds \ {s} : j.seals[r] # None => j.seals[r].authorization # j.seals[s].authorization

\* Every identifier in the journal was drawn, so a fresh one is not in it.
Drawn(j, u) ==
  /\ \A s \in SealIds : j.seals[s] # None =>
       s \in u /\ j.seals[s].authorization \in u \cup {None}
  /\ \A t \in AttemptIds : j.attempts[t] # None =>
       t \in u /\ j.attempts[t].authorization \in u \cup {None}

\* What seals hold and protected attempts consumed was granted for that very version.
Authorized(j, g) ==
  /\ \A s \in SealIds : j.seals[s] # None =>
       /\ j.seals[s].confirmation \in {None, j.seals[s].digest}
       /\ j.seals[s].authorization # None => Grant(j.seals[s].authorization, s, j.seals[s]) \in g
  /\ \A t \in AttemptIds :
       j.attempts[t] # None /\ j.attempts[t].releaseClass = "PRE_DISCLOSURE_PROTECTED" =>
         /\ Grant(j.attempts[t].authorization, j.attempts[t].sealId, j.attempts[t]) \in g
         /\ j.attempts[t].confirmation = j.attempts[t].digest
         /\ j.attempts[t].protocol = RuntimeProtocol

\* An attempt's seal exists and points at its latest attempt.
Linked(j) ==
  \A t \in AttemptIds : j.attempts[t] # None =>
    /\ j.seals[j.attempts[t].sealId] # None
    /\ j.seals[j.attempts[t].sealId].priorAttempt # None

\* Seal s is cancelled and, unless Continuous, was never attempted.
CancelledIn(j, s) ==
  /\ j.seals[s] # None /\ j.seals[s].cancelled
  /\ j.seals[s].mode # "Continuous" =>
       \A t \in AttemptIds : j.attempts[t] # None => j.attempts[t].sealId # s

Withdrawn(j, w) == \A s \in SealIds : [answer |-> "cancelled", id |-> s] \in w => CancelledIn(j, s)

\* Recorded outcomes agree with what became of the attempt.
Truth(j, f) ==
  \A t \in AttemptIds : j.attempts[t] # None =>
    /\ j.attempts[t].state = "SUBMISSION_OBSERVED" => f[t] = "exposed"
    /\ j.attempts[t].state = "FAILED_BEFORE_EGRESS" => f[t] = "refused"

View(j, u, g, d, f, w) ==
  /\ j \in Journal
  /\ Recorded(j, d) /\ Separate(j) /\ OneOwner(j) /\ Drawn(j, u)
  /\ Authorized(j, g) /\ Linked(j) /\ Withdrawn(j, w) /\ Truth(j, f)

Sound(j) == View(j, used, granted, dispatched, fate, told)

\* Where the running call is, and what that says about the files.
OpInv ==
  /\ ~up => op.pc = "idle"
  /\ op.pc = "sync" => disk = op.next
  /\ op.pc \in {"send", "sending"} => disk = mem /\ stable = mem
  /\ op.kind = "consume" /\ op.pc # "sending" => dispatched[op.attempt] = 0
  /\ op.kind = "cancel" => op.id \in SealIds /\ CancelledIn(op.next, op.id)

SentOnce ==
  \A t \in AttemptIds :
    /\ dispatched[t] \in {0, 1}
    /\ dispatched[t] = 0 <=> fate[t] = "unsent"
    /\ dispatched[t] > 0 => t \in used

IInv ==
  /\ TypeOK /\ OpRefers /\ OpInv /\ SentOnce
  /\ Sound(disk) /\ Sound(stable)
  /\ up => Sound(mem)
  /\ op.pc # "idle" => Sound(op.next)
-----------------------------------------------------------------------------
(***************************************************************************)
(* How each change of a journal, or of the outside, keeps it sound.        *)
(***************************************************************************)

LEMMA ViewGrows ==
  ASSUME NEW j, NEW u, NEW g, NEW d, NEW f, NEW w, NEW u2, NEW g2,
         View(j, u, g, d, f, w), u \subseteq u2, g \subseteq g2
  PROVE  View(j, u2, g2, d, f, w)
  <1>1. Drawn(j, u2) BY DEF View, Drawn
  <1>2. Authorized(j, g2) BY DEF View, Authorized
  <1> QED BY <1>1, <1>2 DEF View

LEMMA ViewOfEmpty ==
  ASSUME NEW u, NEW g, NEW f, NEW d, \A t \in AttemptIds : ~(d[t] > 0)
  PROVE  View(EmptyJournal, u, g, d, f, {})
  <1>1. /\ \A s \in SealIds : EmptyJournal.seals[s] = None
        /\ \A t \in AttemptIds : EmptyJournal.attempts[t] = None
    BY DEF EmptyJournal
  <1> QED BY <1>1, EmptyType DEF View, Recorded, Separate, OneOwner, Drawn, Authorized,
                                 Linked, Withdrawn, Truth

\* seal writes a version under a fresh identifier.
LEMMA ViewAfterSeal ==
  ASSUME NEW j, NEW u, NEW g, NEW d, NEW f, NEW w, View(j, u, g, d, f, w),
         NEW s \in SealIds, s \notin u, NEW seal \in Seal,
         seal.confirmation = None, seal.authorization = None
  PROVE  View(WithSeal(j, s, seal), u \cup {s}, g, d, f, w)
  <1> DEFINE k == WithSeal(j, s, seal)
  <1>0. j \in Journal /\ seal # None /\ j.seals[s] = None
    BY ReleaseAssumption DEF View, Drawn
  <1>1. k \in Journal BY <1>0, WithSealType
  <1>2. k.attempts = j.attempts /\ k.seals = [j.seals EXCEPT ![s] = seal]
    BY <1>0 DEF WithSeal, Journal
  <1>3. k.seals[s] = seal /\ \A r \in SealIds \ {s} : k.seals[r] = j.seals[r]
    BY <1>0, <1>2 DEF Journal
  <1> HIDE DEF k
  <1>4. Linked(k) /\ \A t \in AttemptIds : k.attempts[t] # None => k.attempts[t].sealId # s
    BY <1>0, <1>2, <1>3 DEF View, Linked, Journal, Attempt
  <1>5. Separate(k) /\ OneOwner(k)
    BY <1>0, <1>2, <1>3 DEF View, Separate, OneOwner
  <1>6. Drawn(k, u \cup {s}) /\ Recorded(k, d) /\ Truth(k, f)
    BY <1>0, <1>2, <1>3 DEF View, Drawn, Recorded, Truth
  <1>7. Authorized(k, g)
    BY <1>0, <1>2, <1>3 DEF View, Authorized
  <1>8. Withdrawn(k, w)
    BY <1>0, <1>2, <1>3 DEF View, Withdrawn, CancelledIn
  <1> QED BY <1>1, <1>4, <1>5, <1>6, <1>7, <1>8 DEF View, k

\* confirm and retry give a seal a fresh authorization and grant it.
LEMMA ViewAfterGrant ==
  ASSUME NEW j, NEW u, NEW g, NEW d, NEW f, NEW w, View(j, u, g, d, f, w),
         NEW s \in SealIds, j.seals[s] # None, NEW a \in AuthIds, a \notin u, NEW seal \in Seal,
         seal.authorization = a, seal.confirmation \in {None, seal.digest},
         seal.scope = j.seals[s].scope, seal.digest = j.seals[s].digest,
         seal.mode = j.seals[s].mode, seal.priorAttempt = j.seals[s].priorAttempt,
         seal.cancelled = j.seals[s].cancelled
  PROVE  View(WithSeal(j, s, seal), u \cup {a}, g \cup {Grant(a, s, j.seals[s])}, d, f, w)
  <1> DEFINE k == WithSeal(j, s, seal)
             h == g \cup {Grant(a, s, j.seals[s])}
  <1>0. j \in Journal /\ seal # None /\ a # None
    BY ReleaseAssumption DEF View
  <1>1. k \in Journal BY <1>0, WithSealType
  <1>2. k.attempts = j.attempts /\ k.seals = [j.seals EXCEPT ![s] = seal]
    BY <1>0 DEF WithSeal, Journal
  <1>3. k.seals[s] = seal /\ \A r \in SealIds \ {s} : k.seals[r] = j.seals[r]
    BY <1>0, <1>2 DEF Journal
  <1>4. Grant(a, s, seal) = Grant(a, s, j.seals[s])
    BY DEF Grant
  <1> HIDE DEF k
  <1>5. Linked(k)
    BY <1>0, <1>2, <1>3 DEF View, Linked, Journal, Attempt
  <1>6. Separate(k)
    BY <1>0, <1>2, <1>3 DEF View, Separate, Drawn
  <1>7. OneOwner(k)
    BY <1>0, <1>2, <1>3 DEF View, OneOwner, Drawn
  <1>8. Drawn(k, u \cup {a}) /\ Recorded(k, d) /\ Truth(k, f)
    BY <1>0, <1>2, <1>3 DEF View, Drawn, Recorded, Truth
  <1>9. Authorized(k, h)
    BY <1>0, <1>2, <1>3, <1>4 DEF View, Authorized
  <1>10. Withdrawn(k, w)
    BY <1>0, <1>2, <1>3 DEF View, Withdrawn, CancelledIn
  <1> QED BY <1>1, <1>5, <1>6, <1>7, <1>8, <1>9, <1>10 DEF View, k

\* cancel withdraws the authorization of a version that was never attempted.
LEMMA ViewAfterCancel ==
  ASSUME NEW j, NEW u, NEW g, NEW d, NEW f, NEW w, View(j, u, g, d, f, w),
         NEW s \in SealIds, j.seals[s] # None, j.seals[s].priorAttempt = None
  PROVE  LET k == WithSeal(j, s, [j.seals[s] EXCEPT !.authorization = None, !.cancelled = TRUE])
         IN View(k, u, g, d, f, w) /\ CancelledIn(k, s)
  <1> DEFINE seal == [j.seals[s] EXCEPT !.authorization = None, !.cancelled = TRUE]
             k == WithSeal(j, s, seal)
  <1>0. j \in Journal /\ j.seals[s] \in Seal
    BY SealType DEF View
  <1>1. /\ seal \in Seal /\ seal.authorization = None /\ seal.cancelled
        /\ seal.confirmation = j.seals[s].confirmation /\ seal.digest = j.seals[s].digest
        /\ seal.mode = j.seals[s].mode /\ seal.priorAttempt = None
    BY <1>0 DEF Seal
  <1>2. seal # None BY <1>1, ReleaseAssumption
  <1> HIDE DEF seal
  <1>3. k \in Journal BY <1>0, <1>1, WithSealType
  <1>4. k.attempts = j.attempts /\ k.seals = [j.seals EXCEPT ![s] = seal]
    BY <1>0 DEF WithSeal, Journal
  <1>5. k.seals[s] = seal /\ \A r \in SealIds \ {s} : k.seals[r] = j.seals[r]
    BY <1>0, <1>4 DEF Journal
  <1> HIDE DEF k
  <1>6. \A t \in AttemptIds : j.attempts[t] # None => j.attempts[t].sealId # s
    BY DEF View, Linked
  <1>7. Linked(k)
    BY <1>0, <1>4, <1>5, <1>6 DEF View, Linked, Journal, Attempt
  <1>8. Separate(k) /\ OneOwner(k)
    BY <1>1, <1>2, <1>4, <1>5 DEF View, Separate, OneOwner
  <1>9. Drawn(k, u) /\ Recorded(k, d) /\ Truth(k, f)
    BY <1>1, <1>2, <1>4, <1>5 DEF View, Drawn, Recorded, Truth
  <1>10. Authorized(k, g)
    BY <1>1, <1>2, <1>4, <1>5 DEF View, Authorized
  <1>11. CancelledIn(k, s) /\ Withdrawn(k, w)
    BY <1>1, <1>2, <1>4, <1>5, <1>6 DEF View, Withdrawn, CancelledIn
  <1> QED BY <1>3, <1>7, <1>8, <1>9, <1>10, <1>11 DEF View, k, seal

\* release moves the authorization of a seal to a fresh attempt; a Continuous release
\* records an attempt that carries none.
LEMMA ViewAfterConsume ==
  ASSUME NEW u, NEW g, NEW d, NEW f, NEW w, View(mem, u, g, d, f, w),
         NEW id \in SealIds, mem.seals[id] # None,
         NEW t \in AttemptIds, t \notin u, ~(d[t] > 0), NEW class \in Classes,
         class = "PRE_DISCLOSURE_PROTECTED" =>
           /\ mem.seals[id].confirmation # None /\ mem.seals[id].authorization # None
           /\ ~mem.seals[id].cancelled,
         class = "RETROSPECTIVE_CONTINUOUS" => mem.seals[id].mode = "Continuous"
  PROVE  View(Consumed(id, t, RuntimeProtocol, class), u \cup {t}, g, d, f, w)
  <1> DEFINE k == Consumed(id, t, RuntimeProtocol, class)
             seal == mem.seals[id]
             attempt == k.attempts[t]
  <1>0. mem \in Journal /\ seal \in Seal
    BY SealType DEF View
  <1>1. k \in Journal /\ k.seals[id] # None /\ attempt # None
    BY <1>0, ConsumedType, ReleaseAssumption
  <1>2. /\ \A r \in SealIds \ {id} : k.seals[r] = mem.seals[r]
        /\ \A r \in AttemptIds \ {t} : k.attempts[r] = mem.attempts[r]
    BY <1>0 DEF Consumed, Journal
  <1>3. /\ k.seals[id].mode = seal.mode /\ k.seals[id].digest = seal.digest
        /\ k.seals[id].scope = seal.scope /\ k.seals[id].confirmation = seal.confirmation
        /\ k.seals[id].cancelled = seal.cancelled /\ k.seals[id].priorAttempt = t
        /\ k.seals[id].authorization =
             IF class = "PRE_DISCLOSURE_PROTECTED" THEN None ELSE seal.authorization
    BY <1>0 DEF Consumed, Journal, Seal
  <1>4. /\ attempt.sealId = id /\ attempt.digest = seal.digest /\ attempt.scope = seal.scope
        /\ attempt.protocol = RuntimeProtocol /\ attempt.releaseClass = class
        /\ attempt.state = "DISPATCHING"
        /\ class = "PRE_DISCLOSURE_PROTECTED" =>
             attempt.confirmation = seal.confirmation /\ attempt.authorization = seal.authorization
        /\ class # "PRE_DISCLOSURE_PROTECTED" => attempt.authorization = None
    BY <1>0 DEF Consumed, Journal
  <1>5. t # None /\ mem.attempts[t] = None
    BY ReleaseAssumption DEF View, Drawn
  <1> HIDE DEF k
  <1>6. Linked(k)
    BY <1>0, <1>1, <1>2, <1>3, <1>4, <1>5 DEF View, Linked, Journal, Attempt
  <1>7. Separate(k)
    <2>1. ASSUME NEW s \in SealIds, k.seals[s] # None, attempt.authorization # None
          PROVE  k.seals[s].authorization # attempt.authorization
      BY <1>0, <1>2, <1>3, <1>4, <2>1 DEF View, OneOwner
    <2>2. ASSUME NEW r \in AttemptIds \ {t}, k.attempts[r] # None, attempt.authorization # None
          PROVE  k.attempts[r].authorization # attempt.authorization
      BY <1>0, <1>2, <1>4, <2>2 DEF View, Separate
    <2>3. ASSUME NEW r \in AttemptIds \ {t}, k.attempts[r] # None, k.attempts[r].authorization # None,
                 NEW s \in SealIds, k.seals[s] # None
          PROVE  k.seals[s].authorization # k.attempts[r].authorization
      BY <1>0, <1>2, <1>3, <2>3 DEF View, Separate
    <2>4. ASSUME NEW r \in AttemptIds \ {t}, k.attempts[r] # None, k.attempts[r].authorization # None,
                 NEW q \in AttemptIds \ {r}, k.attempts[q] # None
          PROVE  k.attempts[q].authorization # k.attempts[r].authorization
      BY <1>2, <2>2, <2>4 DEF View, Separate
    <2> QED BY <2>1, <2>2, <2>3, <2>4 DEF Separate
  <1>8. OneOwner(k)
    BY <1>0, <1>2, <1>3 DEF View, OneOwner
  <1>9. Drawn(k, u \cup {t})
    BY <1>0, <1>2, <1>3, <1>4 DEF View, Drawn, Classes
  <1>10. Recorded(k, d) /\ Truth(k, f)
    BY <1>1, <1>2, <1>4 DEF View, Recorded, Truth
  <1>11. Authorized(k, g)
    <2>1. Grant(seal.authorization, id, k.seals[id]) = Grant(seal.authorization, id, seal)
      BY <1>3 DEF Grant
    <2>2. Grant(seal.authorization, id, attempt) = Grant(seal.authorization, id, seal)
      BY <1>4 DEF Grant
    <2>3. ASSUME NEW s \in SealIds, k.seals[s] # None
          PROVE  /\ k.seals[s].confirmation \in {None, k.seals[s].digest}
                 /\ k.seals[s].authorization # None => Grant(k.seals[s].authorization, s, k.seals[s]) \in g
      BY <1>0, <1>2, <1>3, <2>1, <2>3 DEF View, Authorized
    <2>4. ASSUME NEW r \in AttemptIds, k.attempts[r] # None,
                 k.attempts[r].releaseClass = "PRE_DISCLOSURE_PROTECTED"
          PROVE  /\ Grant(k.attempts[r].authorization, k.attempts[r].sealId, k.attempts[r]) \in g
                 /\ k.attempts[r].confirmation = k.attempts[r].digest
                 /\ k.attempts[r].protocol = RuntimeProtocol
      BY <1>2, <1>4, <2>2, <2>4 DEF View, Authorized
    <2> QED BY <2>3, <2>4 DEF Authorized
  <1>12. Withdrawn(k, w)
    BY <1>0, <1>1, <1>2, <1>3, <1>4, <1>5 DEF View, Withdrawn, CancelledIn, Classes
  <1> QED BY <1>1, <1>6, <1>7, <1>8, <1>9, <1>10, <1>11, <1>12 DEF View, k

\* Attempts, and journals, that differ only in outcomes.
SameAttempt(a, b) ==
  /\ b # None /\ b.sealId = a.sealId /\ b.digest = a.digest /\ b.scope = a.scope
  /\ b.protocol = a.protocol /\ b.confirmation = a.confirmation
  /\ b.authorization = a.authorization /\ b.releaseClass = a.releaseClass

SameButOutcome(j, k) ==
  /\ k.seals = j.seals
  /\ \A t \in AttemptIds :
       k.attempts[t] = j.attempts[t] \/ (j.attempts[t] # None /\ SameAttempt(j.attempts[t], k.attempts[t]))

LEMMA OutcomeFields ==
  ASSUME NEW a \in Attempt, NEW o \in Outcomes, NEW b, b = [a EXCEPT !.state = o]
  PROVE  SameAttempt(a, b) /\ b.state = o
  <1>1. b \in Attempt BY DEF Attempt
  <1> QED BY <1>1, ReleaseAssumption DEF SameAttempt, Attempt

LEMMA ViewAfterOutcome ==
  ASSUME NEW j, NEW k \in Journal, NEW u, NEW g, NEW d, NEW f, NEW w, NEW f2, View(j, u, g, d, f, w),
         SameButOutcome(j, k), Truth(k, f2)
  PROVE  View(k, u, g, d, f2, w)
  <1> USE DEF SameAttempt
  <1>1. Linked(k) BY DEF View, Linked, SameButOutcome, Journal, Attempt
  <1>2. Separate(k) /\ OneOwner(k) BY DEF View, Separate, OneOwner, SameButOutcome
  <1>3. Drawn(k, u) /\ Recorded(k, d) BY DEF View, Drawn, Recorded, SameButOutcome
  <1>4. Authorized(k, g) BY DEF View, Authorized, SameButOutcome, Grant
  <1>5. Withdrawn(k, w) BY DEF View, Withdrawn, CancelledIn, SameButOutcome
  <1> QED BY <1>1, <1>2, <1>3, <1>4, <1>5 DEF View

\* init's repair of interrupted attempts.
LEMMA ViewAfterRecovery ==
  ASSUME NEW j, NEW u, NEW g, NEW d, NEW f, NEW w, View(j, u, g, d, f, w)
  PROVE  View(Recovered(j), u, g, d, f, w)
  <1>0. j \in Journal BY DEF View
  <1>1. Recovered(j) \in Journal BY <1>0, RecoveredType
  <1>2. Recovered(j).seals = j.seals BY <1>0 DEF Recovered, Journal
  <1>3. ASSUME NEW t \in AttemptIds, j.attempts[t] # None, j.attempts[t].state = "DISPATCHING"
        PROVE  /\ Recovered(j).attempts[t] = [j.attempts[t] EXCEPT !.state = "OUTCOME_UNKNOWN"]
               /\ j.attempts[t] \in Attempt
    BY <1>0, <1>3, AttemptType DEF Recovered, Journal
  <1>4. ASSUME NEW t \in AttemptIds, ~(j.attempts[t] # None /\ j.attempts[t].state = "DISPATCHING")
        PROVE  Recovered(j).attempts[t] = j.attempts[t]
    BY <1>0, <1>4 DEF Recovered, Journal
  <1>5. ASSUME NEW t \in AttemptIds, j.attempts[t] # None, j.attempts[t].state = "DISPATCHING"
        PROVE  /\ SameAttempt(j.attempts[t], Recovered(j).attempts[t])
               /\ Recovered(j).attempts[t].state = "OUTCOME_UNKNOWN"
    <2>1. "OUTCOME_UNKNOWN" \in Outcomes BY DEF Outcomes
    <2> DEFINE a == j.attempts[t]
               b == Recovered(j).attempts[t]
    <2>2. a \in Attempt /\ b = [a EXCEPT !.state = "OUTCOME_UNKNOWN"] BY <1>3, <1>5
    <2> HIDE DEF a, b
    <2>3. SameAttempt(a, b) /\ b.state = "OUTCOME_UNKNOWN" BY <2>1, <2>2, OutcomeFields
    <2> QED BY <2>3 DEF a, b
  <1>6. SameButOutcome(j, Recovered(j)) BY <1>2, <1>4, <1>5 DEF SameButOutcome
  <1>7. Truth(Recovered(j), f) BY <1>4, <1>5 DEF View, Truth
  <1> QED BY <1>1, <1>6, <1>7, ViewAfterOutcome

\* The dispatch answered: its outcome is written into the attempt's record.
LEMMA ViewAfterAnswer ==
  ASSUME NEW u, NEW g, NEW d, NEW f, NEW f2, NEW w, View(mem, u, g, d, f, w),
         NEW t \in AttemptIds, mem.attempts[t] # None, NEW outcome \in Outcomes,
         Truth(mem, f2),
         outcome = "SUBMISSION_OBSERVED" => f2[t] = "exposed",
         outcome = "FAILED_BEFORE_EGRESS" => f2[t] = "refused"
  PROVE  View(Settled(t, outcome), u, g, d, f2, w)
  <1> DEFINE k == Settled(t, outcome)
  <1>0. mem \in Journal /\ mem.attempts[t] \in Attempt
    BY AttemptType DEF View
  <1>1. k \in Journal BY <1>0, SettledType
  <1>2. /\ k.seals = mem.seals
        /\ \A r \in AttemptIds \ {t} : k.attempts[r] = mem.attempts[r]
        /\ k.attempts[t] = [mem.attempts[t] EXCEPT !.state = outcome]
    BY <1>0 DEF Settled, Journal
  <1>3. SameAttempt(mem.attempts[t], k.attempts[t]) /\ k.attempts[t].state = outcome
    BY <1>0, <1>2, OutcomeFields
  <1> HIDE DEF k
  <1>4. SameButOutcome(mem, k) BY <1>2, <1>3 DEF SameButOutcome
  <1>5. Truth(k, f2) BY <1>2, <1>3 DEF Truth
  <1>6. View(k, u, g, d, f2, w) BY <1>1, <1>4, <1>5, ViewAfterOutcome
  <1> QED BY <1>6 DEF k

\* An attempt every journal records is handed over: it stops being unsent.
LEMMA ViewAfterDispatch ==
  ASSUME NEW j, NEW u, NEW g, NEW d \in [AttemptIds -> Nat], NEW f, NEW w, View(j, u, g, d, f, w),
         NEW t \in AttemptIds, j.attempts[t] # None, f[t] = "unsent",
         NEW d2, d2 = [d EXCEPT ![t] = @ + 1],
         NEW f2, \A r \in AttemptIds \ {t} : f2[r] = f[r]
  PROVE  View(j, u, g, d2, f2, w)
  <1>1. Recorded(j, d2) BY DEF View, Recorded
  <1>2. Truth(j, f2) BY DEF View, Truth
  <1> QED BY <1>1, <1>2 DEF View

\* The page or the adapter decides the fate of an attempt still in flight.
LEMMA ViewAfterFate ==
  ASSUME NEW j, NEW u, NEW g, NEW d, NEW f, NEW w, View(j, u, g, d, f, w),
         NEW t \in AttemptIds, f[t] = "inflight",
         NEW f2, \A r \in AttemptIds \ {t} : f2[r] = f[r]
  PROVE  View(j, u, g, d, f2, w) /\ Truth(j, f2)
  <1>1. Truth(j, f2) BY DEF View, Truth
  <1> QED BY <1>1 DEF View
-----------------------------------------------------------------------------
(***************************************************************************)
(* The inductive step, by the kind of step.                                *)
(***************************************************************************)

\* A call that only computes what it will write.
LEMMA CallStep == ASSUME IInv, Call, (TypeOK /\ OpRefers)' PROVE IInv'
  <1>0. /\ up /\ op.pc = "idle" /\ Sound(mem) /\ Sound(disk) /\ Sound(stable)
        /\ UNCHANGED <<up, mem, disk, stable, fate, dispatched, told>>
        /\ used \subseteq used' /\ granted \subseteq granted'
    <2> DEFINE Frame == /\ up /\ op.pc = "idle"
                        /\ UNCHANGED <<up, mem, disk, stable, fate, dispatched, told>>
                        /\ used \subseteq used' /\ granted \subseteq granted'
    <2>1. ASSUME NEW id, NEW scope, NEW p, NEW mode, SealPayload(id, scope, p, mode) PROVE Frame
      BY <2>1 DEF SealPayload, Ready, world
    <2>2. ASSUME NEW id, NEW scope, NEW d, Confirm(id, scope, d) PROVE Frame
      BY <2>2 DEF Confirm, Ready, world
    <2>3. ASSUME NEW id, NEW scope, NEW d, Cancel(id, scope, d) PROVE Frame
      BY <2>3 DEF Cancel, Ready, world
    <2>4. ASSUME NEW id, NEW scope, NEW t, NEW explicit, NEW a, Retry(id, scope, t, explicit, a)
          PROVE  Frame
      BY <2>4 DEF Retry, Ready, world
    <2>5. ASSUME NEW id, NEW scope, NEW d, NEW p, NEW protocol, NEW t,
                 Release(id, scope, d, p, protocol, t)
          PROVE  Frame
      BY <2>5 DEF Release, Ready, world
    <2>6. ASSUME NEW id, NEW scope, NEW d, NEW p, NEW protocol, NEW t,
                 ReleaseContinuous(id, scope, d, p, protocol, t)
          PROVE  Frame
      BY <2>6 DEF ReleaseContinuous, Ready, world
    <2> HIDE DEF Frame
    <2>7. Frame BY <2>1, <2>2, <2>3, <2>4, <2>5, <2>6 DEF Call
    <2> QED BY <2>7 DEF IInv, Frame
  <1>1. Sound(mem)' /\ Sound(disk)' /\ Sound(stable)'
    <2>1. ASSUME NEW j, Sound(j)
          PROVE  View(j, used', granted', dispatched, fate, told)
      BY <1>0, <2>1, ViewGrows DEF Sound
    <2> QED BY <1>0, <2>1 DEF Sound
  <1>2. SentOnce' BY <1>0 DEF SentOnce, IInv
  <1>3. SUFFICES Sound(op.next)' /\ OpInv'
    BY <1>0, <1>1, <1>2 DEF IInv
  <1>4. ASSUME NEW id \in SealIds, NEW scope \in Scopes, NEW p \in Payloads, NEW mode \in Modes,
               SealPayload(id, scope, p, mode)
        PROVE  Sound(op.next)' /\ OpInv'
    <2> DEFINE seal == [scope |-> scope, mode |-> mode, payload |-> p, digest |-> Digest[p],
                        confirmation |-> None, authorization |-> None, priorAttempt |-> None,
                        cancelled |-> FALSE]
    <2>1. seal \in Seal /\ seal.confirmation = None /\ seal.authorization = None
      BY DEF Seal, Digests
    <2>2. op'.next = WithSeal(mem, id, seal) /\ op'.kind = "seal" /\ op'.pc = "write"
          /\ used' = used \cup {id} /\ granted' = granted /\ id \notin used
      BY <1>4 DEF SealPayload, Persist
    <2> HIDE DEF seal
    <2>3. Sound(op.next)' BY <1>0, <2>1, <2>2, ViewAfterSeal DEF Sound
    <2> QED BY <1>0, <2>2, <2>3 DEF OpInv
  <1>5. ASSUME NEW id \in SealIds, NEW scope \in Scopes, NEW d \in Digests, Confirm(id, scope, d)
        PROVE  Sound(op.next)' /\ OpInv'
    BY <1>0, <1>1, <1>5 DEF Confirm, OpInv, Sound
  <1>6. ASSUME NEW id \in SealIds, NEW scope \in Scopes, NEW d \in Digests, Cancel(id, scope, d)
        PROVE  Sound(op.next)' /\ OpInv'
    <2> DEFINE k == WithSeal(mem, id, [mem.seals[id] EXCEPT !.authorization = None, !.cancelled = TRUE])
    <2>1. /\ op'.next = k /\ op'.kind = "cancel" /\ op'.pc = "write" /\ op'.id = id
          /\ used' = used /\ granted' = granted
          /\ mem.seals[id] # None /\ mem.seals[id].priorAttempt = None
      BY <1>6 DEF Cancel, HasSeal, Persist
    <2>2. View(k, used, granted, dispatched, fate, told) /\ CancelledIn(k, id)
      BY <1>0, <2>1, ViewAfterCancel DEF Sound
    <2> HIDE DEF k
    <2>3. CancelledIn(op.next, id)' BY <2>1, <2>2 DEF CancelledIn
    <2> QED BY <1>0, <2>1, <2>2, <2>3 DEF OpInv, Sound
  <1>7. ASSUME NEW id \in SealIds, NEW scope \in Scopes, NEW t \in AttemptIds,
               NEW explicit \in BOOLEAN, NEW a \in AuthIds, Retry(id, scope, t, explicit, a)
        PROVE  Sound(op.next)' /\ OpInv'
    <2> DEFINE seal == [mem.seals[id] EXCEPT !.authorization = a]
    <2>1. /\ op'.next = WithSeal(mem, id, seal) /\ op'.kind = "retry" /\ op'.pc = "write"
          /\ used' = used \cup {a} /\ granted' = granted \cup {Grant(a, id, mem.seals[id])}
          /\ a \notin used /\ mem.seals[id] # None
      BY <1>7 DEF Retry, HasSeal, Persist
    <2>2. mem.seals[id] \in Seal BY <1>0, <2>1, SealType DEF Sound, View
    <2>3. mem.seals[id].confirmation \in {None, mem.seals[id].digest}
      BY <1>0, <2>1 DEF Sound, View, Authorized
    <2>4. /\ seal \in Seal /\ seal.authorization = a /\ seal.confirmation \in {None, seal.digest}
          /\ seal.scope = mem.seals[id].scope /\ seal.digest = mem.seals[id].digest
          /\ seal.mode = mem.seals[id].mode /\ seal.priorAttempt = mem.seals[id].priorAttempt
          /\ seal.cancelled = mem.seals[id].cancelled
      BY <2>2, <2>3 DEF Seal
    <2> HIDE DEF seal
    <2>5. Sound(op.next)' BY <1>0, <2>1, <2>4, ViewAfterGrant DEF Sound
    <2> QED BY <1>0, <2>1, <2>5 DEF OpInv
  <1>8. ASSUME NEW id \in SealIds, NEW t \in AttemptIds, NEW class \in Classes, mem.seals[id] # None,
               class = "PRE_DISCLOSURE_PROTECTED" =>
                 /\ mem.seals[id].confirmation # None /\ mem.seals[id].authorization # None
                 /\ ~mem.seals[id].cancelled,
               class = "RETROSPECTIVE_CONTINUOUS" => mem.seals[id].mode = "Continuous",
               t \notin used, used' = used \cup {t}, granted' = granted,
               Persist("consume", Consumed(id, t, RuntimeProtocol, class), id, t)
        PROVE  Sound(op.next)' /\ OpInv'
    <2>1. op'.next = Consumed(id, t, RuntimeProtocol, class) /\ op'.kind = "consume"
          /\ op'.pc = "write" /\ op'.attempt = t
      BY <1>8 DEF Persist
    <2>2. dispatched[t] = 0
      <3>1. SentOnce BY DEF IInv
      <3>2. dispatched[t] \in {0, 1} /\ (dispatched[t] > 0 => t \in used)
        BY <3>1 DEF SentOnce
      <3> QED BY <1>8, <3>2
    <2>3. Sound(op.next)' BY <1>0, <1>8, <2>1, <2>2, ViewAfterConsume DEF Sound
    <2> QED BY <1>0, <2>1, <2>2, <2>3 DEF OpInv
  <1>9. ASSUME NEW id \in SealIds, NEW scope \in Scopes, NEW d \in Digests, NEW p \in Payloads,
               NEW protocol \in Protocols, NEW t \in AttemptIds,
               Release(id, scope, d, p, protocol, t) \/ ReleaseContinuous(id, scope, d, p, protocol, t)
        PROVE  Sound(op.next)' /\ OpInv'
    <2>1. CASE Release(id, scope, d, p, protocol, t)
      BY <1>8, <2>1 DEF Release, Current, HasSeal, Classes
    <2>2. CASE ReleaseContinuous(id, scope, d, p, protocol, t)
      BY <1>8, <2>2 DEF ReleaseContinuous, Current, HasSeal, Classes
    <2> QED BY <1>9, <2>1, <2>2
  <1> QED BY <1>4, <1>5, <1>6, <1>7, <1>9 DEF Call

\* The call at the head of the queue ends, or the process does.
LEMMA EndStep ==
  ASSUME IInv, (TypeOK /\ OpRefers)', op' = Idle, UNCHANGED <<used, granted, fate, dispatched, told, stable>>,
         disk' \in {disk, stable}, up' => up /\ mem' = mem
  PROVE  IInv'
  <1>1. Sound(disk)' /\ Sound(stable)' /\ (up' => Sound(mem)')
    BY DEF IInv, Sound
  <1>2. OpInv' BY DEF OpInv, Idle
  <1>3. SentOnce' BY DEF IInv, SentOnce
  <1>4. op'.pc = "idle" BY DEF Idle
  <1> QED BY <1>1, <1>2, <1>3, <1>4 DEF IInv

\* persist, the dispatch and its answer.
LEMMA ProgressStep == ASSUME IInv, Progress, (TypeOK /\ OpRefers)' PROVE IInv'
  <1>0. /\ TypeOK /\ OpRefers /\ OpInv /\ SentOnce /\ Sound(disk) /\ Sound(stable)
        /\ up => Sound(mem)
        /\ op.pc # "idle" => up /\ Sound(op.next)
        /\ op \in OpType
    BY DEF IInv, OpInv, TypeOK, OpType
  <1>1. ASSUME NEW d \in Digests, NEW a \in AuthIds, Confirmed(d, a)
        PROVE  IInv'
    <2> DEFINE id == op.id
               seal == [mem.seals[id] EXCEPT !.confirmation = d, !.authorization = a]
    <2>1. /\ op'.next = WithSeal(mem, id, seal) /\ op'.kind = "confirm" /\ op'.pc = "write"
          /\ used' = used \cup {a} /\ granted' = granted \cup {Grant(a, id, mem.seals[id])}
          /\ a \notin used /\ d = mem.seals[id].digest
          /\ UNCHANGED <<up, mem, disk, stable, fate, dispatched, told>>
          /\ op.pc = "verify"
      BY <1>1 DEF Confirmed, Persist, world
    <2>2. id \in SealIds /\ mem.seals[id] # None /\ mem.seals[id] \in Seal /\ Sound(mem) /\ up
      BY <1>0, <2>1, SealType DEF OpRefers, Sound, View
    <2>3. /\ seal \in Seal /\ seal.authorization = a /\ seal.confirmation \in {None, seal.digest}
          /\ seal.scope = mem.seals[id].scope /\ seal.digest = mem.seals[id].digest
          /\ seal.mode = mem.seals[id].mode /\ seal.priorAttempt = mem.seals[id].priorAttempt
          /\ seal.cancelled = mem.seals[id].cancelled
      BY <2>1, <2>2 DEF Seal
    <2> HIDE DEF seal, id
    <2>4. Sound(op.next)' BY <2>1, <2>2, <2>3, ViewAfterGrant DEF Sound
    <2>5. ASSUME NEW j, Sound(j)
          PROVE  View(j, used', granted', dispatched, fate, told)
      BY <2>1, <2>5, ViewGrows DEF Sound
    <2>6. Sound(mem)' /\ Sound(disk)' /\ Sound(stable)'
      BY <1>0, <2>1, <2>2, <2>5 DEF Sound
    <2>7. SentOnce' BY <1>0, <2>1 DEF SentOnce
    <2>8. OpInv' BY <2>1, <2>2 DEF OpInv
    <2> QED BY <2>4, <2>6, <2>7, <2>8 DEF IInv
  <1>2. CASE ConfirmationRefused
    BY <1>2, EndStep DEF ConfirmationRefused, world
  <1>3. CASE WriteFails
    BY <1>0, <1>3, EndStep DEF WriteFails, Abandon, world
  <1>4. CASE SyncFails
    BY <1>0, <1>4, EndStep DEF SyncFails, Abandon, world
  <1>5. CASE FaultAfterConsumption
    BY <1>5, EndStep DEF FaultAfterConsumption, world
  <1>6. CASE Rename
    <2>1. /\ op.pc = "write" /\ op'.pc = "sync" /\ op'.kind = op.kind /\ op'.next = op.next
          /\ op'.id = op.id /\ op'.attempt = op.attempt /\ disk' = op.next
          /\ UNCHANGED <<up, mem, stable, used, granted, fate, dispatched, told>>
      BY <1>0, <1>6 DEF Rename, OpType, world
    <2>2. Sound(disk)' /\ Sound(stable)' /\ (up' => Sound(mem)') /\ Sound(op.next)'
      BY <1>0, <2>1 DEF Sound
    <2>3. OpInv' BY <1>0, <2>1 DEF OpInv, CancelledIn
    <2>4. SentOnce' BY <1>0, <2>1 DEF SentOnce
    <2> QED BY <2>2, <2>3, <2>4 DEF IInv
  <1>7. CASE Sync
    <2>1. /\ op.pc = "sync" /\ stable' = disk /\ mem' = op.next /\ told' = told \cup Answers
          /\ UNCHANGED <<up, disk, used, granted, fate, dispatched>>
          /\ disk = op.next /\ up
      BY <1>0, <1>7 DEF Sync, OpInv, world
    <2>2. op'.pc \in {"send", "idle"} /\ op'.kind # "cancel"
          /\ (op'.pc = "send" => op'.kind = op.kind /\ op'.next = op.next /\ op'.attempt = op.attempt)
          /\ (op'.pc = "idle" => op' = Idle)
      BY <1>0, <1>7 DEF Sync, OpType, Idle
    <2>3. ASSUME NEW s \in SealIds, [answer |-> "cancelled", id |-> s] \in told'
          PROVE  CancelledIn(op.next, s)
      <3>1. CASE [answer |-> "cancelled", id |-> s] \in told
        BY <1>0, <2>1, <3>1 DEF Sound, View, Withdrawn
      <3>2. CASE [answer |-> "cancelled", id |-> s] \in Answers
        <4>1. op.kind = "cancel" /\ op.id = s
          BY <3>2 DEF Answers
        <4> QED BY <1>0, <4>1 DEF OpInv
      <3> QED BY <2>1, <2>3, <3>1, <3>2
    <2>4. View(op.next, used, granted, dispatched, fate, told')
      BY <1>0, <2>1, <2>3 DEF Sound, View, Withdrawn
    <2>5. Sound(disk)' /\ Sound(stable)' /\ Sound(mem)'
      BY <2>1, <2>4 DEF Sound
    <2>6. op'.pc = "send" => Sound(op.next)'
      BY <2>1, <2>2, <2>4 DEF Sound
    <2>7. SentOnce' BY <1>0, <2>1 DEF SentOnce
    <2>8. OpInv'
      <3>1. CASE op'.pc = "send" BY <1>0, <2>1, <2>2, <3>1 DEF OpInv
      <3>2. CASE op'.pc = "idle" BY <1>0, <2>1, <2>2, <3>2 DEF OpInv, Idle
      <3> QED BY <2>2, <3>1, <3>2
    <2> QED BY <2>2, <2>5, <2>6, <2>7, <2>8 DEF IInv
  <1>8. CASE Dispatch
    <2> DEFINE t == op.attempt
    <2>1. /\ op.pc = "send" /\ op'.pc = "sending" /\ op'.kind = op.kind /\ op'.next = op.next
          /\ op'.id = op.id /\ op'.attempt = op.attempt
          /\ dispatched' = [dispatched EXCEPT ![t] = @ + 1] /\ fate' = [fate EXCEPT ![t] = "inflight"]
          /\ UNCHANGED <<up, mem, disk, stable, used, granted, told>>
      BY <1>0, <1>8 DEF Dispatch, OpType
    <2>2. /\ t \in AttemptIds /\ op.kind = "consume" /\ mem = op.next /\ disk = mem /\ stable = mem
          /\ mem.attempts[t] # None /\ dispatched[t] = 0 /\ fate[t] = "unsent" /\ up
      BY <1>0, <2>1 DEF OpRefers, OpInv, SentOnce
    <2>3. /\ dispatched \in [AttemptIds -> Nat]
          /\ \A r \in AttemptIds \ {t} : fate'[r] = fate[r] /\ dispatched'[r] = dispatched[r]
          /\ fate'[t] = "inflight" /\ dispatched'[t] = 1
      BY <1>0, <2>1, <2>2 DEF TypeOK
    <2>4. t \in used
      BY <1>0, <2>2 DEF Sound, View, Drawn
    <2> HIDE DEF t
    <2>5. View(mem, used, granted, dispatched', fate', told)
      BY <1>0, <2>1, <2>2, <2>3, ViewAfterDispatch DEF Sound
    <2>6. Sound(mem)' /\ Sound(disk)' /\ Sound(stable)' /\ Sound(op.next)'
      BY <2>1, <2>2, <2>5 DEF Sound
    <2>7. SentOnce' BY <1>0, <2>1, <2>3, <2>4 DEF SentOnce
    <2>8. OpInv' BY <2>1, <2>2 DEF OpInv
    <2> QED BY <2>6, <2>7, <2>8 DEF IInv
  <1>9. ASSUME NEW outcome \in Outcomes, Answered(outcome)
        PROVE  IInv'
    <2> DEFINE t == op.attempt
    <2>1. /\ op.pc = "sending" /\ op'.pc = "write" /\ op'.kind = "complete"
          /\ op'.next = Settled(t, outcome) /\ AdapterMayAnswer(t, outcome)
          /\ fate' = IF outcome = "FAILED_BEFORE_EGRESS" THEN [fate EXCEPT ![t] = "refused"] ELSE fate
          /\ UNCHANGED <<up, mem, disk, stable, used, granted, told, dispatched>>
      BY <1>9 DEF Answered, Persist
    <2>2. /\ t \in AttemptIds /\ mem = op.next /\ disk = mem /\ stable = mem
          /\ mem.attempts[t] # None /\ up /\ Sound(mem)
      BY <1>0, <2>1 DEF OpRefers, OpInv
    <2>3. /\ \A r \in AttemptIds \ {t} : fate'[r] = fate[r]
          /\ outcome = "FAILED_BEFORE_EGRESS" => fate[t] = "inflight" /\ fate'[t] = "refused"
          /\ outcome # "FAILED_BEFORE_EGRESS" => fate' = fate
          /\ outcome = "SUBMISSION_OBSERVED" => fate'[t] = "exposed"
      BY <1>0, <2>1, <2>2 DEF TypeOK, AdapterMayAnswer
    <2> HIDE DEF t
    <2>4. View(mem, used, granted, dispatched, fate', told) /\ Truth(mem, fate')
      BY <2>2, <2>3, ViewAfterFate DEF Sound, View
    <2>5. View(Settled(t, outcome), used, granted, dispatched, fate', told)
      BY <2>2, <2>3, <2>4, ViewAfterAnswer
    <2>6. Sound(mem)' /\ Sound(disk)' /\ Sound(stable)' /\ Sound(op.next)'
      BY <2>1, <2>2, <2>4, <2>5 DEF Sound
    <2>7. SentOnce' BY <1>0, <2>1, <2>2, <2>3 DEF SentOnce
    <2>8. OpInv' BY <2>1, <2>2 DEF OpInv
    <2> QED BY <2>6, <2>7, <2>8 DEF IInv
  <1> QED BY <1>1, <1>2, <1>3, <1>4, <1>5, <1>6, <1>7, <1>8, <1>9 DEF Progress

LEMMA InitInv == Init => IInv
  <1> SUFFICES ASSUME Init PROVE IInv
    OBVIOUS
  <1>1. /\ TypeOK /\ OpRefers /\ ~up /\ op = Idle /\ disk = EmptyJournal /\ stable = EmptyJournal
        /\ told = {} /\ \A t \in AttemptIds : dispatched[t] = 0 /\ fate[t] = "unsent"
    BY InitTyped DEF Init
  <1>2. Sound(disk) /\ Sound(stable) BY <1>1, ViewOfEmpty DEF Sound
  <1>3. OpInv /\ op.pc = "idle" BY <1>1 DEF OpInv, Idle
  <1>4. SentOnce BY <1>1 DEF SentOnce
  <1> QED BY <1>1, <1>2, <1>3, <1>4 DEF IInv

LEMMA StepInv == IInv /\ [Next]_vars => IInv'
  <1> SUFFICES ASSUME IInv, [Next]_vars PROVE IInv'
    OBVIOUS
  <1>1. (TypeOK /\ OpRefers)' BY StepTyped, StepRefers DEF IInv
  <1>2. CASE Call BY <1>1, <1>2, CallStep
  <1>3. CASE Progress BY <1>1, <1>3, ProgressStep
  <1>4. ASSUME NEW t \in AttemptIds, Expose(t)
        PROVE  IInv'
    <2>1. /\ fate[t] = "inflight" /\ fate' = [fate EXCEPT ![t] = "exposed"]
          /\ UNCHANGED <<up, mem, disk, stable, op, used, dispatched, granted, told>>
      BY <1>4 DEF Expose
    <2>2. /\ \A r \in AttemptIds \ {t} : fate'[r] = fate[r]
          /\ fate'[t] = "exposed"
      BY <2>1 DEF IInv, TypeOK
    <2>3. ASSUME NEW j, Sound(j)
          PROVE  View(j, used, granted, dispatched, fate', told)
      BY <2>1, <2>2, <2>3, ViewAfterFate DEF Sound
    <2>4. Sound(disk)' /\ Sound(stable)' /\ (up => Sound(mem)') /\ (op.pc # "idle" => Sound(op.next)')
      BY <2>1, <2>3 DEF IInv, Sound
    <2>5. OpInv' BY <2>1 DEF IInv, OpInv, CancelledIn
    <2>6. SentOnce' BY <2>1, <2>2 DEF IInv, SentOnce
    <2> QED BY <1>1, <2>1, <2>4, <2>5, <2>6 DEF IInv
  <1>5. CASE Crash
    BY <1>1, <1>5, EndStep DEF Crash, world
  <1>6. CASE Start
    <2>1. /\ ~up /\ up' /\ mem' = Recovered(disk) /\ op'.next = Recovered(disk)
          /\ op'.kind = "init" /\ op'.pc = "write"
          /\ UNCHANGED <<disk, stable, used, fate, dispatched, granted, told>>
      BY <1>6 DEF Start, Persist, world
    <2>2. View(Recovered(disk), used, granted, dispatched, fate, told)
      BY ViewAfterRecovery DEF IInv, Sound
    <2>3. Sound(mem)' /\ Sound(op.next)' /\ Sound(disk)' /\ Sound(stable)'
      BY <2>1, <2>2 DEF IInv, Sound
    <2>4. OpInv' /\ SentOnce' BY <2>1 DEF IInv, OpInv, SentOnce
    <2> QED BY <1>1, <2>3, <2>4 DEF IInv
  <1>7. CASE UNCHANGED vars
    BY <1>1, <1>7 DEF vars, IInv, Sound, OpInv, SentOnce, CancelledIn
  <1> QED BY <1>2, <1>3, <1>4, <1>5, <1>6, <1>7 DEF Next

LEMMA Inductive == Spec => []IInv
  <1> QED BY InitInv, StepInv, PTL DEF Spec
-----------------------------------------------------------------------------
\* However the process and the power fail, every journal a restart can read records
\* each attempt handed to the adapter and no longer holds its authorization.
THEOREM DispatchIsDurable == Spec => []ConsumedBeforeDispatch
  <1>1. IInv => ConsumedBeforeDispatch
    <2> SUFFICES ASSUME IInv, NEW t \in AttemptIds, dispatched[t] > 0, NEW j, Sound(j)
                 PROVE  /\ j.attempts[t] # None
                        /\ j.attempts[t].authorization # None => j.attempts[t].authorization \notin Live(j)
      BY DEF IInv, ConsumedBeforeDispatch
    <2> QED BY DEF Sound, View, Recorded, Separate, Live
  <1> QED BY <1>1, Inductive, PTL

\* No authorization pays for two dispatches and no attempt is dispatched twice.
THEOREM SingleUse == Spec => []AuthorizationSpentOnce
  <1>1. IInv => AuthorizationSpentOnce
    <2> SUFFICES ASSUME IInv, NEW t \in AttemptIds, NEW u \in AttemptIds,
                        dispatched[t] > 0, dispatched[u] > 0
                 PROVE  /\ dispatched[t] = 1
                        /\ t # u => \/ stable.attempts[t].authorization = None
                                    \/ stable.attempts[t].authorization # stable.attempts[u].authorization
      BY DEF AuthorizationSpentOnce
    <2>1. dispatched[t] = 1 BY DEF IInv, SentOnce
    <2>2. Recorded(stable, dispatched) /\ Separate(stable) BY DEF IInv, Sound, View
    <2> QED BY <2>1, <2>2 DEF Recorded, Separate
  <1> QED BY <1>1, Inductive, PTL

\* A protected dispatch carries the version, scope and digest a person authorized.
THEOREM OnlyAuthorizedVersions == Spec => []ExactVersionAuthorized
  <1>1. IInv => ExactVersionAuthorized
    <2> SUFFICES ASSUME IInv, NEW t \in AttemptIds, dispatched[t] > 0,
                        stable.attempts[t].releaseClass = "PRE_DISCLOSURE_PROTECTED"
                 PROVE  /\ Grant(stable.attempts[t].authorization, stable.attempts[t].sealId,
                                 stable.attempts[t]) \in granted
                        /\ stable.attempts[t].confirmation = stable.attempts[t].digest
                        /\ stable.attempts[t].protocol = RuntimeProtocol
      BY DEF ExactVersionAuthorized, Grant
    <2>1. Recorded(stable, dispatched) /\ Authorized(stable, granted) BY DEF IInv, Sound, View
    <2> QED BY <2>1 DEF Recorded, Authorized
  <1> QED BY <1>1, Inductive, PTL

\* An acknowledged cancellation of a protected version is final.
THEOREM CancellationIsFinal == Spec => []CancelIsFinal
  <1>1. IInv => CancelIsFinal
    <2> SUFFICES ASSUME IInv, NEW s \in SealIds, NEW t \in AttemptIds,
                        [answer |-> "cancelled", id |-> s] \in told,
                        stable.seals[s].mode # "Continuous", dispatched[t] > 0
                 PROVE  stable.attempts[t].sealId # s
      BY DEF CancelIsFinal
    <2>1. Recorded(stable, dispatched) /\ Withdrawn(stable, told) BY DEF IInv, Sound, View
    <2> QED BY <2>1 DEF Recorded, Withdrawn, CancelledIn
  <1> QED BY <1>1, Inductive, PTL

\* No journal claims an outcome the page does not bear out.
THEOREM OutcomesAreTrue == Spec => []RecordIsTrue
  <1>1. IInv => RecordIsTrue
    BY DEF IInv, Sound, View, Truth, RecordIsTrue
  <1> QED BY <1>1, Inductive, PTL
-----------------------------------------------------------------------------
(***************************************************************************)
(* What a journal remembers of the journal b last synced and of the        *)
(* answers w that were given: the second strengthening, for what no later  *)
(* write may take back and for the ledger.                                 *)
(***************************************************************************)

\* An attempt's record is never rewritten but for its outcome, once.
Later(a, b) ==
  b = a \/ (b # None /\ a.state = "DISPATCHING" /\ [b EXCEPT !.state = "DISPATCHING"] = a)
Extends(j, k) == \A t \in AttemptIds : j.attempts[t] # None => Later(j.attempts[t], k.attempts[t])

\* Retrospective releases have nothing to do with authorizations.
Classed(j) ==
  /\ \A s \in SealIds : j.seals[s] # None /\ j.seals[s].mode = "Continuous" =>
       j.seals[s].authorization = None
  /\ \A t \in AttemptIds : j.attempts[t] # None =>
       /\ j.attempts[t].releaseClass = "RETROSPECTIVE_CONTINUOUS" => j.attempts[t].authorization = None
       /\ j.attempts[t].releaseClass = "PRE_DISCLOSURE_PROTECTED" =>
            j.seals[j.attempts[t].sealId].mode # "Continuous"

\* Seal s was seen in the page: neither confirm, retry, cancel nor a release touches it any more.
Done(j, s) ==
  /\ j.seals[s] # None /\ j.seals[s].authorization = None
  /\ j.seals[s].mode # "Continuous" => j.seals[s].confirmation # None
  /\ j.seals[s].priorAttempt \in AttemptIds
  /\ j.attempts[j.seals[s].priorAttempt] # None
  /\ j.attempts[j.seals[s].priorAttempt].state = "SUBMISSION_OBSERVED"

Observed(s) == [answer |-> "observed", id |-> s]
Seen(j, w) == \A s \in SealIds : Observed(s) \in w => Done(j, s)

Remembers(b, j, w) == Extends(b, j) /\ Classed(j) /\ Seen(j, w)

\* A release that runs has spent the authorization of its version on its attempt.
Spent(j, s, t) ==
  /\ s \in SealIds /\ t \in AttemptIds /\ j.seals[s] # None
  /\ j.seals[s].priorAttempt = t /\ j.seals[s].authorization = None
  /\ j.seals[s].mode # "Continuous" => j.seals[s].confirmation # None
  /\ j.attempts[t] # None /\ j.attempts[t].sealId = s

OpKnows ==
  /\ op.pc = "verify" => mem.seals[op.id].mode # "Continuous" /\ mem.seals[op.id].confirmation = None
  /\ op.kind \in {"consume", "complete"} => Spent(op.next, op.id, op.attempt)
  /\ op.kind = "consume" => /\ op.next.attempts[op.attempt].state = "DISPATCHING"
                            /\ Observed(op.id) \notin told

HInv ==
  /\ Remembers(stable, stable, told) /\ Remembers(stable, disk, told)
  /\ up => Remembers(stable, mem, told)
  /\ op.pc # "idle" => Remembers(stable, op.next, told)
  /\ OpKnows
  /\ \A g \in granted : g.authorization \in used
-----------------------------------------------------------------------------
(***************************************************************************)
(* How each change of a journal keeps what it remembers.                   *)
(***************************************************************************)

LEMMA NoneIsNoAttempt == None \notin Attempt
  BY ReleaseAssumption, Zenon

LEMMA LaterKeeps ==
  ASSUME NEW a \in Attempt, NEW b \in Attempt \cup {None}, Later(a, b)
  PROVE  /\ b \in Attempt /\ b # None /\ b.sealId = a.sealId
         /\ b.authorization = a.authorization /\ b.releaseClass = a.releaseClass
  <1>1. a # None BY NoneIsNoAttempt
  <1>2. b # None /\ b \in Attempt BY <1>1 DEF Later
  <1>3. CASE b = a BY <1>1, <1>3
  <1>4. CASE [b EXCEPT !.state = "DISPATCHING"] = a
    BY <1>2, <1>4 DEF Attempt
  <1> QED BY <1>3, <1>4, <1>2 DEF Later

LEMMA LaterTransitive ==
  ASSUME NEW a \in Attempt, NEW b \in Attempt, NEW c, Later(a, b), Later(b, c)
  PROVE  Later(a, c)
  <1>1. CASE c = b \/ b = a BY <1>1
  <1>2. CASE c # b /\ b # a
    <2>1. b.state = "DISPATCHING" /\ [b EXCEPT !.state = "DISPATCHING"] = a
      BY <1>2 DEF Later
    <2>2. b = a BY <2>1 DEF Attempt
    <2> QED BY <1>2, <2>2
  <1> QED BY <1>1, <1>2

LEMMA ExtendsTransitive ==
  ASSUME NEW i \in Journal, NEW j \in Journal, NEW k \in Journal, Extends(i, j), Extends(j, k)
  PROVE  Extends(i, k)
  <1> SUFFICES ASSUME NEW t \in AttemptIds, i.attempts[t] # None
               PROVE  Later(i.attempts[t], k.attempts[t])
    BY DEF Extends
  <1>1. i.attempts[t] \in Attempt /\ j.attempts[t] \in Attempt \cup {None}
    BY DEF Journal
  <1>2. Later(i.attempts[t], j.attempts[t]) BY DEF Extends
  <1>3. j.attempts[t] \in Attempt /\ j.attempts[t] # None BY <1>1, <1>2, LaterKeeps
  <1>4. Later(j.attempts[t], k.attempts[t]) BY <1>3 DEF Extends
  <1> QED BY <1>1, <1>2, <1>3, <1>4, LaterTransitive

\* seal, confirm, retry and cancel write one version nobody was told was observed.
LEMMA RememberSeal ==
  ASSUME NEW b, NEW j \in Journal, NEW w, Remembers(b, j, w), Linked(j),
         NEW s \in SealIds, NEW seal \in Seal, Observed(s) \notin w,
         seal.mode = "Continuous" => seal.authorization = None,
         j.seals[s] # None => seal.mode = j.seals[s].mode
  PROVE  Remembers(b, WithSeal(j, s, seal), w)
  <1> DEFINE k == WithSeal(j, s, seal)
  <1>1. k.attempts = j.attempts /\ k.seals = [j.seals EXCEPT ![s] = seal]
    BY DEF WithSeal, Journal
  <1>2. k.seals[s] = seal /\ \A r \in SealIds \ {s} : k.seals[r] = j.seals[r]
    BY <1>1 DEF Journal
  <1> HIDE DEF k
  <1>3. Extends(b, k) BY <1>1 DEF Remembers, Extends
  <1>4. Classed(k)
    <2>1. ASSUME NEW t \in AttemptIds, k.attempts[t] # None
          PROVE  /\ k.attempts[t].sealId \in SealIds
                 /\ j.seals[k.attempts[t].sealId] # None
                 /\ k.seals[k.attempts[t].sealId].mode = j.seals[k.attempts[t].sealId].mode
      <3>1. k.attempts[t].sealId \in SealIds BY <1>1, <2>1, AttemptType DEF Attempt
      <3>2. j.seals[k.attempts[t].sealId] # None BY <1>1, <2>1 DEF Linked
      <3> QED BY <1>2, <3>1, <3>2
    <2>2. \A r \in SealIds : k.seals[r] # None /\ k.seals[r].mode = "Continuous" =>
             k.seals[r].authorization = None
      BY <1>2 DEF Remembers, Classed
    <2> QED BY <1>1, <2>1, <2>2 DEF Remembers, Classed
  <1>5. Seen(k, w)
    <2> SUFFICES ASSUME NEW r \in SealIds, Observed(r) \in w PROVE Done(k, r)
      BY DEF Seen
    <2>1. r # s /\ Done(j, r) BY DEF Remembers, Seen
    <2> QED BY <1>1, <1>2, <2>1 DEF Done
  <1> QED BY <1>3, <1>4, <1>5 DEF Remembers, k

\* A release takes a fresh attempt for a version nobody was told was observed.
LEMMA RememberRelease ==
  ASSUME NEW b, NEW w, mem \in Journal, Remembers(b, mem, w), Linked(mem),
         NEW id \in SealIds, mem.seals[id] # None, Observed(id) \notin w,
         NEW t \in AttemptIds, mem.attempts[t] = None, b.attempts[t] = None,
         NEW protocol \in Protocols, NEW class \in Classes,
         class = "PRE_DISCLOSURE_PROTECTED" =>
           mem.seals[id].mode # "Continuous" /\ mem.seals[id].confirmation # None,
         class = "RETROSPECTIVE_CONTINUOUS" => mem.seals[id].mode = "Continuous"
  PROVE  /\ Remembers(b, Consumed(id, t, protocol, class), w)
         /\ Spent(Consumed(id, t, protocol, class), id, t)
         /\ Consumed(id, t, protocol, class).attempts[t].state = "DISPATCHING"
  <1> DEFINE k == Consumed(id, t, protocol, class)
             seal == mem.seals[id]
             attempt == k.attempts[t]
  <1>0. seal \in Seal
    BY SealType
  <1>1. k \in Journal /\ k.seals[id] # None /\ attempt # None
    BY ConsumedType
  <1>2. /\ \A r \in SealIds \ {id} : k.seals[r] = mem.seals[r]
        /\ \A r \in AttemptIds \ {t} : k.attempts[r] = mem.attempts[r]
    BY DEF Consumed, Journal
  <1>3. /\ k.seals[id].mode = seal.mode /\ k.seals[id].confirmation = seal.confirmation
        /\ k.seals[id].priorAttempt = t
        /\ k.seals[id].authorization =
             IF class = "PRE_DISCLOSURE_PROTECTED" THEN None ELSE seal.authorization
    BY <1>0 DEF Consumed, Journal, Seal
  <1>4. /\ attempt.sealId = id /\ attempt.releaseClass = class /\ attempt.state = "DISPATCHING"
        /\ class # "PRE_DISCLOSURE_PROTECTED" => attempt.authorization = None
    BY DEF Consumed, Journal
  <1>5. class \in {"PRE_DISCLOSURE_PROTECTED", "RETROSPECTIVE_CONTINUOUS"}
    BY DEF Classes
  <1> HIDE DEF k
  <1>6. k.seals[id].authorization = None
    BY <1>3, <1>5 DEF Remembers, Classed
  <1>7. Extends(b, k) BY <1>2 DEF Remembers, Extends
  <1>8. Classed(k)
    <2>1. \A r \in SealIds : k.seals[r] # None /\ k.seals[r].mode = "Continuous" =>
             k.seals[r].authorization = None
      BY <1>2, <1>6 DEF Remembers, Classed
    <2>2. \A r \in AttemptIds : k.attempts[r] # None =>
            (k.attempts[r].releaseClass = "RETROSPECTIVE_CONTINUOUS" => k.attempts[r].authorization = None)
      BY <1>2, <1>4 DEF Remembers, Classed
    <2>3. ASSUME NEW r \in AttemptIds, k.attempts[r] # None,
                 k.attempts[r].releaseClass = "PRE_DISCLOSURE_PROTECTED"
          PROVE  k.seals[k.attempts[r].sealId].mode # "Continuous"
      <3>1. CASE r = t BY <1>3, <1>4, <2>3, <3>1
      <3>2. CASE r # t
        <4>1. mem.attempts[r] # None /\ k.attempts[r] = mem.attempts[r] BY <1>2, <2>3, <3>2
        <4>2. mem.seals[mem.attempts[r].sealId].mode # "Continuous"
          BY <2>3, <4>1 DEF Remembers, Classed
        <4>3. mem.attempts[r].sealId \in SealIds BY <4>1, AttemptType DEF Attempt
        <4> QED BY <1>2, <1>3, <4>1, <4>2, <4>3
      <3> QED BY <3>1, <3>2
    <2> QED BY <2>1, <2>2, <2>3 DEF Classed
  <1>9. Seen(k, w)
    <2> SUFFICES ASSUME NEW r \in SealIds, Observed(r) \in w PROVE Done(k, r)
      BY DEF Seen
    <2>1. r # id /\ Done(mem, r) BY DEF Remembers, Seen
    <2>2. mem.seals[r].priorAttempt \in AttemptIds \ {t} BY <2>1 DEF Done
    <2> QED BY <1>2, <2>1, <2>2 DEF Done
  <1>10. Spent(k, id, t)
    BY <1>1, <1>3, <1>4, <1>5, <1>6 DEF Spent
  <1> QED BY <1>4, <1>7, <1>8, <1>9, <1>10 DEF Remembers, k

\* A journal in which attempts only got the outcome they did not have yet.
LEMMA RememberOutcome ==
  ASSUME NEW b \in Journal, NEW j \in Journal, NEW k \in Journal, NEW w, Remembers(b, j, w),
         k.seals = j.seals, Extends(j, k),
         \A t \in AttemptIds : j.attempts[t] = None => k.attempts[t] = None
  PROVE  Remembers(b, k, w)
  <1>1. Extends(b, k) BY ExtendsTransitive DEF Remembers
  <1>2. ASSUME NEW t \in AttemptIds, k.attempts[t] # None
        PROVE  /\ j.attempts[t] # None /\ k.attempts[t].sealId = j.attempts[t].sealId
               /\ k.attempts[t].authorization = j.attempts[t].authorization
               /\ k.attempts[t].releaseClass = j.attempts[t].releaseClass
    <2>1. j.attempts[t] # None BY <1>2
    <2>2. j.attempts[t] \in Attempt /\ k.attempts[t] \in Attempt \cup {None}
      BY <2>1, AttemptType DEF Journal
    <2>3. Later(j.attempts[t], k.attempts[t]) BY <2>1 DEF Extends
    <2> QED BY <2>1, <2>2, <2>3, LaterKeeps
  <1>3. Classed(k) BY <1>2 DEF Remembers, Classed
  <1>4. Seen(k, w)
    <2> SUFFICES ASSUME NEW r \in SealIds, Observed(r) \in w PROVE Done(k, r)
      BY DEF Seen
    <2>1. Done(j, r) BY DEF Remembers, Seen
    <2> DEFINE t == j.seals[r].priorAttempt
    <2>2. t \in AttemptIds /\ j.attempts[t] # None /\ j.attempts[t].state = "SUBMISSION_OBSERVED"
      BY <2>1 DEF Done
    <2>3. Later(j.attempts[t], k.attempts[t]) BY <2>2 DEF Extends
    <2>4. k.attempts[t] = j.attempts[t] BY <2>2, <2>3 DEF Later
    <2> QED BY <2>1, <2>2, <2>4 DEF Done
  <1> QED BY <1>1, <1>3, <1>4 DEF Remembers

LEMMA StateOnly ==
  ASSUME NEW a \in Attempt, a.state = "DISPATCHING", NEW o \in Outcomes
  PROVE  Later(a, [a EXCEPT !.state = o])
  <1>1. [a EXCEPT !.state = o] \in Attempt BY DEF Attempt
  <1>2. [a EXCEPT !.state = o] # None BY <1>1, NoneIsNoAttempt
  <1>3. [[a EXCEPT !.state = o] EXCEPT !.state = "DISPATCHING"] = a BY DEF Attempt
  <1> QED BY <1>2, <1>3 DEF Later

LEMMA RememberRecovery ==
  ASSUME NEW b \in Journal, NEW j \in Journal, NEW w, Remembers(b, j, w)
  PROVE  Remembers(b, Recovered(j), w)
  <1>1. Recovered(j) \in Journal BY RecoveredType
  <1>2. Recovered(j).seals = j.seals BY DEF Recovered, Journal
  <1>3. ASSUME NEW t \in AttemptIds, ~(j.attempts[t] # None /\ j.attempts[t].state = "DISPATCHING")
        PROVE  Recovered(j).attempts[t] = j.attempts[t]
    BY <1>3 DEF Recovered, Journal
  <1>4. ASSUME NEW t \in AttemptIds, j.attempts[t] # None, j.attempts[t].state = "DISPATCHING"
        PROVE  Later(j.attempts[t], Recovered(j).attempts[t])
    <2>1. Recovered(j).attempts[t] = [j.attempts[t] EXCEPT !.state = "OUTCOME_UNKNOWN"]
      BY <1>4 DEF Recovered, Journal
    <2>2. "OUTCOME_UNKNOWN" \in Outcomes BY DEF Outcomes
    <2>3. j.attempts[t] \in Attempt BY <1>4, AttemptType
    <2>4. Later(j.attempts[t], [j.attempts[t] EXCEPT !.state = "OUTCOME_UNKNOWN"])
      BY <1>4, <2>2, <2>3, StateOnly
    <2> QED BY <2>1, <2>4
  <1>5. Extends(j, Recovered(j)) BY <1>3, <1>4 DEF Extends, Later
  <1>6. \A t \in AttemptIds : j.attempts[t] = None => Recovered(j).attempts[t] = None
    BY <1>3
  <1> QED BY <1>1, <1>2, <1>5, <1>6, RememberOutcome

LEMMA RememberAnswer ==
  ASSUME NEW b \in Journal, mem \in Journal, NEW w, Remembers(b, mem, w),
         NEW s, NEW t, Spent(mem, s, t), mem.attempts[t].state = "DISPATCHING",
         NEW outcome \in Outcomes
  PROVE  Remembers(b, Settled(t, outcome), w) /\ Spent(Settled(t, outcome), s, t)
  <1> DEFINE k == Settled(t, outcome)
  <1>0. t \in AttemptIds /\ mem.attempts[t] # None BY DEF Spent
  <1>1. k \in Journal BY <1>0, SettledType
  <1>2. mem.attempts[t] \in Attempt BY <1>0, AttemptType
  <1>3. /\ k.seals = mem.seals
        /\ \A r \in AttemptIds \ {t} : k.attempts[r] = mem.attempts[r]
        /\ k.attempts[t] = [mem.attempts[t] EXCEPT !.state = outcome]
    BY <1>0 DEF Settled, Journal
  <1> HIDE DEF k
  <1>4. Later(mem.attempts[t], k.attempts[t]) BY <1>2, <1>3, StateOnly
  <1>5. Extends(mem, k) BY <1>3, <1>4 DEF Extends, Later
  <1>6. \A r \in AttemptIds : mem.attempts[r] = None => k.attempts[r] = None
    BY <1>0, <1>3
  <1>7. Remembers(b, k, w) BY <1>1, <1>3, <1>5, <1>6, RememberOutcome
  <1>8. k.attempts[t] \in Attempt \cup {None} BY <1>0, <1>1 DEF Journal
  <1>9. k.attempts[t] # None /\ k.attempts[t].sealId = mem.attempts[t].sealId
    BY <1>2, <1>4, <1>8, LaterKeeps
  <1>10. Spent(k, s, t) BY <1>3, <1>9 DEF Spent
  <1> QED BY <1>7, <1>10 DEF k
-----------------------------------------------------------------------------
(***************************************************************************)
(* The inductive step of the second strengthening.                         *)
(***************************************************************************)

\* No seal a guard lets be written or released is one somebody was told was observed.
LEMMA OpenForWriting ==
  ASSUME NEW j, NEW b, NEW w, Remembers(b, j, w), NEW s \in SealIds,
         \/ j.seals[s] = None
         \/ j.seals[s].priorAttempt = None
         \/ j.seals[s].authorization # None
         \/ j.seals[s].mode # "Continuous" /\ j.seals[s].confirmation = None
         \/ j.attempts[j.seals[s].priorAttempt].state # "SUBMISSION_OBSERVED"
  PROVE  Observed(s) \notin w
  <1>1. None \notin AttemptIds BY ReleaseAssumption, Zenon
  <1>2. ~Done(j, s) BY <1>1 DEF Done
  <1> QED BY <1>2 DEF Remembers, Seen

\* What a call of the queue finds when it begins.
LEMMA CallFrame ==
  ASSUME IInv, HInv, Call
  PROVE  /\ up /\ op.pc = "idle" /\ Sound(mem) /\ Linked(mem) /\ mem \in Journal
         /\ Remembers(stable, mem, told)
         /\ UNCHANGED <<up, mem, disk, stable, told>>
  <1> DEFINE Frame == up /\ op.pc = "idle" /\ UNCHANGED <<up, mem, disk, stable, told>>
  <1>1. ASSUME NEW id, NEW scope, NEW p, NEW mode, SealPayload(id, scope, p, mode) PROVE Frame
    BY <1>1 DEF SealPayload, Ready
  <1>2. ASSUME NEW id, NEW scope, NEW d, Confirm(id, scope, d) PROVE Frame
    BY <1>2 DEF Confirm, Ready
  <1>3. ASSUME NEW id, NEW scope, NEW d, Cancel(id, scope, d) PROVE Frame
    BY <1>3 DEF Cancel, Ready
  <1>4. ASSUME NEW id, NEW scope, NEW t, NEW explicit, NEW a, Retry(id, scope, t, explicit, a)
        PROVE  Frame
    BY <1>4 DEF Retry, Ready
  <1>5. ASSUME NEW id, NEW scope, NEW d, NEW p, NEW protocol, NEW t,
               Release(id, scope, d, p, protocol, t)
        PROVE  Frame
    BY <1>5 DEF Release, Ready
  <1>6. ASSUME NEW id, NEW scope, NEW d, NEW p, NEW protocol, NEW t,
               ReleaseContinuous(id, scope, d, p, protocol, t)
        PROVE  Frame
    BY <1>6 DEF ReleaseContinuous, Ready
  <1> HIDE DEF Frame
  <1>7. Frame BY <1>1, <1>2, <1>3, <1>4, <1>5, <1>6 DEF Call
  <1>8. up /\ op.pc = "idle" /\ UNCHANGED <<up, mem, disk, stable, told>> BY <1>7 DEF Frame
  <1>9. Sound(mem) BY <1>8 DEF IInv
  <1>10. Linked(mem) /\ mem \in Journal BY <1>9 DEF Sound, View
  <1>11. Remembers(stable, mem, told) BY <1>8 DEF HInv
  <1> QED BY <1>8, <1>9, <1>10, <1>11

\* A call that has computed what it will write, or waits for a confirmation.
LEMMA CallRemembers == ASSUME IInv, HInv, Call PROVE HInv'
  <1>0. /\ up /\ op.pc = "idle" /\ Sound(mem) /\ Linked(mem) /\ mem \in Journal
        /\ Remembers(stable, mem, told)
        /\ up' = up /\ mem' = mem /\ disk' = disk /\ stable' = stable /\ told' = told
    BY CallFrame
  <1>1. /\ Remembers(stable, stable, told)' /\ Remembers(stable, disk, told)'
        /\ Remembers(stable, mem, told)'
    BY <1>0 DEF HInv
  <1>2. SUFFICES Remembers(stable, op'.next, told) /\ OpKnows'
                 /\ \A g \in granted' : g.authorization \in used'
    BY <1>0, <1>1 DEF HInv
  <1>3. ASSUME NEW id \in SealIds, NEW scope \in Scopes, NEW p \in Payloads, NEW mode \in Modes,
               SealPayload(id, scope, p, mode)
        PROVE  Remembers(stable, op'.next, told) /\ OpKnows'
               /\ \A g \in granted' : g.authorization \in used'
    <2> DEFINE seal == [scope |-> scope, mode |-> mode, payload |-> p, digest |-> Digest[p],
                        confirmation |-> None, authorization |-> None, priorAttempt |-> None,
                        cancelled |-> FALSE]
    <2>1. seal \in Seal /\ seal.authorization = None
      BY DEF Seal, Digests
    <2>2. op'.next = WithSeal(mem, id, seal) /\ op'.kind = "seal" /\ op'.pc = "write"
          /\ used' = used \cup {id} /\ granted' = granted /\ id \notin used
      BY <1>3 DEF SealPayload, Persist
    <2> HIDE DEF seal
    <2>3. mem.seals[id] = None BY <1>0, <2>2 DEF Sound, View, Drawn
    <2>4. Observed(id) \notin told BY <1>0, <2>3, OpenForWriting
    <2>5. Remembers(stable, op'.next, told) BY <1>0, <2>1, <2>2, <2>3, <2>4, RememberSeal
    <2>6. OpKnows' BY <2>2 DEF OpKnows
    <2>7. \A g \in granted' : g.authorization \in used' BY <2>2 DEF HInv
    <2> QED BY <2>5, <2>6, <2>7
  <1>4. ASSUME NEW id \in SealIds, NEW scope \in Scopes, NEW d \in Digests, Confirm(id, scope, d)
        PROVE  Remembers(stable, op'.next, told) /\ OpKnows'
               /\ \A g \in granted' : g.authorization \in used'
    <2>1. op'.next = mem /\ op'.kind = "confirm" /\ op'.pc = "verify" /\ op'.id = id
          /\ used' = used /\ granted' = granted
          /\ mem.seals[id].mode # "Continuous" /\ mem.seals[id].confirmation = None
      BY <1>4 DEF Confirm
    <2>2. OpKnows' BY <1>0, <2>1 DEF OpKnows
    <2>3. \A g \in granted' : g.authorization \in used' BY <2>1 DEF HInv
    <2> QED BY <1>0, <2>1, <2>2, <2>3
  <1>5. ASSUME NEW id \in SealIds, NEW scope \in Scopes, NEW d \in Digests, Cancel(id, scope, d)
        PROVE  Remembers(stable, op'.next, told) /\ OpKnows'
               /\ \A g \in granted' : g.authorization \in used'
    <2> DEFINE seal == [mem.seals[id] EXCEPT !.authorization = None, !.cancelled = TRUE]
    <2>1. /\ op'.next = WithSeal(mem, id, seal) /\ op'.kind = "cancel" /\ op'.pc = "write"
          /\ used' = used /\ granted' = granted
          /\ mem.seals[id] # None /\ mem.seals[id].priorAttempt = None
      BY <1>5 DEF Cancel, HasSeal, Persist
    <2>2. mem.seals[id] \in Seal BY <1>0, <2>1, SealType
    <2>3. seal \in Seal /\ seal.authorization = None /\ seal.mode = mem.seals[id].mode
      BY <2>2 DEF Seal
    <2> HIDE DEF seal
    <2>4. Observed(id) \notin told BY <1>0, <2>1, OpenForWriting
    <2>5. Remembers(stable, op'.next, told) BY <1>0, <2>1, <2>3, <2>4, RememberSeal
    <2>6. OpKnows' BY <2>1 DEF OpKnows
    <2>7. \A g \in granted' : g.authorization \in used' BY <2>1 DEF HInv
    <2> QED BY <2>5, <2>6, <2>7
  <1>6. ASSUME NEW id \in SealIds, NEW scope \in Scopes, NEW t \in AttemptIds,
               NEW explicit \in BOOLEAN, NEW a \in AuthIds, Retry(id, scope, t, explicit, a)
        PROVE  Remembers(stable, op'.next, told) /\ OpKnows'
               /\ \A g \in granted' : g.authorization \in used'
    <2> DEFINE seal == [mem.seals[id] EXCEPT !.authorization = a]
    <2>1. /\ op'.next = WithSeal(mem, id, seal) /\ op'.kind = "retry" /\ op'.pc = "write"
          /\ used' = used \cup {a} /\ granted' = granted \cup {Grant(a, id, mem.seals[id])}
          /\ mem.seals[id] # None /\ mem.seals[id].priorAttempt = t
          /\ mem.attempts[t] # None /\ mem.attempts[t].sealId = id
          /\ mem.attempts[t].releaseClass # "RETROSPECTIVE_CONTINUOUS"
          /\ mem.attempts[t].state \in {"OUTCOME_UNKNOWN", "FAILED_BEFORE_EGRESS"}
      BY <1>6 DEF Retry, HasSeal, Persist
    <2>2. mem.seals[id] \in Seal BY <1>0, <2>1, SealType
    <2>3. mem.attempts[t].releaseClass = "PRE_DISCLOSURE_PROTECTED"
      BY <1>0, <2>1, AttemptType DEF Attempt, Classes
    <2>4. mem.seals[id].mode # "Continuous"
      BY <1>0, <2>1, <2>3 DEF Remembers, Classed
    <2>5. seal \in Seal /\ seal.mode = mem.seals[id].mode
      BY <2>2 DEF Seal
    <2> HIDE DEF seal
    <2>6. mem.attempts[mem.seals[id].priorAttempt].state # "SUBMISSION_OBSERVED"
      BY <2>1
    <2>7. Observed(id) \notin told BY <1>0, <2>6, OpenForWriting
    <2>8. Remembers(stable, op'.next, told) BY <1>0, <2>1, <2>4, <2>5, <2>7, RememberSeal
    <2>9. OpKnows' BY <2>1 DEF OpKnows
    <2>10. \A g \in granted' : g.authorization \in used' BY <2>1 DEF HInv, Grant
    <2> QED BY <2>8, <2>9, <2>10
  <1>7. ASSUME NEW id \in SealIds, NEW t \in AttemptIds, NEW class \in Classes, mem.seals[id] # None,
               class = "PRE_DISCLOSURE_PROTECTED" =>
                 /\ mem.seals[id].mode # "Continuous" /\ mem.seals[id].confirmation # None
                 /\ mem.seals[id].authorization # None,
               class = "RETROSPECTIVE_CONTINUOUS" =>
                 mem.seals[id].mode = "Continuous" /\ mem.seals[id].priorAttempt = None,
               t \notin used, used' = used \cup {t}, granted' = granted,
               Persist("consume", Consumed(id, t, RuntimeProtocol, class), id, t)
        PROVE  Remembers(stable, op'.next, told) /\ OpKnows'
               /\ \A g \in granted' : g.authorization \in used'
    <2> DEFINE k == Consumed(id, t, RuntimeProtocol, class)
    <2>1. op'.next = k /\ op'.kind = "consume" /\ op'.pc = "write" /\ op'.attempt = t /\ op'.id = id
      BY <1>7 DEF Persist
    <2>2. mem.attempts[t] = None BY <1>0, <1>7 DEF Sound, View, Drawn
    <2>3. stable.attempts[t] = None BY <1>7 DEF IInv, Sound, View, Drawn
    <2>4. mem.seals[id].priorAttempt = None \/ mem.seals[id].authorization # None
      BY <1>7 DEF Classes
    <2>5. Observed(id) \notin told BY <1>0, <2>4, OpenForWriting
    <2>6. RuntimeProtocol \in Protocols BY ReleaseAssumption, Zenon
    <2>7. Remembers(stable, k, told) /\ Spent(k, id, t) /\ k.attempts[t].state = "DISPATCHING"
      BY <1>0, <1>7, <2>2, <2>3, <2>5, <2>6, RememberRelease
    <2> HIDE DEF k
    <2>8. OpKnows' BY <1>0, <2>1, <2>5, <2>7 DEF OpKnows, Spent
    <2>9. \A g \in granted' : g.authorization \in used' BY <1>7 DEF HInv
    <2> QED BY <2>1, <2>7, <2>8, <2>9
  <1>8. ASSUME NEW id \in SealIds, NEW scope \in Scopes, NEW d \in Digests, NEW p \in Payloads,
               NEW protocol \in Protocols, NEW t \in AttemptIds,
               Release(id, scope, d, p, protocol, t) \/ ReleaseContinuous(id, scope, d, p, protocol, t)
        PROVE  Remembers(stable, op'.next, told) /\ OpKnows'
               /\ \A g \in granted' : g.authorization \in used'
    <2>1. CASE Release(id, scope, d, p, protocol, t)
      BY <1>7, <2>1 DEF Release, Current, HasSeal, Classes
    <2>2. CASE ReleaseContinuous(id, scope, d, p, protocol, t)
      BY <1>7, <2>2 DEF ReleaseContinuous, Current, HasSeal, Classes
    <2> QED BY <1>8, <2>1, <2>2
  <1> QED BY <1>3, <1>4, <1>5, <1>6, <1>8 DEF Call

\* The call at the head of the queue ends, or the process does.
LEMMA EndRemembers ==
  ASSUME HInv, op' = Idle, UNCHANGED <<used, granted, told, stable>>,
         disk' \in {disk, stable}, up' => up /\ mem' = mem
  PROVE  HInv'
  <1>1. Remembers(stable, stable, told)' BY DEF HInv
  <1>2. Remembers(stable, disk, told)' BY DEF HInv
  <1>3. up' => Remembers(stable, mem, told)' BY DEF HInv
  <1>4. op'.pc = "idle" /\ op'.kind = "none" BY DEF Idle
  <1>5. OpKnows' BY <1>4 DEF OpKnows
  <1>6. \A g \in granted' : g.authorization \in used' BY DEF HInv
  <1> QED BY <1>1, <1>2, <1>3, <1>4, <1>5, <1>6 DEF HInv

\* persist, the dispatch and its answer.
LEMMA ProgressRemembers == ASSUME IInv, HInv, Progress PROVE HInv'
  <1>0. /\ op \in OpType /\ (op.pc # "idle" => up) /\ disk \in Journal /\ stable \in Journal
        /\ mem \in Journal /\ (up => Sound(mem))
    BY DEF IInv, OpInv, TypeOK, OpType
  <1>1. ASSUME NEW d \in Digests, NEW a \in AuthIds, Confirmed(d, a)
        PROVE  HInv'
    <2> DEFINE id == op.id
               seal == [mem.seals[id] EXCEPT !.confirmation = d, !.authorization = a]
    <2>1. /\ op'.next = WithSeal(mem, id, seal) /\ op'.kind = "confirm" /\ op'.pc = "write"
          /\ used' = used \cup {a} /\ granted' = granted \cup {Grant(a, id, mem.seals[id])}
          /\ UNCHANGED <<up, mem, disk, stable, told>>
          /\ op.pc = "verify"
      BY <1>1 DEF Confirmed, Persist
    <2>2. /\ id \in SealIds /\ mem.seals[id] # None
          /\ mem.seals[id].mode # "Continuous" /\ mem.seals[id].confirmation = None
      BY <2>1 DEF IInv, OpRefers, HInv, OpKnows
    <2>3. mem.seals[id] \in Seal BY <1>0, <2>2, SealType
    <2>4. seal \in Seal /\ seal.mode = mem.seals[id].mode
      BY <2>3 DEF Seal
    <2> HIDE DEF seal
    <2>5. up /\ Linked(mem) /\ Remembers(stable, mem, told)
      BY <1>0, <2>1 DEF Sound, View, HInv
    <2>6. Observed(id) \notin told BY <2>2, <2>5, OpenForWriting
    <2>7. Remembers(stable, op'.next, told) BY <1>0, <2>1, <2>2, <2>4, <2>5, <2>6, RememberSeal
    <2>8. OpKnows' BY <2>1 DEF OpKnows
    <2>9. \A g \in granted' : g.authorization \in used' BY <2>1 DEF HInv, Grant
    <2> QED BY <2>1, <2>7, <2>8, <2>9 DEF HInv
  <1>2. CASE ConfirmationRefused
    BY <1>2, EndRemembers DEF ConfirmationRefused
  <1>3. CASE WriteFails
    BY <1>0, <1>3, EndRemembers DEF WriteFails, Abandon
  <1>4. CASE SyncFails
    BY <1>0, <1>4, EndRemembers DEF SyncFails, Abandon
  <1>5. CASE FaultAfterConsumption
    BY <1>5, EndRemembers DEF FaultAfterConsumption
  <1>6. CASE Rename
    <2>1. /\ op.pc = "write" /\ op'.pc = "sync" /\ op'.kind = op.kind /\ op'.next = op.next
          /\ op'.id = op.id /\ op'.attempt = op.attempt /\ disk' = op.next
          /\ UNCHANGED <<up, mem, stable, used, granted, told>>
      BY <1>0, <1>6 DEF Rename, OpType
    <2>2. OpKnows' BY <2>1 DEF HInv, OpKnows, Spent
    <2> QED BY <2>1, <2>2 DEF HInv
  <1>7. CASE Sync
    <2>1. /\ op.pc = "sync" /\ stable' = disk /\ mem' = op.next /\ told' = told \cup Answers
          /\ UNCHANGED <<up, disk, used, granted>>
          /\ disk = op.next
      BY <1>7 DEF IInv, Sync, OpInv
    <2>2. /\ op.kind = "consume" => op'.pc = "send" /\ op'.kind = "consume" /\ op'.next = op.next
                                    /\ op'.attempt = op.attempt /\ op'.id = op.id
          /\ op.kind # "consume" => op' = Idle
      BY <1>0, <1>7 DEF Sync, OpType
    <2>3. Extends(op.next, op.next) BY DEF Extends, Later
    <2>4. Classed(op.next) /\ Seen(op.next, told) BY <2>1 DEF HInv, Remembers
    <2>5. ASSUME NEW s \in SealIds, Observed(s) \in told'
          PROVE  Done(op.next, s)
      <3>1. CASE Observed(s) \in told BY <2>4, <3>1 DEF Seen
      <3>2. CASE Observed(s) \in Answers
        <4>1. op.kind = "complete" /\ op.id = s
              /\ op.next.attempts[op.attempt].state = "SUBMISSION_OBSERVED"
          BY <3>2 DEF Answers, Observed
        <4>2. Spent(op.next, s, op.attempt) BY <4>1 DEF HInv, OpKnows
        <4> QED BY <4>1, <4>2 DEF Spent, Done
      <3> QED BY <2>1, <2>5, <3>1, <3>2
    <2>6. Seen(op.next, told') BY <2>5 DEF Seen
    <2>7. Remembers(op.next, op.next, told') BY <2>3, <2>4, <2>6 DEF Remembers
    <2>8. OpKnows'
      <3>1. CASE op.kind = "consume"
        <4>1. Answers = {} BY <3>1 DEF Answers
        <4> QED BY <2>1, <2>2, <3>1, <4>1 DEF HInv, OpKnows, Spent
      <3>2. CASE op.kind # "consume" BY <2>2, <3>2 DEF OpKnows, Idle
      <3> QED BY <3>1, <3>2
    <2>9. op'.pc # "idle" => op'.next = op.next BY <2>2 DEF Idle
    <2> QED BY <2>1, <2>7, <2>8, <2>9 DEF HInv
  <1>8. CASE Dispatch
    <2>1. /\ op.pc = "send" /\ op'.pc = "sending" /\ op'.kind = op.kind /\ op'.next = op.next
          /\ op'.id = op.id /\ op'.attempt = op.attempt
          /\ UNCHANGED <<up, mem, disk, stable, used, granted, told>>
      BY <1>0, <1>8 DEF Dispatch, OpType
    <2>2. OpKnows' BY <2>1 DEF HInv, OpKnows, Spent
    <2> QED BY <2>1, <2>2 DEF HInv
  <1>9. ASSUME NEW outcome \in Outcomes, Answered(outcome)
        PROVE  HInv'
    <2> DEFINE t == op.attempt
               k == Settled(t, outcome)
    <2>1. /\ op.pc = "sending" /\ op'.pc = "write" /\ op'.kind = "complete"
          /\ op'.next = k /\ op'.id = op.id /\ op'.attempt = t
          /\ UNCHANGED <<up, mem, disk, stable, used, granted, told>>
      BY <1>9 DEF Answered, Persist
    <2>2. op.kind = "consume" /\ mem = op.next BY <2>1 DEF IInv, OpRefers
    <2>3. Spent(mem, op.id, t) /\ mem.attempts[t].state = "DISPATCHING"
      BY <2>2 DEF HInv, OpKnows
    <2>4. Remembers(stable, mem, told) BY <2>1, <2>2 DEF HInv
    <2>5. Remembers(stable, k, told) /\ Spent(k, op.id, t)
      BY <1>0, <2>3, <2>4, RememberAnswer
    <2> HIDE DEF t, k
    <2>6. OpKnows' BY <2>1, <2>5 DEF OpKnows, Spent
    <2> QED BY <2>1, <2>5, <2>6 DEF HInv
  <1> QED BY <1>1, <1>2, <1>3, <1>4, <1>5, <1>6, <1>7, <1>8, <1>9 DEF Progress

LEMMA InitRemembers == Init => HInv
  <1> SUFFICES ASSUME Init PROVE HInv
    OBVIOUS
  <1>1. ~up /\ op = Idle /\ told = {} /\ granted = {} /\ disk = EmptyJournal /\ stable = EmptyJournal
    BY DEF Init
  <1>2. Remembers(EmptyJournal, EmptyJournal, {})
    BY DEF Remembers, Extends, Classed, Seen, EmptyJournal
  <1>3. OpKnows BY <1>1 DEF OpKnows, Idle
  <1>4. op.pc = "idle" BY <1>1 DEF Idle
  <1> QED BY <1>1, <1>2, <1>3, <1>4 DEF HInv

LEMMA StepRemembers == IInv /\ HInv /\ [Next]_vars => HInv'
  <1> SUFFICES ASSUME IInv, HInv, [Next]_vars PROVE HInv'
    OBVIOUS
  <1>1. CASE Call BY <1>1, CallRemembers
  <1>2. CASE Progress BY <1>2, ProgressRemembers
  <1>3. ASSUME NEW t \in AttemptIds, Expose(t) PROVE HInv'
    <2>1. UNCHANGED <<up, mem, disk, stable, op, used, granted, told>> BY <1>3 DEF Expose
    <2> QED BY <2>1 DEF HInv, OpKnows, Spent
  <1>4. CASE Crash BY <1>4, EndRemembers DEF Crash
  <1>5. CASE Start
    <2>1. /\ up' /\ mem' = Recovered(disk) /\ op'.next = Recovered(disk)
          /\ op'.kind = "init" /\ op'.pc = "write"
          /\ UNCHANGED <<disk, stable, used, granted, told>>
      BY <1>5 DEF Start, Persist
    <2>2. disk \in Journal /\ stable \in Journal BY DEF IInv, TypeOK
    <2>3. Remembers(stable, Recovered(disk), told) BY <2>2, RememberRecovery DEF HInv
    <2>4. OpKnows' BY <2>1 DEF OpKnows
    <2> QED BY <2>1, <2>3, <2>4 DEF HInv
  <1>6. CASE UNCHANGED vars
    <2>1. UNCHANGED <<up, mem, disk, stable, op, used, granted, told>> BY <1>6 DEF vars
    <2> QED BY <2>1 DEF HInv, OpKnows, Spent
  <1> QED BY <1>1, <1>2, <1>3, <1>4, <1>5, <1>6 DEF Next

LEMMA Remembering == Spec => []HInv
  <1> QED BY InitRemembers, StepRemembers, Inductive, PTL DEF Spec
-----------------------------------------------------------------------------
(***************************************************************************)
(* What no later step takes back.                                          *)
(***************************************************************************)

\* Only Dispatch hands an attempt over, and only Sync makes a journal the durable one.
LEMMA WhoDispatches ==
  ASSUME [Next]_vars, dispatched' # dispatched
  PROVE  Dispatch
  <1>1. CASE Call
    <2>1. ASSUME NEW id, NEW scope, NEW p, NEW mode, SealPayload(id, scope, p, mode) PROVE FALSE
      BY <2>1 DEF SealPayload, world
    <2>2. ASSUME NEW id, NEW scope, NEW d, Confirm(id, scope, d) PROVE FALSE
      BY <2>2 DEF Confirm, world
    <2>3. ASSUME NEW id, NEW scope, NEW d, Cancel(id, scope, d) PROVE FALSE
      BY <2>3 DEF Cancel, world
    <2>4. ASSUME NEW id, NEW scope, NEW t, NEW explicit, NEW a, Retry(id, scope, t, explicit, a)
          PROVE  FALSE
      BY <2>4 DEF Retry, world
    <2>5. ASSUME NEW id, NEW scope, NEW d, NEW p, NEW protocol, NEW t,
                 Release(id, scope, d, p, protocol, t)
          PROVE  FALSE
      BY <2>5 DEF Release, world
    <2>6. ASSUME NEW id, NEW scope, NEW d, NEW p, NEW protocol, NEW t,
                 ReleaseContinuous(id, scope, d, p, protocol, t)
          PROVE  FALSE
      BY <2>6 DEF ReleaseContinuous, world
    <2> QED BY <1>1, <2>1, <2>2, <2>3, <2>4, <2>5, <2>6 DEF Call
  <1>2. CASE Progress
    <2>1. ASSUME NEW d, NEW a, Confirmed(d, a) PROVE FALSE BY <2>1 DEF Confirmed, world
    <2>2. ASSUME NEW outcome, Answered(outcome) PROVE FALSE BY <2>2 DEF Answered
    <2>3. CASE ConfirmationRefused \/ WriteFails \/ Rename \/ SyncFails \/ Sync \/ FaultAfterConsumption
      BY <2>3 DEF ConfirmationRefused, WriteFails, Rename, SyncFails, Sync, FaultAfterConsumption, world
    <2> QED BY <1>2, <2>1, <2>2, <2>3 DEF Progress
  <1>3. CASE \E t \in AttemptIds : Expose(t) BY <1>3 DEF Expose
  <1>4. CASE Crash \/ Start BY <1>4 DEF Crash, Start, world
  <1>5. CASE UNCHANGED vars BY <1>5 DEF vars
  <1> QED BY <1>1, <1>2, <1>3, <1>4, <1>5 DEF Next

LEMMA WhoSyncs ==
  ASSUME [Next]_vars, stable' # stable
  PROVE  Sync
  <1>1. CASE Call
    <2>1. ASSUME NEW id, NEW scope, NEW p, NEW mode, SealPayload(id, scope, p, mode) PROVE FALSE
      BY <2>1 DEF SealPayload
    <2>2. ASSUME NEW id, NEW scope, NEW d, Confirm(id, scope, d) PROVE FALSE
      BY <2>2 DEF Confirm
    <2>3. ASSUME NEW id, NEW scope, NEW d, Cancel(id, scope, d) PROVE FALSE
      BY <2>3 DEF Cancel
    <2>4. ASSUME NEW id, NEW scope, NEW t, NEW explicit, NEW a, Retry(id, scope, t, explicit, a)
          PROVE  FALSE
      BY <2>4 DEF Retry
    <2>5. ASSUME NEW id, NEW scope, NEW d, NEW p, NEW protocol, NEW t,
                 Release(id, scope, d, p, protocol, t)
          PROVE  FALSE
      BY <2>5 DEF Release
    <2>6. ASSUME NEW id, NEW scope, NEW d, NEW p, NEW protocol, NEW t,
                 ReleaseContinuous(id, scope, d, p, protocol, t)
          PROVE  FALSE
      BY <2>6 DEF ReleaseContinuous
    <2> QED BY <1>1, <2>1, <2>2, <2>3, <2>4, <2>5, <2>6 DEF Call
  <1>2. CASE Progress
    <2>1. ASSUME NEW d, NEW a, Confirmed(d, a) PROVE FALSE BY <2>1 DEF Confirmed
    <2>2. ASSUME NEW outcome, Answered(outcome) PROVE FALSE BY <2>2 DEF Answered
    <2>3. CASE ConfirmationRefused \/ WriteFails \/ Rename \/ SyncFails \/ Dispatch \/ FaultAfterConsumption
      BY <2>3 DEF ConfirmationRefused, WriteFails, Rename, SyncFails, Dispatch, FaultAfterConsumption
    <2> QED BY <1>2, <2>1, <2>2, <2>3 DEF Progress
  <1>3. CASE \E t \in AttemptIds : Expose(t) BY <1>3 DEF Expose
  <1>4. CASE Crash \/ Start BY <1>4 DEF Crash, Start
  <1>5. CASE UNCHANGED vars BY <1>5 DEF vars
  <1> QED BY <1>1, <1>2, <1>3, <1>4, <1>5 DEF Next

\* The hand-over as the histories see it: the attempt of the running release, which the
\* durable journal records, which was never sent, and of a version nobody saw in the page.
LEMMA DispatchView ==
  ASSUME IInv, HInv, Dispatch
  PROVE  \E t \in AttemptIds :
           /\ t = op.attempt /\ dispatched[t] = 0 /\ dispatched' = [dispatched EXCEPT ![t] = 1]
           /\ mem = stable /\ stable' = stable /\ granted' = granted
           /\ stable.attempts[t] # None
           /\ Observed(stable.attempts[t].sealId) \notin told
  <1>1. /\ op.pc = "send" /\ dispatched' = [dispatched EXCEPT ![op.attempt] = @ + 1]
        /\ UNCHANGED <<mem, stable, granted>>
    BY DEF Dispatch
  <1>2. op.kind = "consume" /\ mem = op.next /\ stable = mem /\ dispatched[op.attempt] = 0
    BY <1>1 DEF IInv, OpRefers, OpInv
  <1>3. op.attempt \in AttemptIds BY <1>2 DEF IInv, OpRefers
  <1>4. Spent(op.next, op.id, op.attempt) /\ Observed(op.id) \notin told
    BY <1>2 DEF HInv, OpKnows
  <1>5. dispatched' = [dispatched EXCEPT ![op.attempt] = 1]
    BY <1>1, <1>2, <1>3 DEF IInv, TypeOK
  <1>6. stable.attempts[op.attempt] # None /\ stable.attempts[op.attempt].sealId = op.id
    BY <1>2, <1>4 DEF Spent
  <1> QED BY <1>1, <1>2, <1>3, <1>4, <1>5, <1>6

\* The durable journal after a step extends the one before.
LEMMA DurableExtends == ASSUME IInv, HInv, [Next]_vars PROVE Extends(stable, stable')
  <1>1. CASE stable' = stable BY <1>1 DEF Extends, Later
  <1>2. CASE stable' # stable
    <2>1. op.pc = "sync" /\ stable' = disk BY <1>2, WhoSyncs DEF Sync
    <2> QED BY <2>1 DEF HInv, Remembers
  <1> QED BY <1>1, <1>2

NotSentAgain ==
  \A t \in AttemptIds : dispatched'[t] > dispatched[t] =>
    [answer |-> "observed", id |-> mem.attempts[t].sealId] \notin told

OnlyOutcomesAdded ==
  \A t \in AttemptIds : stable.attempts[t] # None =>
    /\ stable'.attempts[t] # None
    /\ \/ stable'.attempts[t] = stable.attempts[t]
       \/ /\ stable.attempts[t].state = "DISPATCHING"
          /\ [stable'.attempts[t] EXCEPT !.state = "DISPATCHING"] = stable.attempts[t]

\* For any number of versions and attempts: after the caller was told that a version was
\* observed, it is never dispatched again, and the durable history of attempts only grows,
\* through failed writes, losses of power, retries and restarts.
THEOREM HistoryKept == Spec => HistoryIsFinal
  <1>1. IInv /\ HInv /\ [Next]_vars => [NotSentAgain]_vars
    <2> SUFFICES ASSUME IInv, HInv, [Next]_vars,
                        NEW t \in AttemptIds, dispatched'[t] > dispatched[t]
                 PROVE  [answer |-> "observed", id |-> mem.attempts[t].sealId] \notin told
      BY DEF NotSentAgain
    <2>0. dispatched \in [AttemptIds -> Nat] BY DEF IInv, TypeOK
    <2>1. dispatched' # dispatched BY <2>0
    <2>2. PICK u \in AttemptIds :
           /\ u = op.attempt /\ dispatched[u] = 0 /\ dispatched' = [dispatched EXCEPT ![u] = 1]
           /\ mem = stable /\ stable' = stable /\ granted' = granted
           /\ stable.attempts[u] # None
           /\ Observed(stable.attempts[u].sealId) \notin told
      BY <2>1, WhoDispatches, DispatchView
    <2>3. t = u BY <2>0, <2>2
    <2> QED BY <2>2, <2>3 DEF Observed
  <1>2. IInv /\ HInv /\ [Next]_vars => [OnlyOutcomesAdded]_vars
    <2> SUFFICES ASSUME IInv, HInv, [Next]_vars, NEW t \in AttemptIds, stable.attempts[t] # None
                 PROVE  Later(stable.attempts[t], stable'.attempts[t]) /\ stable'.attempts[t] # None
      BY DEF OnlyOutcomesAdded, Later
    <2>1. Later(stable.attempts[t], stable'.attempts[t]) BY DurableExtends DEF Extends
    <2> QED BY <2>1 DEF Later
  <1>3. Spec => [][NotSentAgain]_vars BY <1>1, Inductive, Remembering, PTL DEF Spec
  <1>4. Spec => [][OnlyOutcomesAdded]_vars BY <1>2, Inductive, Remembering, PTL DEF Spec
  <1> QED BY <1>3, <1>4 DEF HistoryIsFinal, ObservedIsFinal, DurableHistoryGrows,
                            NotSentAgain, OnlyOutcomesAdded
-----------------------------------------------------------------------------
(***************************************************************************)
(* The ledger, step by step.                                               *)
(***************************************************************************)

Granted == {g.authorization : g \in granted}

\* At most one attempt of the durable journal carries an authorization.
LEMMA SpentOnOne ==
  ASSUME Separate(stable), NEW a \in AuthIds, NEW t \in AttemptIds,
         stable.attempts[t] # None, stable.attempts[t].authorization = a
  PROVE  SpentBy[a] = t
  <1>1. a # None BY ReleaseAssumption, Zenon
  <1>2. ASSUME NEW r \in SpentOn(a) PROVE r = t
    BY <1>1, <1>2 DEF Separate, SpentOn
  <1>3. t \in SpentOn(a) BY DEF SpentOn
  <1>4. (CHOOSE r \in SpentOn(a) : TRUE) = t BY <1>2, <1>3
  <1> QED BY <1>3, <1>4 DEF SpentBy

LEMMA UnspentIsNone ==
  ASSUME NEW a \in AuthIds,
         \A t \in AttemptIds : stable.attempts[t] = None \/ stable.attempts[t].authorization # a
  PROVE  SpentBy[a] = None
  <1>1. SpentOn(a) = {} BY DEF SpentOn
  <1> QED BY <1>1 DEF SpentBy

LEMMA SpentOnPrimed ==
  ASSUME Separate(stable)', NEW a \in AuthIds, NEW t \in AttemptIds,
         stable'.attempts[t] # None, stable'.attempts[t].authorization = a
  PROVE  SpentBy'[a] = t
  <1>1. a # None BY ReleaseAssumption, Zenon
  <1>2. ASSUME NEW r \in SpentOn(a)' PROVE r = t
    BY <1>1, <1>2 DEF Separate, SpentOn
  <1>3. t \in SpentOn(a)' BY DEF SpentOn
  <1>4. (CHOOSE r \in SpentOn(a)' : TRUE) = t BY <1>2, <1>3
  <1> QED BY <1>3, <1>4 DEF SpentBy

LEMMA UnspentPrimed ==
  ASSUME NEW a \in AuthIds,
         \A t \in AttemptIds : stable'.attempts[t] = None \/ stable'.attempts[t].authorization # a
  PROVE  SpentBy'[a] = None
  <1>1. SpentOn(a)' = {} BY DEF SpentOn
  <1> QED BY <1>1 DEF SpentBy

\* A directory sync spends the authorizations of the attempts it makes durable, or is invisible.
LEMMA SyncIsSpend ==
  ASSUME IInv, IInv', HInv, Sync
  PROVE  Ledger!Spend \/ UNCHANGED Ledger!ledger
  <1>1. /\ op.pc = "sync" /\ stable' = op.next /\ dispatched' = dispatched /\ granted' = granted
    BY DEF Sync, IInv, OpInv, world
  <1>2. /\ Separate(stable) /\ Recorded(stable, dispatched) /\ stable \in Journal
    BY DEF IInv, Sound, View
  <1>3. /\ Separate(stable)' /\ Authorized(stable', granted) /\ stable' \in Journal
    BY <1>1 DEF IInv, Sound, View
  <1>4. Extends(stable, stable') /\ Classed(stable')
    BY <1>1 DEF HInv, Remembers
  <1>5. ASSUME NEW t \in AttemptIds, stable.attempts[t] # None
        PROVE  /\ stable'.attempts[t] # None
               /\ stable'.attempts[t].authorization = stable.attempts[t].authorization
               /\ stable'.attempts[t].releaseClass = stable.attempts[t].releaseClass
    <2>1. stable.attempts[t] \in Attempt /\ stable'.attempts[t] \in Attempt \cup {None}
      BY <1>2, <1>3, <1>5 DEF Journal
    <2>2. Later(stable.attempts[t], stable'.attempts[t]) BY <1>4, <1>5 DEF Extends
    <2> QED BY <2>1, <2>2, LaterKeeps
  <1>6. ProtectedSends' = ProtectedSends
    <2>1. ASSUME NEW t \in AttemptIds
          PROVE  (IF Retrospective(t)' THEN 0 ELSE dispatched'[t])
                   = (IF Retrospective(t) THEN 0 ELSE dispatched[t])
      <3>1. CASE stable.attempts[t] # None BY <1>1, <1>5, <3>1 DEF Retrospective
      <3>2. CASE stable.attempts[t] = None
        <4>1. dispatched[t] = 0 BY <1>2, <3>2 DEF Recorded, IInv, TypeOK
        <4> QED BY <1>1, <4>1
      <3> QED BY <3>1, <3>2
    <2> QED BY <2>1 DEF ProtectedSends
  <1>7. Granted' = Granted BY <1>1 DEF Granted
  <1>8. ASSUME NEW a \in AuthIds
        PROVE  \/ SpentBy'[a] = SpentBy[a]
               \/ /\ SpentBy[a] = None /\ a \in Granted
                  /\ SpentBy'[a] \in AttemptIds /\ ProtectedSends[SpentBy'[a]] = 0
                  /\ \A b \in AuthIds \ {a} : SpentBy'[b] # SpentBy'[a]
    <2>1. CASE \E t \in AttemptIds : stable.attempts[t] # None /\ stable.attempts[t].authorization = a
      <3>1. PICK t \in AttemptIds : stable.attempts[t] # None /\ stable.attempts[t].authorization = a
        BY <2>1
      <3>2. SpentBy[a] = t BY <1>2, <3>1, SpentOnOne
      <3>3. SpentBy'[a] = t BY <1>3, <1>5, <3>1, SpentOnPrimed
      <3> QED BY <3>2, <3>3
    <2>2. CASE ~\E t \in AttemptIds : stable.attempts[t] # None /\ stable.attempts[t].authorization = a
      <3>1. SpentBy[a] = None BY <2>2, UnspentIsNone
      <3>2. CASE ~\E t \in AttemptIds : stable'.attempts[t] # None /\ stable'.attempts[t].authorization = a
        <4>1. SpentBy'[a] = None BY <3>2, UnspentPrimed
        <4> QED BY <3>1, <4>1
      <3>3. CASE \E t \in AttemptIds : stable'.attempts[t] # None /\ stable'.attempts[t].authorization = a
        <4>1. PICK t \in AttemptIds : stable'.attempts[t] # None /\ stable'.attempts[t].authorization = a
          BY <3>3
        <4>2. SpentBy'[a] = t BY <1>3, <4>1, SpentOnPrimed
        <4>3. stable.attempts[t] = None BY <1>5, <2>2, <4>1
        <4>4. dispatched[t] = 0 BY <1>2, <4>3 DEF Recorded, IInv, TypeOK
        <4>5. ProtectedSends[t] = 0 BY <4>4 DEF ProtectedSends
        <4>6. a \in Granted
          <5>1. a # None BY ReleaseAssumption, Zenon
          <5>2. stable'.attempts[t] \in Attempt BY <1>3, <4>1, AttemptType
          <5>3. stable'.attempts[t].releaseClass = "PRE_DISCLOSURE_PROTECTED"
            BY <1>4, <4>1, <5>1, <5>2 DEF Classed, Attempt, Classes
          <5>4. Grant(a, stable'.attempts[t].sealId, stable'.attempts[t]) \in granted
            BY <1>3, <4>1, <5>3 DEF Authorized
          <5>5. Grant(a, stable'.attempts[t].sealId, stable'.attempts[t]).authorization = a
            BY DEF Grant
          <5> QED BY <5>4, <5>5 DEF Granted
        <4>7. ASSUME NEW b \in AuthIds \ {a} PROVE SpentBy'[b] # t
          <5>1. CASE \E r \in AttemptIds : stable'.attempts[r] # None /\ stable'.attempts[r].authorization = b
            <6>1. PICK r \in AttemptIds : stable'.attempts[r] # None /\ stable'.attempts[r].authorization = b
              BY <5>1
            <6>2. SpentBy'[b] = r BY <1>3, <6>1, SpentOnPrimed
            <6> QED BY <4>1, <6>1, <6>2
          <5>2. CASE ~\E r \in AttemptIds : stable'.attempts[r] # None /\ stable'.attempts[r].authorization = b
            <6>1. SpentBy'[b] = None BY <5>2, UnspentPrimed
            <6>2. None \notin AttemptIds BY ReleaseAssumption, Zenon
            <6> QED BY <6>1, <6>2
          <5> QED BY <5>1, <5>2
        <4> QED BY <3>1, <4>2, <4>5, <4>6, <4>7
      <3> QED BY <3>2, <3>3
    <2> QED BY <2>1, <2>2
  <1>9. CASE SpentBy' = SpentBy
    BY <1>6, <1>7, <1>9 DEF Ledger!ledger, Granted
  <1>10. CASE SpentBy' # SpentBy
    BY <1>6, <1>7, <1>8, <1>10 DEF Ledger!Spend, Granted
  <1> QED BY <1>9, <1>10

\* Handing a protected attempt over is a send of the ledger, a retrospective one invisible.
LEMMA DispatchIsSend ==
  ASSUME IInv, HInv, Dispatch
  PROVE  Ledger!SendOne \/ UNCHANGED Ledger!ledger
  <1>1. PICK t \in AttemptIds :
           /\ t = op.attempt /\ dispatched[t] = 0 /\ dispatched' = [dispatched EXCEPT ![t] = 1]
           /\ mem = stable /\ stable' = stable /\ granted' = granted
           /\ stable.attempts[t] # None
           /\ Observed(stable.attempts[t].sealId) \notin told
    BY DispatchView
  <1>2. dispatched \in [AttemptIds -> Nat] BY DEF IInv, TypeOK
  <1>3. Granted' = Granted BY <1>1 DEF Granted
  <1>4. SpentBy' = SpentBy BY <1>1 DEF SpentBy, SpentOn
  <1>5. \A r \in AttemptIds : Retrospective(r)' <=> Retrospective(r)
    BY <1>1 DEF Retrospective
  <1>6. CASE Retrospective(t)
    <2>1. ProtectedSends' = ProtectedSends
      BY <1>1, <1>2, <1>5, <1>6 DEF ProtectedSends
    <2> QED BY <1>3, <1>4, <2>1 DEF Ledger!ledger, Granted
  <1>7. CASE ~Retrospective(t)
    <2>1. ProtectedSends[t] = 0 BY <1>1, <1>7 DEF ProtectedSends
    <2>2. ProtectedSends' = [ProtectedSends EXCEPT ![t] = 1]
      BY <1>1, <1>2, <1>5, <1>7 DEF ProtectedSends
    <2>3. stable \in Journal /\ Authorized(stable, granted) /\ Separate(stable)
      BY DEF IInv, Sound, View
    <2>4. stable.attempts[t] \in Attempt BY <1>1, <2>3, AttemptType
    <2>5. stable.attempts[t].releaseClass = "PRE_DISCLOSURE_PROTECTED"
      BY <1>1, <1>7, <2>4 DEF Retrospective, Attempt, Classes
    <2> DEFINE a == stable.attempts[t].authorization
    <2>6. Grant(a, stable.attempts[t].sealId, stable.attempts[t]) \in granted
      BY <1>1, <2>3, <2>5 DEF Authorized
    <2>7. Grant(a, stable.attempts[t].sealId, stable.attempts[t]).authorization = a
      BY DEF Grant
    <2>8. a \in AuthIds
      <3>1. \A g \in granted : g.authorization \in AuthIds BY DEF IInv, TypeOK
      <3> QED BY <2>6, <2>7, <3>1
    <2>9. SpentBy[a] = t BY <1>1, <2>3, <2>8, SpentOnOne
    <2> HIDE DEF a
    <2> QED BY <1>3, <1>4, <2>1, <2>2, <2>8, <2>9 DEF Ledger!SendOne, Granted
  <1> QED BY <1>6, <1>7

\* confirm and retry grant a fresh authorization; nothing else grants one.
LEMMA GrantIsGrantOne ==
  ASSUME HInv, NEW a \in AuthIds, a \notin used, NEW s, NEW seal,
         granted' = granted \cup {Grant(a, s, seal)}, stable' = stable, dispatched' = dispatched
  PROVE  Ledger!GrantOne
  <1>1. a \notin Granted BY DEF HInv, Granted
  <1>2. Grant(a, s, seal).authorization = a BY DEF Grant
  <1>3. Granted' = Granted \cup {a} BY <1>2 DEF Granted
  <1>4. SpentBy' = SpentBy BY DEF SpentBy, SpentOn
  <1>5. ProtectedSends' = ProtectedSends BY DEF ProtectedSends, Retrospective
  <1> QED BY <1>1, <1>3, <1>4, <1>5 DEF Ledger!GrantOne, Granted

LEMMA Invisible ==
  ASSUME UNCHANGED <<granted, stable, dispatched>>
  PROVE  UNCHANGED Ledger!ledger
  <1>1. SpentBy' = SpentBy BY DEF SpentBy, SpentOn
  <1>2. ProtectedSends' = ProtectedSends BY DEF ProtectedSends, Retrospective
  <1> QED BY <1>1, <1>2 DEF Ledger!ledger

LEMMA LedgerStep ==
  ASSUME IInv, IInv', HInv, [Next]_vars
  PROVE  Ledger!LedgerNext \/ UNCHANGED Ledger!ledger
  <1>1. CASE Sync BY <1>1, SyncIsSpend DEF Ledger!LedgerNext
  <1>2. CASE Dispatch BY <1>2, DispatchIsSend DEF Ledger!LedgerNext
  <1>3. CASE ~Sync /\ ~Dispatch
    <2>1. stable' = stable BY <1>3, WhoSyncs
    <2>2. dispatched' = dispatched BY <1>3, WhoDispatches
    <2>3. ASSUME NEW d \in Digests, NEW a \in AuthIds, Confirmed(d, a)
          PROVE  Ledger!LedgerNext \/ UNCHANGED Ledger!ledger
      <3>1. a \notin used /\ granted' = granted \cup {Grant(a, op.id, mem.seals[op.id])}
        BY <2>3 DEF Confirmed
      <3>2. Ledger!GrantOne BY <2>1, <2>2, <3>1, GrantIsGrantOne
      <3> QED BY <3>2 DEF Ledger!LedgerNext
    <2>4. ASSUME NEW id \in SealIds, NEW scope \in Scopes, NEW t \in AttemptIds,
                 NEW explicit \in BOOLEAN, NEW a \in AuthIds, Retry(id, scope, t, explicit, a)
          PROVE  Ledger!LedgerNext \/ UNCHANGED Ledger!ledger
      <3>1. a \notin used /\ granted' = granted \cup {Grant(a, id, mem.seals[id])}
        BY <2>4 DEF Retry
      <3>2. Ledger!GrantOne BY <2>1, <2>2, <3>1, GrantIsGrantOne
      <3> QED BY <3>2 DEF Ledger!LedgerNext
    <2>5. CASE granted' = granted BY <2>1, <2>2, <2>5, Invisible
    <2>6. ASSUME NEW id, NEW scope, NEW p, NEW mode, SealPayload(id, scope, p, mode)
          PROVE  granted' = granted
      BY <2>6 DEF SealPayload
    <2>7. ASSUME NEW id, NEW scope, NEW d, Confirm(id, scope, d) \/ Cancel(id, scope, d)
          PROVE  granted' = granted
      BY <2>7 DEF Confirm, Cancel
    <2>8. ASSUME NEW id, NEW scope, NEW d, NEW p, NEW protocol, NEW t,
                 Release(id, scope, d, p, protocol, t) \/ ReleaseContinuous(id, scope, d, p, protocol, t)
          PROVE  granted' = granted
      BY <2>8 DEF Release, ReleaseContinuous
    <2>9. ASSUME NEW outcome, Answered(outcome) PROVE granted' = granted
      BY <2>9 DEF Answered
    <2>10. ConfirmationRefused \/ WriteFails \/ Rename \/ SyncFails \/ FaultAfterConsumption
             => granted' = granted
      BY DEF ConfirmationRefused, WriteFails, Rename, SyncFails, FaultAfterConsumption
    <2>11. (\E t \in AttemptIds : Expose(t)) \/ Crash \/ Start \/ UNCHANGED vars => granted' = granted
      BY DEF Expose, Crash, Start, vars
    <2>12. CASE Call BY <2>4, <2>5, <2>6, <2>7, <2>8, <2>12 DEF Call
    <2>13. CASE Progress BY <1>3, <2>3, <2>5, <2>9, <2>10, <2>13 DEF Progress
    <2> QED BY <2>5, <2>11, <2>12, <2>13 DEF Next
  <1> QED BY <1>1, <1>2, <1>3

\* The runtime implements the ledger for any number of versions, attempts and
\* authorizations: every step is a grant of a fresh authorization, a durable spending of
\* granted ones on attempts of their own, one send of an attempt that paid, or invisible.
THEOREM LedgerImplemented == Spec => ImplementsLedger
  <1>1. Init => Ledger!LedgerInit
    <2> SUFFICES ASSUME Init PROVE Ledger!LedgerInit
      OBVIOUS
    <2>1. granted = {} /\ dispatched = [t \in AttemptIds |-> 0] /\ stable = EmptyJournal
      BY DEF Init
    <2>2. \A t \in AttemptIds : stable.attempts[t] = None BY <2>1 DEF EmptyJournal
    <2>3. \A a \in AuthIds : SpentOn(a) = {} BY <2>2 DEF SpentOn
    <2>4. SpentBy = [a \in AuthIds |-> None] BY <2>3 DEF SpentBy
    <2>5. ProtectedSends = [t \in AttemptIds |-> 0] BY <2>1 DEF ProtectedSends
    <2>6. {g.authorization : g \in granted} = {} BY <2>1
    <2> QED BY <2>4, <2>5, <2>6 DEF Ledger!LedgerInit
  <1>2. IInv /\ IInv' /\ HInv /\ [Next]_vars => [Ledger!LedgerNext]_(Ledger!ledger)
    BY LedgerStep
  <1> QED BY <1>1, <1>2, Inductive, Remembering, PTL DEF Spec, ImplementsLedger, Ledger!LedgerSpec
=============================================================================
